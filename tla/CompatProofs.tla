---------------------------- MODULE CompatProofs ----------------------------
(***************************************************************************)
(* Proofs about the compatibility server, for every number of connections,  *)
(* Bot Tokens, Match slots, Seats, Kyoku and Decisions, and every size of   *)
(* the queue and of a batch.                                                *)
(***************************************************************************)
EXTENDS Compat, SequenceTheorems, FiniteSetTheorems, TLAPS

-----------------------------------------------------------------------------
(* The queue as a sequence *)

Elems(q) == {q[i] : i \in DOMAIN q}

\* No Bot Token is in the queue q twice.
Distinct(q) == \A i, j \in DOMAIN q : TokenOf[q[i]] = TokenOf[q[j]] => i = j

LEMMA Appended ==
  ASSUME NEW q \in Seq(C), NEW c \in C
  PROVE  LET r == Append(q, c)
         IN  /\ r \in Seq(C) /\ Len(r) = Len(q) + 1 /\ r # << >>
             /\ Elems(r) = Elems(q) \cup {c}
             /\ Distinct(q) /\ (\A d \in Elems(q) : TokenOf[d] # TokenOf[c]) => Distinct(r)
<1> DEFINE r == Append(q, c)
           n == Len(q) + 1
<1>1. /\ r \in Seq(C) /\ Len(r) = n /\ n \in Nat /\ DOMAIN q = 1 .. Len(q) /\ DOMAIN r = 1 .. n
      /\ Len(q) \in Nat /\ r # << >>
  <2>1. Len(q) \in Nat /\ DOMAIN q = 1 .. Len(q)
    BY LenProperties
  <2>2. r \in Seq(C) /\ r # << >> /\ Len(r) = n
    BY AppendProperties
  <2>3. DOMAIN r = 1 .. Len(r)
    BY <2>2, LenProperties
  <2> QED
    BY <2>1, <2>2, <2>3
<1>2. r[n] = c /\ \A i \in DOMAIN q : r[i] = q[i]
  BY <1>1, AppendProperties
<1>3. DOMAIN r = DOMAIN q \cup {n} /\ n \notin DOMAIN q
  BY <1>1
<1> HIDE DEF r, n
<1>4. Elems(r) = Elems(q) \cup {c}
  BY <1>2, <1>3 DEF Elems
<1>5. ASSUME Distinct(q), \A d \in Elems(q) : TokenOf[d] # TokenOf[c]
      PROVE  Distinct(r)
  BY <1>2, <1>3, <1>5 DEF Distinct, Elems
<1> QED
  BY <1>1, <1>4, <1>5 DEF r, n

LEMMA SameCounting == \A S : Queue!IsFiniteSet(S) = IsFiniteSet(S) /\ Queue!Cardinality(S) = Cardinality(S)
BY DEF Queue!IsFiniteSet, IsFiniteSet, Queue!Cardinality, Cardinality

\* What SubSeq takes out of a queue.
LEMMA PartOf ==
  ASSUME NEW q \in Seq(C), NEW k \in Nat, NEW n \in Nat, k <= n, n <= Len(q)
  PROVE  LET u == SubSeq(q, k + 1, n)
         IN  /\ u \in Seq(C) /\ Len(u) = n - k /\ DOMAIN u = 1 .. n - k
             /\ \A i \in 1 .. n - k : u[i] = q[i + k] /\ i + k \in DOMAIN q
<1> DEFINE u == SubSeq(q, k + 1, n)
<1>1. Len(q) \in Nat /\ DOMAIN q = 1 .. Len(q) /\ \A i \in DOMAIN q : q[i] \in C
  BY LenProperties
<1>2. k + 1 \in Int /\ n \in Int /\ \A i \in k + 1 .. n : q[i] \in C
  BY <1>1
<1>3. /\ u \in Seq(C) /\ Len(u) = IF k + 1 <= n THEN n - (k + 1) + 1 ELSE 0
      /\ \A i \in 1 .. n - (k + 1) + 1 : u[i] = q[k + 1 + i - 1]
  BY <1>2, SubSeqProperties
<1> HIDE DEF u
<1>4. DOMAIN u = 1 .. Len(u)
  BY <1>3, LenProperties
<1>5. Len(u) = n - k
  BY <1>3
<1>6. ASSUME NEW i \in 1 .. n - k
      PROVE  u[i] = q[i + k] /\ i + k \in DOMAIN q
  <2>1. i \in 1 .. n - (k + 1) + 1 /\ k + 1 + i - 1 = i + k
    OBVIOUS
  <2>2. i + k \in 1 .. Len(q)
    BY <1>1
  <2> QED
    BY <1>1, <1>3, <2>1, <2>2
<1> QED
  BY <1>3, <1>4, <1>5, <1>6 DEF u

\* drain_batch takes the front of the queue, which holds at least its first member.
LEMMA DrainSplits ==
  ASSUME NEW q \in Seq(C), q # << >>, Distinct(q), Queue!Assumption
  PROVE  /\ Queue!Undrained(q) \in Seq(C) /\ Len(Queue!Undrained(q)) <= Len(q)
         /\ Distinct(Queue!Undrained(q))
         /\ Queue!Drained(q) \subseteq Elems(q) /\ Elems(q) \subseteq C
         /\ q[1] \in Queue!Drained(q)
         /\ Elems(Queue!Undrained(q)) \subseteq Elems(q) \ Queue!Drained(q)
<1> DEFINE k == IF Len(q) < BatchSize THEN Len(q) ELSE BatchSize
           u == SubSeq(q, k + 1, Len(q))
           D == {q[i] : i \in 1 .. k}
<1>1. /\ Len(q) \in Nat /\ Len(q) # 0 /\ k \in Nat /\ k # 0 /\ k <= Len(q)
      /\ DOMAIN q = 1 .. Len(q) /\ \A i \in DOMAIN q : q[i] \in C
  BY DEF Queue!Assumption
<1>2. Queue!Drained(q) = D
  BY DEF Queue!Drained
<1>4. Queue!Undrained(q) = u
  <2>1. CASE Len(q) < BatchSize
    <3>1. BatchSize + 1 \in Int /\ k + 1 \in Int /\ Len(q) \in Int /\ Len(q) < BatchSize + 1 /\ Len(q) < k + 1
      BY <1>1, <2>1 DEF Queue!Assumption
    <3>2. SubSeq(q, BatchSize + 1, Len(q)) = << >>
      BY <3>1, SubSeqEmpty
    <3>3. SubSeq(q, k + 1, Len(q)) = << >>
      BY <3>1, SubSeqEmpty
    <3> QED
      BY <3>2, <3>3 DEF Queue!Undrained
  <2>2. CASE ~(Len(q) < BatchSize)
    BY <2>2 DEF Queue!Undrained
  <2> QED
    BY <2>1, <2>2
<1> HIDE DEF k
<1>5. /\ u \in Seq(C) /\ Len(u) = Len(q) - k /\ DOMAIN u = 1 .. Len(q) - k
      /\ \A i \in DOMAIN u : u[i] = q[i + k] /\ i + k \in DOMAIN q /\ i + k > k
  <2>1. /\ u \in Seq(C) /\ Len(u) = Len(q) - k /\ DOMAIN u = 1 .. Len(q) - k
        /\ \A i \in 1 .. Len(q) - k : u[i] = q[i + k] /\ i + k \in DOMAIN q
    <3>1. k \in Nat /\ Len(q) \in Nat /\ k <= Len(q) /\ Len(q) <= Len(q)
      BY <1>1
    <3> QED
      BY <3>1, PartOf
  <2> HIDE DEF u
  <2>2. \A i \in 1 .. Len(q) - k : i + k > k
    BY <1>1
  <2> QED
    BY <2>1, <2>2
<1> HIDE DEF u
<1>6. Distinct(u)
  <2> SUFFICES ASSUME NEW i \in DOMAIN u, NEW j \in DOMAIN u, TokenOf[u[i]] = TokenOf[u[j]]
               PROVE  i = j
    BY DEF Distinct
  <2>1. i + k = j + k
    BY <1>5 DEF Distinct
  <2> QED
    BY <1>1, <1>5, <2>1
<1>7. Elems(u) \subseteq Elems(q) \ D
  <2> SUFFICES ASSUME NEW i \in DOMAIN u PROVE u[i] \in Elems(q) \ D
    BY DEF Elems
  <2>1. i + k \in DOMAIN q /\ i + k > k /\ u[i] = q[i + k]
    BY <1>5
  <2>2. \A j \in 1 .. k : j \in DOMAIN q /\ j # i + k
    BY <1>1, <2>1
  <2> QED
    BY <2>1, <2>2 DEF Elems, Distinct
<1>8. D \subseteq Elems(q) /\ Elems(q) \subseteq C /\ q[1] \in D
  BY <1>1 DEF Elems
<1> QED
  BY <1>1, <1>2, <1>4, <1>5, <1>6, <1>7, <1>8

\* cancel_waiting and revoke_token_locked take one member at most.
LEMMA WithoutOne ==
  ASSUME NEW q \in Seq(C), Distinct(q), NEW gone,
         \A c, d \in gone : TokenOf[c] = TokenOf[d]
  PROVE  LET r == Queue!Without(q, gone)
         IN  /\ r \in Seq(C) /\ Len(r) <= Len(q) /\ Distinct(r)
             /\ Elems(r) \subseteq Elems(q) \ gone
<1> DEFINE r == Queue!Without(q, gone)
<1>1. Len(q) \in Nat /\ DOMAIN q = 1 .. Len(q)
  OBVIOUS
<1>2. CASE \A i \in DOMAIN q : q[i] \notin gone
  BY <1>1, <1>2 DEF Queue!Without, Elems
<1>3. CASE ~\A i \in DOMAIN q : q[i] \notin gone
  <2> DEFINE k == CHOOSE i \in DOMAIN q : q[i] \in gone
  <2>1. r = SubSeq(q, 1, k - 1) \o SubSeq(q, k + 1, Len(q))
    BY <1>3 DEF Queue!Without
  <2>2. k \in DOMAIN q /\ q[k] \in gone
    BY <1>3
  <2> HIDE DEF k
  <2> DEFINE a == SubSeq(q, 1, k - 1)
             b == SubSeq(q, k + 1, Len(q))
  <2>3. /\ a \in Seq(C) /\ Len(a) = k - 1 /\ \A i \in 1 .. k - 1 : a[i] = q[i]
        /\ b \in Seq(C) /\ Len(b) = Len(q) - k /\ \A i \in 1 .. Len(q) - k : b[i] = q[i + k]
    <3>1. /\ k \in Nat /\ k <= Len(q) /\ k - 1 \in Nat /\ k - 1 <= Len(q)
          /\ 0 \in Nat /\ 0 <= k - 1 /\ k - 1 - 0 = k - 1 /\ Len(q) <= Len(q)
      BY <1>1, <2>2
    <3>2. /\ SubSeq(q, 0 + 1, k - 1) \in Seq(C) /\ Len(SubSeq(q, 0 + 1, k - 1)) = k - 1 - 0
          /\ \A i \in 1 .. k - 1 - 0 : SubSeq(q, 0 + 1, k - 1)[i] = q[i + 0]
      BY <3>1, PartOf
    <3>3. 0 + 1 = 1 /\ \A i \in 1 .. k - 1 : i + 0 = i
      BY <3>1
    <3>4. /\ a \in Seq(C) /\ Len(a) = k - 1 /\ \A i \in 1 .. k - 1 : a[i] = q[i]
      BY <3>1, <3>2, <3>3
    <3>5. /\ b \in Seq(C) /\ Len(b) = Len(q) - k
          /\ \A i \in 1 .. Len(q) - k : b[i] = q[i + k]
      <4>1. k \in Nat /\ Len(q) \in Nat /\ k <= Len(q) /\ Len(q) <= Len(q)
        BY <1>1, <3>1
      <4> QED
        BY <4>1, PartOf
    <3> HIDE DEF a, b
    <3> QED
      BY <3>4, <3>5
  <2>4. r = a \o b
    BY <2>1
  <2> HIDE DEF a, b, r
  <2>5. /\ r \in Seq(C) /\ Len(r) = Len(q) - 1 /\ DOMAIN r = 1 .. Len(q) - 1
        /\ \A i \in DOMAIN r : r[i] = IF i < k THEN q[i] ELSE q[i + 1]
    <3>1. /\ r \in Seq(C) /\ Len(r) = Len(a) + Len(b)
          /\ \A i \in 1 .. Len(a) + Len(b) : r[i] = IF i <= Len(a) THEN a[i] ELSE b[i - Len(a)]
      BY <2>3, <2>4, ConcatProperties
    <3>2. DOMAIN r = 1 .. Len(r)
      BY <3>1, LenProperties
    <3>3. /\ k \in Nat /\ k # 0 /\ k <= Len(q) /\ Len(r) = Len(q) - 1
      BY <1>1, <2>2, <2>3, <3>1
    <3>4. ASSUME NEW i \in 1 .. Len(q) - 1
          PROVE  r[i] = IF i < k THEN q[i] ELSE q[i + 1]
      <4>1. r[i] = IF i <= Len(a) THEN a[i] ELSE b[i - Len(a)]
        BY <3>1, <3>3
      <4>2. CASE i < k
        <5>1. i <= Len(a) /\ i \in 1 .. k - 1
          BY <2>3, <3>3, <4>2
        <5> QED
          BY <2>3, <4>1, <4>2, <5>1
      <4>3. CASE ~(i < k)
        <5>1. ~(i <= Len(a)) /\ i - Len(a) \in 1 .. Len(q) - k /\ i - Len(a) + k = i + 1
          BY <1>1, <2>3, <3>3, <4>3
        <5> QED
          BY <2>3, <4>1, <4>3, <5>1
      <4> QED
        BY <4>2, <4>3
    <3> QED
      BY <3>1, <3>2, <3>3, <3>4
  <2>6. ASSUME NEW i \in DOMAIN r
        PROVE  \E j \in DOMAIN q : j # k /\ r[i] = q[j] /\ j = IF i < k THEN i ELSE i + 1
    BY <1>1, <2>2, <2>5
  <2>7. Distinct(r)
    BY <1>1, <2>2, <2>5, <2>6 DEF Distinct
  <2>8. Elems(r) \subseteq Elems(q) \ gone
    <3> SUFFICES ASSUME NEW i \in DOMAIN r PROVE r[i] \in Elems(q) \ gone
      BY DEF Elems
    <3>1. PICK j \in DOMAIN q : j # k /\ r[i] = q[j]
      BY <2>6
    <3> QED
      BY <2>2, <3>1 DEF Elems, Distinct
  <2> QED
    BY <1>1, <2>5, <2>7, <2>8 DEF r
<1> QED
  BY <1>2, <1>3

-----------------------------------------------------------------------------
(* Parts of the queue's invariant that a step leaves alone *)

LEMMA NoBatchIs ==
  /\ Queue!NoBatch \in Queue!Batch
  /\ Queue!NoBatch.members = {} /\ Queue!NoBatch.starter = "none" /\ Queue!NoBatch.game = "none"
  /\ ~Queue!NoBatch.listed /\ ~Queue!NoBatch.armed
BY DEF Queue!NoBatch, Queue!Batch, Queue!NoHost

\* Sockets, timers and tokens move: no batch does.
LEMMA BatchesStay ==
  ASSUME Queue!BatchInv, Queue!Capacity, Queue!OneMatchPerToken, Queue!ShutdownReachesEveryMatch,
         UNCHANGED <<batch, slots, down>>, Distinct(queue')
  PROVE  Queue!BatchInv' /\ Queue!Capacity' /\ Queue!OneMatchPerToken' /\ Queue!ShutdownReachesEveryMatch'
<1>1. Queue!BatchInv'
  BY DEF Queue!BatchInv
<1>2. Queue!Capacity'
  BY DEF Queue!Capacity, Queue!Live
<1>3. Queue!OneMatchPerToken'
  BY DEF Queue!OneMatchPerToken, Queue!Listed, Distinct
<1>4. Queue!ShutdownReachesEveryMatch'
  BY DEF Queue!ShutdownReachesEveryMatch
<1> QED
  BY <1>1, <1>2, <1>3, <1>4

\* Nobody joins the queue, and whoever stays in it or has not joined is not touched.
LEMMA WaitersStay ==
  ASSUME Queue!WaitingInv, UNCHANGED batch, Elems(queue') \subseteq Elems(queue),
         Elems(queue) \subseteq C,
         \A c \in C : at'[c] \in {"new", "admitted"} \/ c \in Elems(queue') =>
           /\ at[c] \in {"new", "admitted"} \/ c \in Elems(queue)
           /\ verdict'[c] = verdict[c],
         \A c \in Elems(queue') : at'[c] \in {"reading", "hosting"}
  PROVE  Queue!WaitingInv'
BY DEF Queue!WaitingInv, Queue!Waiting, Elems

\* Tokens stay known, no answer turns into an assignment, and no Match is armed.
LEMMA RevokedStay ==
  ASSUME Queue!RevokedStaysOut,
         active \cup notices \subseteq active' \cup notices',
         \A c \in C : verdict'[c] = "assigned" => verdict[c] = "assigned" /\ (c \in told => c \in told'),
         \A b \in C : \/ batch'[b].game \in {"left", "over"} \/ ~batch'[b].armed
                      \/ /\ batch'[b].members = batch[b].members /\ batch'[b].armed = batch[b].armed
                         /\ batch'[b].game = batch[b].game
  PROVE  Queue!RevokedStaysOut'
<1> SUFFICES ASSUME NEW c \in C, TokenOf[c] \notin active' \cup notices', verdict'[c] = "assigned",
                    c \notin told', NEW b \in C, c \in batch'[b].members, batch'[b].armed
             PROVE  batch'[b].game \in {"left", "over"}
  BY DEF Queue!RevokedStaysOut, Queue!BatchOf
<1>1. TokenOf[c] \notin active \cup notices /\ verdict[c] = "assigned" /\ c \notin told
  OBVIOUS
<1>2. \A d \in C : c \in batch[d].members => ~batch[d].armed \/ batch[d].game \in {"left", "over"}
  BY <1>1 DEF Queue!RevokedStaysOut, Queue!BatchOf
<1> QED
  BY <1>2

\* A socket closes that is not in the queue afterwards.
LEMMA SocketCloses ==
  ASSUME Queue!Assumption, Queue!QueueInv, NEW c \in C, Queue!Closes(c),
         queue' \in Seq(C), Len(queue') <= MaxQueue, Distinct(queue'),
         Elems(queue') \subseteq Elems(queue) \ {c},
         timer' \in BOOLEAN, calls' \subseteq Queue!Call,
         UNCHANGED <<batch, slots, active, notices, down>>
  PROVE  Queue!QueueInv'
<1> USE DEF Queue!QueueInv
<1>1. /\ at' \in [C -> {"new", "admitted", "hosting", "reading", "playing", "closed"}]
      /\ verdict' \in [C -> {"none", "assigned", "server_busy", "protocol_error",
                             "token_revoked", "server_shutdown"}]
      /\ told' \subseteq C
      /\ at'[c] = "closed" /\ verdict'[c] = "none" /\ told' = told \ {c}
      /\ \A d \in C : d # c => at'[d] = at[d] /\ verdict'[d] = verdict[d]
  BY DEF Queue!Closes, Queue!TypeOK
<1>2. Queue!TypeOK'
  BY <1>1 DEF Queue!TypeOK
<1>3. Queue!WaitingInv'
  <2>1. Elems(queue) \subseteq C
    BY DEF Queue!TypeOK, Elems
  <2>2. \A d \in Elems(queue) : at[d] \in {"reading", "hosting"}
    BY DEF Queue!WaitingInv, Queue!Waiting, Elems
  <2> QED
    BY <1>1, <2>1, <2>2, WaitersStay
<1>4. Queue!RevokedStaysOut'
  BY <1>1, RevokedStay
<1> QED
  BY <1>2, <1>3, <1>4, BatchesStay

-----------------------------------------------------------------------------
(* The steps of sockets, timers and tokens *)

LEMMA QueueIsSound ==
  ASSUME Queue!QueueInv
  PROVE  /\ queue \in Seq(C) /\ Len(queue) \in Nat /\ Distinct(queue) /\ Elems(queue) \subseteq C
         /\ Elems(queue) = Queue!Waiting
         /\ \A c \in Elems(queue) : at[c] \in {"reading", "hosting"} /\ KindOf[c] = "Ranked"
BY DEF Queue!QueueInv, Queue!TypeOK, Queue!OneMatchPerToken, Queue!WaitingInv, Queue!Waiting,
       Distinct, Elems

LEMMA UpgradeKeeps ==
  ASSUME Queue!Assumption, Queue!QueueInv, NEW c \in C, Queue!Upgrade(c)
  PROVE  Queue!QueueInv'
<1> USE DEF Queue!QueueInv
<1>1. /\ at[c] = "new" /\ at' = [at EXCEPT ![c] = "admitted"]
      /\ UNCHANGED <<verdict, told, queue, batch, slots, timer, calls, active, notices, down>>
  BY DEF Queue!Upgrade, Queue!tokenVars
<1>2. Queue!TypeOK'
  BY <1>1 DEF Queue!TypeOK
<1>3. /\ at'[c] = "admitted" /\ \A d \in C : d # c => at'[d] = at[d]
      /\ c \notin Elems(queue)
  BY <1>1, QueueIsSound DEF Queue!TypeOK
<1>4. Queue!WaitingInv'
  BY <1>1, <1>3, QueueIsSound, WaitersStay
<1>5. Queue!RevokedStaysOut'
  BY <1>1, RevokedStay
<1> QED
  BY <1>1, <1>2, <1>4, <1>5, QueueIsSound, BatchesStay

\* Refusals, and the ends of sockets that are not waiting.
LEMMA ClosedElsewhere ==
  ASSUME Queue!Assumption, Queue!QueueInv, NEW c \in C, Queue!Closes(c), c \notin Elems(queue),
         UNCHANGED <<queue, batch, slots, timer, calls, active, notices, down>>
  PROVE  Queue!QueueInv'
<1>1. queue' \in Seq(C) /\ Len(queue') <= MaxQueue /\ timer' \in BOOLEAN /\ calls' \subseteq Queue!Call
  BY DEF Queue!QueueInv, Queue!TypeOK
<1> QED
  BY <1>1, QueueIsSound, SocketCloses

LEMMA EndSocketKeeps ==
  ASSUME Queue!Assumption, Queue!QueueInv, NEW c \in C, Queue!EndSocket(c)
  PROVE  Queue!QueueInv'
<1>1. c \notin Elems(queue)
  BY QueueIsSound DEF Queue!EndSocket
<1> QED
  BY <1>1, ClosedElsewhere DEF Queue!EndSocket, Queue!tokenVars

LEMMA ReadVerdictKeeps ==
  ASSUME Queue!Assumption, Queue!QueueInv, NEW c \in C, Queue!ReadVerdict(c)
  PROVE  Queue!QueueInv'
<1> USE DEF Queue!QueueInv
<1>1. /\ at[c] = "reading" /\ verdict[c] # "none"
      /\ UNCHANGED <<queue, batch, slots, timer, calls, active, notices, down>>
  BY DEF Queue!ReadVerdict, Queue!tokenVars
<1>2. c \notin Elems(queue)
  BY <1>1, QueueIsSound DEF Queue!WaitingInv
<1>3. CASE verdict[c] = "assigned"
  <2>1. at' = [at EXCEPT ![c] = "playing"] /\ UNCHANGED <<verdict, told>>
    BY <1>3 DEF Queue!ReadVerdict
  <2>2. Queue!TypeOK'
    BY <1>1, <2>1 DEF Queue!TypeOK
  <2>3. at'[c] = "playing" /\ \A d \in C : d # c => at'[d] = at[d]
    BY <2>1 DEF Queue!TypeOK
  <2>4. Queue!WaitingInv'
    BY <1>1, <1>2, <2>1, <2>3, QueueIsSound, WaitersStay
  <2>5. Queue!RevokedStaysOut'
    BY <1>1, <2>1, RevokedStay
  <2> QED
    BY <1>1, <2>2, <2>4, <2>5, QueueIsSound, BatchesStay
<1>4. CASE verdict[c] # "assigned"
  BY <1>1, <1>2, <1>4, ClosedElsewhere DEF Queue!ReadVerdict
<1> QED
  BY <1>3, <1>4

LEMMA LeaveQueueKeeps ==
  ASSUME Queue!Assumption, Queue!QueueInv, NEW c \in C, Queue!LeaveQueue(c)
  PROVE  Queue!QueueInv'
<1>1. CASE KindOf[c] = "Validate"
  <2>1. c \notin Elems(queue)
    BY <1>1, QueueIsSound
  <2> QED
    BY <1>1, <2>1, ClosedElsewhere DEF Queue!LeaveQueue, Queue!tokenVars
<1>2. CASE KindOf[c] # "Validate"
  <2>1. /\ queue' \in Seq(C) /\ Len(queue') <= Len(queue) /\ Distinct(queue')
        /\ Elems(queue') \subseteq Elems(queue) \ {c}
    <3>1. queue' = Queue!Without(queue, {c})
      BY <1>2 DEF Queue!LeaveQueue
    <3>2. \A d, e \in {c} : TokenOf[d] = TokenOf[e]
      OBVIOUS
    <3> QED
      BY <3>1, <3>2, QueueIsSound, WithoutOne
  <2>2. Len(queue') <= MaxQueue
    BY <2>1, QueueIsSound, LenProperties DEF Queue!QueueInv, Queue!TypeOK, Queue!Assumption
  <2>3. timer' \in BOOLEAN /\ calls' \subseteq Queue!Call
    BY <1>2 DEF Queue!LeaveQueue, Queue!QueueInv, Queue!TypeOK, Queue!ScheduleCall, Queue!Call
  <2> QED
    BY <2>1, <2>2, <2>3, SocketCloses DEF Queue!LeaveQueue, Queue!tokenVars
<1> QED
  BY <1>1, <1>2

\* Timer tasks: a host may go back to its socket.
LEMMA TimerCallKeeps ==
  ASSUME Queue!Assumption, Queue!QueueInv, Queue!TypeOK',
         UNCHANGED <<verdict, told, queue, batch, slots, active, notices, down>>,
         \A c \in C : at'[c] = at[c] \/ at'[c] = "reading"
  PROVE  Queue!QueueInv'
<1> USE DEF Queue!QueueInv
<1>1. Queue!WaitingInv'
  BY QueueIsSound, WaitersStay
<1>2. Queue!RevokedStaysOut'
  BY RevokedStay
<1> QED
  BY <1>1, <1>2, QueueIsSound, BatchesStay

LEMMA HostComesBack ==
  ASSUME Queue!TypeOK, NEW host, Queue!HostReturns(host)
  PROVE  /\ at' \in [C -> {"new", "admitted", "hosting", "reading", "playing", "closed"}]
         /\ \A c \in C : at'[c] = at[c] \/ at'[c] = "reading"
BY DEF Queue!HostReturns, Queue!TypeOK

LEMMA ScheduleKeeps ==
  ASSUME Queue!Assumption, Queue!QueueInv, NEW call, Queue!Schedule(call)
  PROVE  Queue!QueueInv'
<1>1. /\ at' \in [C -> {"new", "admitted", "hosting", "reading", "playing", "closed"}]
      /\ \A c \in C : at'[c] = at[c] \/ at'[c] = "reading"
  BY HostComesBack DEF Queue!Schedule, Queue!QueueInv, Queue!TypeOK
<1>2. calls' \subseteq calls /\ timer' = (timer \/ Queue!TimerWanted(queue, slots))
      /\ UNCHANGED <<verdict, told, queue, batch, slots, active, notices, down>>
  BY DEF Queue!Schedule, Queue!tokenVars
<1>3. timer' \in BOOLEAN
  BY <1>2 DEF Queue!QueueInv, Queue!TypeOK
<1>4. Queue!TypeOK'
  BY <1>1, <1>2, <1>3 DEF Queue!QueueInv, Queue!TypeOK
<1> QED
  BY <1>1, <1>2, <1>4, TimerCallKeeps

LEMMA RestartKeeps ==
  ASSUME Queue!Assumption, Queue!QueueInv, NEW call, Queue!Restart(call)
  PROVE  Queue!QueueInv'
<1>1. /\ at' \in [C -> {"new", "admitted", "hosting", "reading", "playing", "closed"}]
      /\ \A c \in C : at'[c] = at[c] \/ at'[c] = "reading"
  BY HostComesBack DEF Queue!Restart, Queue!QueueInv, Queue!TypeOK
<1>2. /\ call \in calls /\ timer' = Queue!TimerWanted(queue, slots)
      /\ calls' \subseteq calls \cup {[call EXCEPT !.op = "starter"]}
      /\ UNCHANGED <<verdict, told, queue, batch, slots, active, notices, down>>
  BY DEF Queue!Restart, Queue!tokenVars
<1>3. timer' \in BOOLEAN
  BY <1>2 DEF Queue!TimerWanted
<1>4. calls' \subseteq Queue!Call
  BY <1>2 DEF Queue!QueueInv, Queue!TypeOK, Queue!Call
<1>5. Queue!TypeOK'
  BY <1>1, <1>2, <1>3, <1>4 DEF Queue!QueueInv, Queue!TypeOK
<1> QED
  BY <1>1, <1>2, <1>5, TimerCallKeeps

LEMMA RevokeKeeps ==
  ASSUME Queue!Assumption, Queue!QueueInv, NEW t \in Token, Queue!Revoke(t)
  PROVE  Queue!QueueInv'
<1> USE DEF Queue!QueueInv
<1>1. /\ active' = active \ {t} /\ notices' = notices \cup {t}
      /\ UNCHANGED <<at, verdict, told, queue, batch, slots, timer, calls, down>>
  BY DEF Queue!Revoke, Queue!socketVars
<1>2. Queue!TypeOK'
  BY <1>1 DEF Queue!TypeOK
<1>3. Queue!WaitingInv'
  BY <1>1, QueueIsSound, WaitersStay
<1>4. active \cup notices \subseteq active' \cup notices'
  BY <1>1
<1>5. Queue!RevokedStaysOut'
  BY <1>1, <1>4, RevokedStay
<1> QED
  BY <1>1, <1>2, <1>3, <1>5, QueueIsSound, BatchesStay

LEMMA AnswersAreTyped ==
  ASSUME Queue!TypeOK, NEW members,
         NEW v \in {"assigned", "server_busy", "protocol_error", "token_revoked", "server_shutdown"}
  PROVE  LET a == Queue!Answered(members, v)
         IN  /\ a \in [C -> {"none", "assigned", "server_busy", "protocol_error",
                             "token_revoked", "server_shutdown"}]
             /\ \A c \in C : a[c] = verdict[c] \/ (c \in members /\ a[c] = v)
BY DEF Queue!TypeOK, Queue!Answered

\* A revocation: whoever waits is out of the queue with its answer, and whoever plays
\* is told.
LEMMA DeliverKeeps ==
  ASSUME Queue!Assumption, Queue!QueueInv, NEW t \in Token, Queue!Deliver(t)
  PROVE  Queue!QueueInv'
<1> USE DEF Queue!QueueInv
<1> DEFINE gone == {c \in C : TokenOf[c] = t}
           called == {c \in Queue!Waiting : TokenOf[c] = t}
<1>1. /\ down = "up" /\ notices' = notices \ {t} /\ queue' = Queue!Without(queue, gone)
      /\ timer' = (timer /\ queue' # << >>)
      /\ verdict' = Queue!Answered(called, "token_revoked")
      /\ told' = told \cup Queue!Controlled({t}) /\ calls' = calls \cup {Queue!ScheduleCall}
      /\ UNCHANGED <<at, batch, slots, active, down>>
  BY DEF Queue!Deliver
<1>2. /\ queue' \in Seq(C) /\ Len(queue') <= Len(queue) /\ Distinct(queue')
      /\ Elems(queue') \subseteq Elems(queue) \ gone
  BY <1>1, QueueIsSound, WithoutOne
<1>3. /\ verdict' \in [C -> {"none", "assigned", "server_busy", "protocol_error",
                             "token_revoked", "server_shutdown"}]
      /\ \A c \in C : verdict'[c] = verdict[c] \/ (c \in called /\ verdict'[c] = "token_revoked")
  BY <1>1, AnswersAreTyped
<1>4. Queue!TypeOK'
  <2>1. Len(queue') <= MaxQueue
    BY <1>2, QueueIsSound, LenProperties DEF Queue!TypeOK, Queue!Assumption
  <2>2. Queue!Controlled({t}) \subseteq C
    BY DEF Queue!Controlled, Queue!Listed, Queue!TypeOK, Queue!Batch
  <2>3. timer' \in BOOLEAN /\ calls' \subseteq Queue!Call
    BY <1>1 DEF Queue!TypeOK, Queue!ScheduleCall, Queue!Call
  <2> QED
    BY <1>1, <1>2, <1>3, <2>1, <2>2, <2>3 DEF Queue!TypeOK
<1>5. Queue!WaitingInv'
  <2>1. \A c \in C : c \in Elems(queue') \/ at[c] \in {"new", "admitted"} => c \notin called
    BY <1>2, QueueIsSound
  <2> QED
    BY <1>1, <1>2, <1>3, <2>1, QueueIsSound, WaitersStay
<1>6. Queue!RevokedStaysOut'
  <2> SUFFICES ASSUME NEW c \in C, TokenOf[c] \notin active' \cup notices', verdict'[c] = "assigned",
                      c \notin told', NEW b \in C, c \in batch'[b].members, batch'[b].armed
               PROVE  batch'[b].game \in {"left", "over"}
    BY DEF Queue!RevokedStaysOut, Queue!BatchOf
  <2>1. /\ c \notin told /\ verdict[c] = "assigned" /\ TokenOf[c] \notin active
        /\ c \in batch[b].members /\ batch[b].armed
    BY <1>1, <1>3
  <2>2. CASE TokenOf[c] \notin notices
    BY <1>1, <2>1, <2>2 DEF Queue!RevokedStaysOut, Queue!BatchOf
  <2>3. CASE TokenOf[c] = t
    <3>1. ~batch[b].listed
      BY <1>1, <2>1, <2>3 DEF Queue!Controlled, Queue!Listed
    <3>2. batch[b] # Queue!NoBatch /\ batch[b] \in Queue!Batch
      BY <2>1, NoBatchIs DEF Queue!TypeOK
    <3>3. batch[b].game # "none" /\ batch[b].game \notin {"on", "left"}
      BY <1>1, <2>1, <3>1, <3>2 DEF Queue!BatchInv, Queue!EntryInv
    <3> QED
      BY <1>1, <3>2, <3>3 DEF Queue!Batch
  <2> QED
    BY <1>1, <2>1, <2>2, <2>3
<1> QED
  BY <1>1, <1>2, <1>4, <1>5, <1>6, BatchesStay

-----------------------------------------------------------------------------
(* The shutdown *)

LEMMA BeginShutdownKeeps ==
  ASSUME Queue!Assumption, Queue!QueueInv, Queue!BeginShutdown
  PROVE  Queue!QueueInv'
<1> USE DEF Queue!QueueInv
<1>1. /\ down = "up" /\ down' = "flagged"
      /\ UNCHANGED <<at, verdict, told, queue, batch, slots, timer, calls, active, notices>>
  BY DEF Queue!BeginShutdown, Queue!socketVars, Queue!tokenVars
<1>2. Queue!TypeOK'
  BY <1>1 DEF Queue!TypeOK
<1>3. Queue!WaitingInv'
  BY <1>1, QueueIsSound, WaitersStay
<1>4. Queue!RevokedStaysOut'
  BY <1>1, RevokedStay
<1>5. Queue!BatchInv'
  <2>1. ASSUME NEW b, NEW x, Queue!EntryInv(b, x, "up") PROVE Queue!EntryInv(b, x, "flagged")
    BY <2>1 DEF Queue!EntryInv
  <2> QED
    BY <1>1, <2>1 DEF Queue!BatchInv
<1>6. Queue!Capacity'
  BY <1>1 DEF Queue!Capacity, Queue!Live
<1>7. Queue!OneMatchPerToken' /\ Queue!ShutdownReachesEveryMatch'
  BY <1>1 DEF Queue!OneMatchPerToken, Queue!ShutdownReachesEveryMatch, Queue!Listed
<1> QED
  BY <1>2, <1>3, <1>4, <1>5, <1>6, <1>7

\* The shutdown releases every slot at once; the entries it empties are aborted.
LEMMA ShutdownKeeps ==
  ASSUME Queue!Assumption, Queue!QueueInv, Queue!Shutdown
  PROVE  Queue!QueueInv'
<1> USE DEF Queue!QueueInv
<1>1. /\ down = "flagged" /\ down' = "locked" /\ timer' = FALSE /\ queue' = << >> /\ slots' = 0
      /\ verdict' = Queue!Answered(Queue!Waiting, "server_shutdown")
      /\ told' = told \cup Queue!Controlled(Token)
      /\ UNCHANGED <<at, calls, active, notices>>
  BY DEF Queue!Shutdown, Queue!tokenVars
<1>2. /\ batch \in [C -> Queue!Batch]
      /\ batch' = [b \in C |->
           IF ~batch[b].listed THEN batch[b]
           ELSE [batch[b] EXCEPT !.listed = FALSE, !.released = TRUE,
                                 !.cancelled = batch[b].starter = "done"]]
  BY DEF Queue!Shutdown, Queue!TypeOK
<1>3. ASSUME NEW b \in C
      PROVE  /\ batch'[b] \in Queue!Batch
             /\ batch'[b].members = batch[b].members /\ batch'[b].starter = batch[b].starter
             /\ batch'[b].game = batch[b].game /\ batch'[b].armed = batch[b].armed
             /\ ~batch'[b].listed
             /\ ~batch[b].listed => batch'[b] = batch[b]
             /\ batch[b].listed =>
                  batch'[b].released /\ batch'[b].cancelled = (batch[b].starter = "done")
  BY <1>2 DEF Queue!Batch
<1>4. ASSUME NEW b \in C, batch[b].game = "on" \/ batch[b].starter = "opening"
      PROVE  batch[b].listed
  <2>1. batch[b] # Queue!NoBatch
    BY <1>4, NoBatchIs
  <2> QED
    BY <1>1, <1>2, <1>4, <2>1 DEF Queue!BatchInv, Queue!EntryInv, Queue!Batch
<1>5. /\ verdict' \in [C -> {"none", "assigned", "server_busy", "protocol_error",
                             "token_revoked", "server_shutdown"}]
      /\ \A c \in C : verdict'[c] = verdict[c]
           \/ (c \in Queue!Waiting /\ verdict'[c] = "server_shutdown")
  BY <1>1, AnswersAreTyped
<1>6. queue' \in Seq(C) /\ Len(queue') = 0 /\ Elems(queue') = {} /\ Distinct(queue')
  BY <1>1 DEF Elems, Distinct
<1>7. Queue!TypeOK'
  <2>1. Queue!Controlled(Token) \subseteq C
    BY DEF Queue!Controlled, Queue!Listed, Queue!TypeOK, Queue!Batch
  <2>2. batch' \in [C -> Queue!Batch]
    BY <1>2, <1>3
  <2>3. Len(queue') <= MaxQueue /\ slots' \in 0 .. MaxActive
    BY <1>1, <1>6 DEF Queue!Assumption
  <2> QED
    BY <1>1, <1>5, <1>6, <2>1, <2>2, <2>3 DEF Queue!TypeOK
<1>8. Queue!WaitingInv'
  <2>1. Queue!Waiting' = {}
    BY <1>6 DEF Elems, Queue!Waiting
  <2>2. ASSUME NEW c \in C, at[c] \in {"new", "admitted"}
        PROVE  verdict'[c] = "none" /\ \A b \in C : c \notin batch'[b].members
    <3>1. c \notin Queue!Waiting
      BY <2>2, QueueIsSound
    <3> QED
      BY <1>3, <1>5, <2>2, <3>1 DEF Queue!WaitingInv
  <2> QED
    BY <1>1, <2>1, <2>2 DEF Queue!WaitingInv
<1>9. Queue!RevokedStaysOut'
  BY <1>1, <1>3, <1>5, RevokedStay
<1>10. Queue!BatchInv'
  <2> SUFFICES ASSUME NEW b \in C, batch'[b] # Queue!NoBatch
               PROVE  Queue!EntryInv(b, batch'[b], "locked")
    BY <1>1 DEF Queue!BatchInv, Queue!EntryInv
  <2>1. batch[b] # Queue!NoBatch /\ Queue!EntryInv(b, batch[b], "flagged")
    BY <1>1, <1>3, NoBatchIs DEF Queue!BatchInv
  <2>2. batch[b].listed => batch[b].starter = "opening" \/ batch[b].game \in {"on", "left"}
    BY <2>1 DEF Queue!EntryInv
  <2>3. batch[b].starter = "drained" => batch[b].game = "none"
    BY <2>1 DEF Queue!EntryInv
  <2> QED
    BY <1>3, <1>4, <2>1, <2>2, <2>3 DEF Queue!EntryInv
<1>11. Queue!Capacity'
  <2>1. Queue!Live' = Queue!Live /\ \A b \in Queue!Live : batch'[b].released
    BY <1>3, <1>4 DEF Queue!Live
  <2>2. {b \in Queue!Live' : ~batch'[b].released} = {}
    BY <2>1
  <2> QED
    BY <1>1, <2>2, SameCounting, FS_EmptySet DEF Queue!Capacity
<1>12. Queue!OneMatchPerToken'
  <2>1. Queue!Listed' = {}
    BY <1>3 DEF Queue!Listed
  <2> QED
    BY <1>6, <2>1 DEF Queue!OneMatchPerToken, Distinct
<1>13. Queue!ShutdownReachesEveryMatch'
  BY <1>3, <1>4 DEF Queue!ShutdownReachesEveryMatch
<1> QED
  BY <1>7, <1>8, <1>9, <1>10, <1>11, <1>12, <1>13

-----------------------------------------------------------------------------
(* A batch is drained *)

LEMMA NewBatchIs ==
  ASSUME NEW M \in SUBSET C, NEW host \in C \cup {Queue!NoHost}
  PROVE  LET x == Queue!NewBatch(M, host)
         IN  /\ x \in Queue!Batch /\ x.members = M /\ x.starter = "drained" /\ x.game = "none"
             /\ ~x.listed /\ ~x.armed /\ ~x.released
BY DEF Queue!NewBatch, Queue!NoBatch, Queue!Batch, Queue!NoHost

\* One who has not joined the queue or waits in it is in no batch, nor is a batch
\* named after it.
LEMMA FreshIsUnused ==
  ASSUME Queue!QueueInv, NEW c \in C, at[c] \in {"new", "admitted"} \/ c \in Elems(queue)
  PROVE  verdict[c] = "none" /\ batch[c] = Queue!NoBatch /\ \A b \in C : c \notin batch[b].members
BY DEF Queue!QueueInv, Queue!WaitingInv, Queue!BatchInv, Queue!EntryInv, Queue!Waiting, Elems

LEMMA BatchIsDrained ==
  ASSUME Queue!Assumption, Queue!QueueInv,
         NEW b0 \in C, NEW M \in SUBSET C, NEW host \in C \cup {Queue!NoHost},
         batch[b0] = Queue!NoBatch, b0 \in M,
         batch' = [batch EXCEPT ![b0] = Queue!NewBatch(M, host)],
         UNCHANGED <<verdict, told, slots, active, notices, down>>,
         queue' \in Seq(C), Len(queue') <= MaxQueue, Distinct(queue'),
         Elems(queue') \cap M = {}, timer' \in BOOLEAN, calls' \subseteq Queue!Call,
         at' \in [C -> {"new", "admitted", "hosting", "reading", "playing", "closed"}],
         \A c \in C : at'[c] \in {"new", "admitted"} \/ c \in Elems(queue') =>
           /\ at[c] \in {"new", "admitted"} \/ c \in Elems(queue)
           /\ c \notin M,
         \A c \in Elems(queue') : at'[c] \in {"reading", "hosting"} /\ KindOf[c] = "Ranked"
  PROVE  Queue!QueueInv'
<1> DEFINE new == Queue!NewBatch(M, host)
<1>1. /\ new \in Queue!Batch /\ new.members = M /\ new.starter = "drained" /\ new.game = "none"
      /\ ~new.listed /\ ~new.armed /\ ~new.released
  BY NewBatchIs
<1>2. /\ batch \in [C -> Queue!Batch] /\ batch' \in [C -> Queue!Batch]
      /\ batch'[b0] = new /\ \A b \in C : b # b0 => batch'[b] = batch[b]
  BY <1>1 DEF Queue!QueueInv, Queue!TypeOK
<1> HIDE DEF new
<1>3. Queue!TypeOK'
  BY <1>2 DEF Queue!QueueInv, Queue!TypeOK
<1>4. Queue!WaitingInv'
  <2>1. \A c \in Elems(queue') : c \in C
    BY DEF Elems
  <2>2. Queue!Waiting' = Elems(queue')
    BY DEF Elems, Queue!Waiting
  <2>3. ASSUME NEW c \in C, at'[c] \in {"new", "admitted"} \/ c \in Elems(queue')
        PROVE  verdict'[c] = "none" /\ \A b \in C : c \notin batch'[b].members
    <3>1. c \notin M /\ verdict[c] = "none" /\ \A b \in C : c \notin batch[b].members
      BY <2>3, FreshIsUnused
    <3> QED
      BY <1>1, <1>2, <3>1
  <2> QED
    BY <2>1, <2>2, <2>3 DEF Queue!WaitingInv
<1>5. Queue!BatchInv'
  <2>1. Queue!EntryInv(b0, new, down)
    BY <1>1 DEF Queue!EntryInv
  <2> QED
    BY <1>2, <2>1 DEF Queue!QueueInv, Queue!BatchInv
<1>6. Queue!Capacity'
  <2>1. Queue!Live' = Queue!Live /\ b0 \notin Queue!Live
    BY <1>1, <1>2, NoBatchIs DEF Queue!Live
  <2>2. {b \in Queue!Live' : ~batch'[b].released} = {b \in Queue!Live : ~batch[b].released}
    BY <1>2, <2>1 DEF Queue!Live
  <2> QED
    BY <2>1, <2>2 DEF Queue!QueueInv, Queue!Capacity
<1>7. Queue!OneMatchPerToken'
  <2>1. Queue!Listed' = Queue!Listed /\ b0 \notin Queue!Listed
    BY <1>1, <1>2, NoBatchIs DEF Queue!Listed
  <2>2. \A b \in Queue!Listed : batch'[b] = batch[b]
    BY <1>2, <2>1 DEF Queue!Listed
  <2> QED
    BY <2>1, <2>2 DEF Queue!QueueInv, Queue!OneMatchPerToken, Distinct
<1>8. Queue!RevokedStaysOut'
  BY <1>1, <1>2, RevokedStay DEF Queue!QueueInv
<1>9. Queue!ShutdownReachesEveryMatch'
  BY <1>1, <1>2 DEF Queue!QueueInv, Queue!ShutdownReachesEveryMatch
<1> QED
  BY <1>3, <1>4, <1>5, <1>6, <1>7, <1>8, <1>9 DEF Queue!QueueInv

\* Whoever is admitted is not in the queue.
LEMMA AdmittedIsOutside ==
  ASSUME Queue!QueueInv, NEW c \in C, at[c] = "admitted"
  PROVE  c \notin Elems(queue)
BY QueueIsSound

LEMMA EnqueueRankedKeeps ==
  ASSUME Queue!Assumption, Queue!QueueInv, NEW c \in C, Queue!EnqueueRanked(c)
  PROVE  Queue!QueueInv'
<1> DEFINE q == Append(queue, c)
<1>1. at[c] = "admitted" /\ KindOf[c] = "Ranked" /\ c \notin Elems(queue)
  BY AdmittedIsOutside DEF Queue!EnqueueRanked
<1>2. CASE down # "up" \/ Queue!InUse(TokenOf[c]) \/ Len(queue) >= MaxQueue
  BY <1>1, <1>2, ClosedElsewhere DEF Queue!EnqueueRanked, Queue!Refuse, Queue!tokenVars
<1>3. CASE ~(down # "up" \/ Queue!InUse(TokenOf[c]) \/ Len(queue) >= MaxQueue)
  <2>1. /\ q \in Seq(C) /\ q # << >> /\ Elems(q) = Elems(queue) \cup {c} /\ Len(q) = Len(queue) + 1
        /\ Distinct(q)
    <3>1. \A d \in Elems(queue) : TokenOf[d] # TokenOf[c]
      BY <1>3, QueueIsSound DEF Queue!InUse, Queue!Tokens
    <3> QED
      BY <3>1, QueueIsSound, Appended
  <2>2. Len(q) \in Nat /\ Len(q) <= MaxQueue /\ MaxQueue \in Nat
    BY <1>3, <2>1, QueueIsSound DEF Queue!Assumption
  <2> HIDE DEF q
  <2>3. CASE Len(q) >= BatchSize /\ ~Queue!Full
    <3>1. /\ timer' = FALSE /\ queue' = Queue!Undrained(q)
          /\ batch' = [batch EXCEPT ![q[1]] = Queue!NewBatch(Queue!Drained(q), c)]
          /\ at' = [at EXCEPT ![c] = "hosting"]
          /\ UNCHANGED <<verdict, told, slots, calls, active, notices, down>>
      BY <1>3, <2>3 DEF Queue!EnqueueRanked, Queue!tokenVars, q
    <3>2. /\ Queue!Undrained(q) \in Seq(C) /\ Len(Queue!Undrained(q)) <= Len(q)
          /\ Distinct(Queue!Undrained(q))
          /\ Queue!Drained(q) \subseteq Elems(q) /\ Elems(q) \subseteq C /\ q[1] \in Queue!Drained(q)
          /\ Elems(Queue!Undrained(q)) \subseteq Elems(q) \ Queue!Drained(q)
      BY <2>1, DrainSplits
    <3>3. q[1] \in C /\ batch[q[1]] = Queue!NoBatch
      BY <1>1, <2>1, <3>2, FreshIsUnused
    <3>4. /\ at' \in [C -> {"new", "admitted", "hosting", "reading", "playing", "closed"}]
          /\ at'[c] = "hosting" /\ \A d \in C : d # c => at'[d] = at[d]
      BY <3>1 DEF Queue!QueueInv, Queue!TypeOK
    <3>5. Len(queue') <= MaxQueue
      BY <2>2, <3>1, <3>2, LenProperties
    <3>6. ASSUME NEW d \in C, at'[d] \in {"new", "admitted"} \/ d \in Elems(queue')
          PROVE  /\ at[d] \in {"new", "admitted"} \/ d \in Elems(queue)
                 /\ d \notin Queue!Drained(q)
      <4>1. CASE d \in Elems(queue')
        BY <1>1, <2>1, <3>1, <3>2, <4>1
      <4>2. CASE at'[d] \in {"new", "admitted"}
        BY <2>1, <3>2, <3>4, <4>2, QueueIsSound
      <4> QED
        BY <3>6, <4>1, <4>2
    <3>7. ASSUME NEW d \in Elems(queue') PROVE at'[d] \in {"reading", "hosting"} /\ KindOf[d] = "Ranked"
      BY <1>1, <2>1, <3>1, <3>2, <3>4, QueueIsSound
    <3>8. Elems(queue') \cap Queue!Drained(q) = {} /\ timer' \in BOOLEAN /\ calls' \subseteq Queue!Call
      BY <3>1, <3>2 DEF Queue!QueueInv, Queue!TypeOK
    <3>9. c \in C \cup {Queue!NoHost} /\ Queue!Drained(q) \in SUBSET C
      BY <3>2
    <3> QED
      BY <3>1, <3>2, <3>3, <3>4, <3>5, <3>6, <3>7, <3>8, <3>9, BatchIsDrained
  <2>4. CASE ~(Len(q) >= BatchSize /\ ~Queue!Full)
    <3>1. /\ timer' = (timer \/ Queue!TimerWanted(q, slots)) /\ queue' = q
          /\ at' = [at EXCEPT ![c] = "reading"]
          /\ UNCHANGED <<verdict, told, batch, slots, calls, active, notices, down>>
      BY <1>3, <2>4 DEF Queue!EnqueueRanked, Queue!tokenVars, q
    <3>2. /\ at' \in [C -> {"new", "admitted", "hosting", "reading", "playing", "closed"}]
          /\ at'[c] = "reading" /\ \A d \in C : d # c => at'[d] = at[d]
      BY <3>1 DEF Queue!QueueInv, Queue!TypeOK
    <3>3. timer' \in BOOLEAN
      BY <3>1 DEF Queue!QueueInv, Queue!TypeOK
    <3>4. Queue!TypeOK'
      BY <2>1, <2>2, <3>1, <3>2, <3>3 DEF Queue!QueueInv, Queue!TypeOK
    <3>5. Queue!WaitingInv'
      <4>1. Queue!Waiting' = Elems(queue) \cup {c}
        BY <2>1, <3>1 DEF Elems, Queue!Waiting
      <4>2. \A d \in Elems(queue) \cup {c} : at'[d] \in {"reading", "hosting"} /\ KindOf[d] = "Ranked"
        BY <1>1, <3>2, QueueIsSound
      <4>3. ASSUME NEW d \in C, at'[d] \in {"new", "admitted"} \/ d \in Elems(queue) \cup {c}
            PROVE  verdict'[d] = "none" /\ \A b \in C : d \notin batch'[b].members
        <5>1. at[d] \in {"new", "admitted"} \/ d \in Elems(queue)
          BY <1>1, <3>2, <4>3
        <5> QED
          BY <3>1, <5>1, FreshIsUnused
      <4> QED
        BY <4>1, <4>2, <4>3 DEF Queue!WaitingInv
    <3>6. Queue!RevokedStaysOut'
      BY <3>1, RevokedStay DEF Queue!QueueInv
    <3>7. /\ Queue!BatchInv' /\ Queue!Capacity' /\ Queue!OneMatchPerToken'
          /\ Queue!ShutdownReachesEveryMatch'
      BY <2>1, <3>1, BatchesStay DEF Queue!QueueInv
    <3> QED
      BY <3>4, <3>5, <3>6, <3>7 DEF Queue!QueueInv
  <2> QED
    BY <2>3, <2>4
<1> QED
  BY <1>2, <1>3

LEMMA EnqueueValidateKeeps ==
  ASSUME Queue!Assumption, Queue!QueueInv, NEW c \in C, Queue!EnqueueValidate(c)
  PROVE  Queue!QueueInv'
<1>1. at[c] = "admitted" /\ c \notin Elems(queue)
  BY AdmittedIsOutside DEF Queue!EnqueueValidate
<1>2. CASE down # "up" \/ Queue!Full \/ Queue!InUse(TokenOf[c])
  BY <1>1, <1>2, ClosedElsewhere DEF Queue!EnqueueValidate, Queue!Refuse, Queue!tokenVars
<1>3. CASE ~(down # "up" \/ Queue!Full \/ Queue!InUse(TokenOf[c]))
  <2>1. /\ batch' = [batch EXCEPT ![c] = Queue!NewBatch({c}, c)]
        /\ at' = [at EXCEPT ![c] = "hosting"]
        /\ UNCHANGED <<verdict, told, queue, slots, timer, calls, active, notices, down>>
    BY <1>3 DEF Queue!EnqueueValidate, Queue!tokenVars
  <2>2. batch[c] = Queue!NoBatch /\ c \in {c} /\ {c} \in SUBSET C /\ c \in C \cup {Queue!NoHost}
    BY <1>1, FreshIsUnused
  <2>3. /\ at' \in [C -> {"new", "admitted", "hosting", "reading", "playing", "closed"}]
        /\ at'[c] = "hosting" /\ \A d \in C : d # c => at'[d] = at[d]
    BY <2>1 DEF Queue!QueueInv, Queue!TypeOK
  <2>4. /\ queue' \in Seq(C) /\ Len(queue') <= MaxQueue /\ Distinct(queue')
        /\ timer' \in BOOLEAN /\ calls' \subseteq Queue!Call
    BY <2>1, QueueIsSound DEF Queue!QueueInv, Queue!TypeOK
  <2>5. Elems(queue') \cap {c} = {}
    BY <1>1, <2>1
  <2>6. \A d \in C : at'[d] \in {"new", "admitted"} \/ d \in Elems(queue') =>
           (at[d] \in {"new", "admitted"} \/ d \in Elems(queue)) /\ d \notin {c}
    BY <1>1, <2>1, <2>3
  <2>7. \A d \in Elems(queue') : at'[d] \in {"reading", "hosting"} /\ KindOf[d] = "Ranked"
    BY <1>1, <2>1, <2>3, QueueIsSound
  <2> QED
    BY <2>1, <2>2, <2>3, <2>4, <2>5, <2>6, <2>7, BatchIsDrained
<1> QED
  BY <1>2, <1>3

LEMMA FillKeeps ==
  ASSUME Queue!Assumption, Queue!QueueInv, Queue!Fill
  PROVE  Queue!QueueInv'
<1>1. timer' = FALSE /\ UNCHANGED <<at, verdict, told, slots, calls, active, notices, down>>
  BY DEF Queue!Fill, Queue!socketVars, Queue!tokenVars
<1>2. CASE queue = << >> \/ down # "up" \/ Queue!Full
  <2>1. UNCHANGED <<queue, batch>>
    BY <1>2 DEF Queue!Fill
  <2>2. Queue!TypeOK'
    BY <1>1, <2>1 DEF Queue!QueueInv, Queue!TypeOK
  <2> QED
    BY <1>1, <2>1, <2>2, TimerCallKeeps
<1>3. CASE ~(queue = << >> \/ down # "up" \/ Queue!Full)
  <2>1. /\ queue' = Queue!Undrained(queue) /\ queue # << >>
        /\ batch' = [batch EXCEPT ![queue[1]] = Queue!NewBatch(Queue!Drained(queue), Queue!NoHost)]
    BY <1>3 DEF Queue!Fill
  <2>2. /\ queue' \in Seq(C) /\ Len(queue') <= Len(queue) /\ Distinct(queue')
        /\ Queue!Drained(queue) \subseteq Elems(queue) /\ Elems(queue) \subseteq C
        /\ queue[1] \in Queue!Drained(queue)
        /\ Elems(queue') \subseteq Elems(queue) \ Queue!Drained(queue)
    BY <2>1, QueueIsSound, DrainSplits
  <2>3. queue[1] \in C /\ batch[queue[1]] = Queue!NoBatch
    BY <2>2, FreshIsUnused
  <2>4. Len(queue') <= MaxQueue
    BY <2>2, QueueIsSound, LenProperties DEF Queue!QueueInv, Queue!TypeOK, Queue!Assumption
  <2>5. /\ at' \in [C -> {"new", "admitted", "hosting", "reading", "playing", "closed"}]
        /\ timer' \in BOOLEAN /\ calls' \subseteq Queue!Call
    BY <1>1 DEF Queue!QueueInv, Queue!TypeOK
  <2>6. \A d \in C : at'[d] \in {"new", "admitted"} \/ d \in Elems(queue') =>
           /\ at[d] \in {"new", "admitted"} \/ d \in Elems(queue)
           /\ d \notin Queue!Drained(queue)
    BY <1>1, <2>2, QueueIsSound
  <2>7. \A d \in Elems(queue') : at'[d] \in {"reading", "hosting"} /\ KindOf[d] = "Ranked"
    BY <1>1, <2>2, QueueIsSound
  <2>8. /\ Elems(queue') \cap Queue!Drained(queue) = {} /\ Queue!Drained(queue) \in SUBSET C
        /\ Queue!NoHost \in C \cup {Queue!NoHost}
    BY <2>2
  <2> QED
    BY <1>1, <2>1, <2>2, <2>3, <2>4, <2>5, <2>6, <2>7, <2>8, BatchIsDrained
<1> QED
  BY <1>2, <1>3

-----------------------------------------------------------------------------
(* A batch starts, plays and ends *)

LEMMA BatchIsTyped ==
  ASSUME Queue!QueueInv, NEW b \in C
  PROVE  batch[b] \in Queue!Batch /\ Queue!EntryInv(b, batch[b], down)
BY DEF Queue!QueueInv, Queue!TypeOK, Queue!BatchInv

\* The batch b becomes x; the queue and the other batches stay.
LEMMA OneBatchMoves ==
  ASSUME Queue!Assumption, Queue!QueueInv, NEW b \in C, NEW x \in Queue!Batch,
         batch' = [batch EXCEPT ![b] = x], batch[b] # Queue!NoBatch,
         UNCHANGED <<told, queue, timer, active, notices, down>>,
         calls' \subseteq Queue!Call, slots' \in 0 .. MaxActive,
         at' \in [C -> {"new", "admitted", "hosting", "reading", "playing", "closed"}],
         \A c \in C : at'[c] = at[c] \/ at'[c] = "reading",
         verdict' \in [C -> {"none", "assigned", "server_busy", "protocol_error",
                            "token_revoked", "server_shutdown"}],
         \A c \in C : verdict'[c] = verdict[c] \/ c \in batch[b].members,
         x.members \subseteq batch[b].members, Queue!EntryInv(b, x, down),
         x.listed => \A d \in Queue!Listed : d # b =>
           Queue!Tokens(batch[b].members) \cap Queue!Tokens(batch[d].members) = {},
         down = "locked" /\ x.game = "on" /\ x.starter = "done" => x.cancelled,
         Queue!Capacity', Queue!RevokedStaysOut'
  PROVE  Queue!QueueInv'
<1>1. /\ batch \in [C -> Queue!Batch] /\ batch' \in [C -> Queue!Batch]
      /\ batch'[b] = x /\ \A d \in C : d # b => batch'[d] = batch[d]
  BY DEF Queue!QueueInv, Queue!TypeOK
<1>2. Queue!TypeOK'
  BY <1>1 DEF Queue!QueueInv, Queue!TypeOK
<1>3. Queue!WaitingInv'
  <2>1. b \in batch[b].members
    BY BatchIsTyped DEF Queue!EntryInv
  <2>2. ASSUME NEW c \in C, at'[c] \in {"new", "admitted"} \/ c \in Elems(queue)
        PROVE  verdict'[c] = "none" /\ \A d \in C : c \notin batch'[d].members
    <3>1. verdict[c] = "none" /\ \A d \in C : c \notin batch[d].members
      BY <2>2, FreshIsUnused
    <3> QED
      BY <1>1, <3>1
  <2>3. Queue!Waiting' = Elems(queue)
    BY DEF Elems, Queue!Waiting
  <2> QED
    BY <2>2, <2>3, QueueIsSound DEF Queue!WaitingInv
<1>4. Queue!BatchInv'
  BY <1>1 DEF Queue!QueueInv, Queue!BatchInv
<1>5. Queue!OneMatchPerToken'
  <2> SUFFICES ASSUME NEW d \in Queue!Listed', NEW e \in Queue!Listed', d # e
               PROVE  Queue!Tokens(batch'[d].members) \cap Queue!Tokens(batch'[e].members) = {}
    BY QueueIsSound DEF Queue!OneMatchPerToken, Distinct
  <2>1. Queue!Tokens(x.members) \subseteq Queue!Tokens(batch[b].members)
    BY DEF Queue!Tokens
  <2>2. \A a \in Queue!Listed' : a \in C /\ (a # b => a \in Queue!Listed /\ batch'[a] = batch[a])
    BY <1>1 DEF Queue!Listed
  <2>3. b \in Queue!Listed' => x.listed
    BY <1>1 DEF Queue!Listed
  <2>4. CASE d # b /\ e # b
    BY <2>2, <2>4 DEF Queue!QueueInv, Queue!OneMatchPerToken
  <2>5. CASE d = b
    BY <1>1, <2>1, <2>2, <2>3, <2>5
  <2>6. CASE e = b
    BY <1>1, <2>1, <2>2, <2>3, <2>6
  <2> QED
    BY <2>4, <2>5, <2>6
<1>6. Queue!ShutdownReachesEveryMatch'
  BY <1>1 DEF Queue!QueueInv, Queue!ShutdownReachesEveryMatch
<1> QED
  BY <1>2, <1>3, <1>4, <1>5, <1>6 DEF Queue!QueueInv

\* The slots that are held, before and after a batch moves that holds none.
LEMMA NoSlotMoves ==
  ASSUME Queue!QueueInv, NEW b \in C, NEW x,
         batch' = [batch EXCEPT ![b] = x], UNCHANGED <<slots, down>>,
         x.released = batch[b].released,
         (x.game = "on" \/ x.starter = "opening")
           <=> (batch[b].game = "on" \/ batch[b].starter = "opening")
  PROVE  Queue!Capacity'
<1>1. batch'[b] = x /\ \A d \in C : d # b => batch'[d] = batch[d]
  BY DEF Queue!QueueInv, Queue!TypeOK
<1>2. Queue!Live' = Queue!Live
  BY <1>1 DEF Queue!Live
<1>3. {d \in Queue!Live' : ~batch'[d].released} = {d \in Queue!Live : ~batch[d].released}
  BY <1>1, <1>2 DEF Queue!Live
<1> QED
  BY <1>2, <1>3 DEF Queue!QueueInv, Queue!Capacity

\* The batches that hold a slot, as a set to count.
LEMMA HoldersCounted ==
  ASSUME Queue!Assumption, Queue!QueueInv
  PROVE  LET holders == {b \in Queue!Live : ~batch[b].released}
         IN  /\ IsFiniteSet(holders) /\ slots = Cardinality(holders) /\ slots \in Nat
             /\ down = "locked" => holders = {}
             /\ down # "locked" => holders = Queue!Live
<1> DEFINE holders == {b \in Queue!Live : ~batch[b].released}
<1>1. holders \in SUBSET C
  BY DEF Queue!Live
<1>2. IsFiniteSet(C)
  BY SameCounting DEF Queue!Assumption
<1>3. IsFiniteSet(holders)
  BY <1>1, <1>2, FS_Subset
<1>4. slots = Cardinality(holders)
  BY SameCounting DEF Queue!QueueInv, Queue!Capacity
<1>5. \A b \in Queue!Live : batch[b].released <=> down = "locked"
  <2> SUFFICES ASSUME NEW b \in Queue!Live PROVE batch[b].released <=> down = "locked"
    OBVIOUS
  <2>1. b \in C /\ (batch[b].game = "on" \/ batch[b].starter = "opening") /\ batch[b] # Queue!NoBatch
    BY NoBatchIs DEF Queue!Live
  <2> QED
    BY <2>1, BatchIsTyped DEF Queue!EntryInv
<1> QED
  BY <1>3, <1>4, <1>5, FS_CardinalityType

\* A batch that holds a slot, or would but for the shutdown, lets go of it.
LEMMA SlotIsReleased ==
  ASSUME Queue!Assumption, Queue!QueueInv, NEW b \in C, NEW x,
         batch[b].game = "on" \/ batch[b].starter = "opening",
         ~(x.game = "on" \/ x.starter = "opening"),
         batch' = [batch EXCEPT ![b] = x], slots' = Queue!Released(b), UNCHANGED down
  PROVE  slots' \in 0 .. MaxActive /\ Queue!Capacity'
<1> DEFINE holders == {d \in Queue!Live : ~batch[d].released}
<1>1. batch'[b] = x /\ \A d \in C : d # b => batch'[d] = batch[d]
  BY DEF Queue!QueueInv, Queue!TypeOK
<1>2. /\ IsFiniteSet(holders) /\ slots = Cardinality(holders) /\ slots \in Nat
      /\ down = "locked" => holders = {}
      /\ down # "locked" => holders = Queue!Live
  BY HoldersCounted
<1>3. b \in Queue!Live /\ Queue!Live' = Queue!Live \ {b}
  BY <1>1 DEF Queue!Live
<1>4. {d \in Queue!Live' : ~batch'[d].released} = holders \ {b}
  BY <1>1, <1>3 DEF Queue!Live
<1>5. slots' = Cardinality(holders \ {b}) /\ slots' <= slots /\ slots' \in Nat
  <2>1. /\ Cardinality(holders \ {b}) = IF b \in holders THEN slots - 1 ELSE slots
        /\ Cardinality(holders \ {b}) \in Nat
    BY <1>2, FS_RemoveElement, FS_CardinalityType
  <2>2. CASE b \in holders
    <3>1. ~batch[b].released /\ slots # 0
      BY <1>2, <2>1, <2>2
    <3> QED
      BY <1>2, <2>1, <2>2, <3>1 DEF Queue!Released
  <2>3. CASE b \notin holders
    <3>1. batch[b].released
      BY <1>3, <2>3
    <3> QED
      BY <1>2, <2>1, <2>3, <3>1 DEF Queue!Released
  <2> QED
    BY <2>2, <2>3
<1>6. slots' \in 0 .. MaxActive
  BY <1>2, <1>5 DEF Queue!QueueInv, Queue!TypeOK, Queue!Assumption
<1>7. down # "locked" => Cardinality(Queue!Live') = slots'
  BY <1>2, <1>3, <1>5
<1>8. slots' = Queue!Cardinality({d \in Queue!Live' : ~batch'[d].released})
  BY <1>4, <1>5, SameCounting
<1>9. down' # "locked" => Queue!Cardinality(Queue!Live') <= MaxActive
  BY <1>6, <1>7, SameCounting
<1> QED
  BY <1>6, <1>8, <1>9 DEF Queue!Capacity

\* The start of a batch is over for its host, who goes on or goes back.
LEMMA StarterComesBack ==
  ASSUME Queue!QueueInv, NEW b \in C, Queue!StarterReturns(b)
  PROVE  /\ calls' \subseteq Queue!Call
         /\ at' \in [C -> {"new", "admitted", "hosting", "reading", "playing", "closed"}]
         /\ \A c \in C : at'[c] = at[c] \/ at'[c] = "reading"
<1>1. CASE Queue!Ranked(batch[b].host)
  <2>1. [host |-> batch[b].host, op |-> "starter"] \in Queue!Call
    BY BatchIsTyped DEF Queue!Batch, Queue!Call
  <2> QED
    BY <1>1, <2>1 DEF Queue!StarterReturns, Queue!QueueInv, Queue!TypeOK
<1>2. CASE ~Queue!Ranked(batch[b].host)
  BY <1>2, HostComesBack DEF Queue!StarterReturns, Queue!QueueInv, Queue!TypeOK
<1> QED
  BY <1>1, <1>2

LEMMA RegisterKeeps ==
  ASSUME Queue!Assumption, Queue!QueueInv, NEW b \in C, Queue!Register(b)
  PROVE  Queue!QueueInv'
<1> DEFINE refused == \/ down # "up" \/ Queue!Full
                      \/ Queue!Tokens(batch[b].members) \cap Queue!TokensListed # {}
<1>1. /\ batch[b].starter = "drained" /\ UNCHANGED <<told, queue, timer, active, notices, down>>
      /\ batch[b] # Queue!NoBatch /\ batch[b].game = "none" /\ ~batch[b].released /\ ~batch[b].armed
  BY BatchIsTyped, NoBatchIs DEF Queue!Register, Queue!tokenVars, Queue!EntryInv
<1>2. CASE refused
  <2>1. /\ verdict' = Queue!Answered(batch[b].members, "server_busy")
        /\ batch' = [batch EXCEPT ![b] = Queue!NoBatch] /\ slots' = slots
        /\ Queue!StarterReturns(b)
    BY <1>2 DEF Queue!Register
  <2>2. /\ verdict' \in [C -> {"none", "assigned", "server_busy", "protocol_error",
                               "token_revoked", "server_shutdown"}]
        /\ \A c \in C : verdict'[c] = verdict[c]
             \/ (c \in batch[b].members /\ verdict'[c] = "server_busy")
    BY <2>1, AnswersAreTyped DEF Queue!QueueInv
  <2>3. batch'[b] = Queue!NoBatch /\ \A d \in C : d # b => batch'[d] = batch[d]
    BY <2>1 DEF Queue!QueueInv, Queue!TypeOK
  <2>4. {d \in C : batch'[d].game = "on" \/ batch'[d].starter = "opening"} = Queue!Live
    BY <1>1, <2>3, NoBatchIs DEF Queue!Live
  <2>5. \A d \in Queue!Live : batch'[d] = batch[d]
    BY <1>1, <2>3 DEF Queue!Live
  <2>6. Queue!Capacity'
    <3>1. Queue!Live' = Queue!Live
      BY <2>4 DEF Queue!Live
    <3>2. {d \in Queue!Live' : ~batch'[d].released} = {d \in Queue!Live : ~batch[d].released}
      BY <2>5, <3>1
    <3> QED
      BY <1>1, <2>1, <3>1, <3>2 DEF Queue!QueueInv, Queue!Capacity
  <2>7. Queue!RevokedStaysOut'
    BY <1>1, <2>2, <2>3, NoBatchIs, RevokedStay DEF Queue!QueueInv
  <2>8. Queue!EntryInv(b, Queue!NoBatch, down) /\ slots' \in 0 .. MaxActive
    BY <2>1 DEF Queue!EntryInv, Queue!QueueInv, Queue!TypeOK
  <2> QED
    BY <1>1, <2>1, <2>2, <2>6, <2>7, <2>8, NoBatchIs, StarterComesBack, OneBatchMoves
<1>3. CASE ~refused
  <2> DEFINE x == [batch[b] EXCEPT !.starter = "opening", !.listed = TRUE]
  <2>1. /\ slots' = slots + 1 /\ UNCHANGED <<at, verdict, calls>>
        /\ batch' = [batch EXCEPT ![b] = x] /\ down = "up" /\ ~(slots >= MaxActive)
        /\ Queue!Tokens(batch[b].members) \cap Queue!TokensListed = {}
    BY <1>3 DEF Queue!Register, Queue!Full
  <2>2. /\ x \in Queue!Batch /\ x.starter = "opening" /\ x.listed /\ x.members = batch[b].members
        /\ x.game = "none" /\ ~x.released /\ ~x.armed
    BY <1>1, BatchIsTyped DEF Queue!Batch
  <2> HIDE DEF x
  <2>3. batch'[b] = x /\ \A d \in C : d # b => batch'[d] = batch[d]
    BY <2>1 DEF Queue!QueueInv, Queue!TypeOK
  <2>4. Queue!Capacity' /\ slots' \in 0 .. MaxActive
    <3> DEFINE holders == {d \in Queue!Live : ~batch[d].released}
    <3>1. IsFiniteSet(holders) /\ slots = Cardinality(holders) /\ slots \in Nat /\ holders = Queue!Live
      BY <2>1, HoldersCounted
    <3>2. b \notin holders
      BY <1>1 DEF Queue!Live
    <3>3. Queue!Live' = Queue!Live \cup {b}
      BY <2>2, <2>3 DEF Queue!Live
    <3>4. {d \in Queue!Live' : ~batch'[d].released} = holders \cup {b}
      BY <2>2, <2>3, <3>2, <3>3 DEF Queue!Live
    <3> HIDE DEF holders
    <3>5. Cardinality(holders \cup {b}) = slots + 1
      BY <3>1, <3>2, FS_AddElement
    <3>6. slots + 1 <= MaxActive /\ slots' \in 0 .. MaxActive
      BY <2>1, <3>1 DEF Queue!Assumption
    <3>7. slots' = Queue!Cardinality({d \in Queue!Live' : ~batch'[d].released})
      BY <2>1, <3>4, <3>5, SameCounting
    <3>8. Queue!Cardinality(Queue!Live') <= MaxActive
      BY <3>1, <3>3, <3>5, <3>6, SameCounting
    <3> QED
      BY <3>6, <3>7, <3>8 DEF Queue!Capacity
  <2>5. Queue!RevokedStaysOut'
    BY <1>1, <2>1, <2>2, <2>3, RevokedStay DEF Queue!QueueInv
  <2>6. Queue!EntryInv(b, x, down)
    BY <1>1, <2>1, <2>2, BatchIsTyped DEF Queue!EntryInv
  <2>7. \A d \in Queue!Listed : Queue!Tokens(batch[d].members) \subseteq Queue!TokensListed
    BY DEF Queue!TokensListed
  <2>8. \A d \in Queue!Listed : d # b =>
           Queue!Tokens(batch[b].members) \cap Queue!Tokens(batch[d].members) = {}
    BY <2>1, <2>7
  <2>9. /\ at' \in [C -> {"new", "admitted", "hosting", "reading", "playing", "closed"}]
        /\ verdict' \in [C -> {"none", "assigned", "server_busy", "protocol_error",
                               "token_revoked", "server_shutdown"}]
        /\ calls' \subseteq Queue!Call
    BY <2>1 DEF Queue!QueueInv, Queue!TypeOK
  <2> QED
    BY <1>1, <2>1, <2>2, <2>4, <2>5, <2>6, <2>8, <2>9, OneBatchMoves
<1> QED
  BY <1>2, <1>3

LEMMA GiveUpKeeps ==
  ASSUME Queue!Assumption, Queue!QueueInv, NEW b \in C, batch[b].starter = "opening",
         NEW v \in {"protocol_error", "token_revoked"}, Queue!GiveUp(b, v)
  PROVE  Queue!QueueInv'
<1>1. /\ verdict' = Queue!Answered(batch[b].members, v) /\ slots' = Queue!Released(b)
      /\ batch' = [batch EXCEPT ![b] = Queue!NoBatch]
      /\ calls' = calls \cup {[host |-> batch[b].host, op |-> "failed"]}
      /\ UNCHANGED <<at, told, queue, timer, active, notices, down>>
  BY DEF Queue!GiveUp, Queue!tokenVars
<1>2. /\ verdict' \in [C -> {"none", "assigned", "server_busy", "protocol_error",
                             "token_revoked", "server_shutdown"}]
      /\ \A c \in C : verdict'[c] = verdict[c] \/ (c \in batch[b].members /\ verdict'[c] = v)
  BY <1>1, AnswersAreTyped DEF Queue!QueueInv
<1>3. batch'[b] = Queue!NoBatch /\ \A d \in C : d # b => batch'[d] = batch[d]
  BY <1>1 DEF Queue!QueueInv, Queue!TypeOK
<1>4. slots' \in 0 .. MaxActive /\ Queue!Capacity'
  BY <1>1, NoBatchIs, SlotIsReleased
<1>5. Queue!RevokedStaysOut'
  BY <1>1, <1>2, <1>3, NoBatchIs, RevokedStay DEF Queue!QueueInv
<1>6. Queue!EntryInv(b, Queue!NoBatch, down) /\ batch[b] # Queue!NoBatch
  BY NoBatchIs DEF Queue!EntryInv
<1>7. /\ at' \in [C -> {"new", "admitted", "hosting", "reading", "playing", "closed"}]
      /\ calls' \subseteq Queue!Call
  <2>1. [host |-> batch[b].host, op |-> "failed"] \in Queue!Call
    BY BatchIsTyped DEF Queue!Batch, Queue!Call
  <2> QED
    BY <1>1, <2>1 DEF Queue!QueueInv, Queue!TypeOK
<1> QED
  BY <1>1, <1>2, <1>4, <1>5, <1>6, <1>7, NoBatchIs, OneBatchMoves

\* A listed batch shares no token with another one.
LEMMA ListedIsDisjoint ==
  ASSUME Queue!QueueInv, NEW b \in Queue!Listed
  PROVE  \A d \in Queue!Listed : d # b =>
           Queue!Tokens(batch[b].members) \cap Queue!Tokens(batch[d].members) = {}
BY DEF Queue!QueueInv, Queue!OneMatchPerToken

LEMMA CheckKeeps ==
  ASSUME Queue!Assumption, Queue!QueueInv, NEW b \in C, Queue!Check(b)
  PROVE  Queue!QueueInv'
<1> DEFINE good == Queue!Tokens(batch[b].members) \subseteq active
<1>1. batch[b].starter = "opening" /\ batch[b] # Queue!NoBatch /\ batch[b].game = "none"
  BY BatchIsTyped, NoBatchIs DEF Queue!Check, Queue!EntryInv
<1>2. CASE ~good
  BY <1>1, <1>2, GiveUpKeeps DEF Queue!Check
<1>3. CASE good
  <2> DEFINE x == [batch[b] EXCEPT !.starter = "spawned", !.game = "on", !.armed = batch[b].listed]
  <2>1. /\ verdict' = Queue!Answered(batch[b].members, "assigned")
        /\ batch' = [batch EXCEPT ![b] = x]
        /\ UNCHANGED <<at, told, queue, slots, timer, calls, active, notices, down>>
    BY <1>3 DEF Queue!Check, Queue!tokenVars
  <2>2. /\ x \in Queue!Batch /\ x.starter = "spawned" /\ x.game = "on" /\ x.armed = batch[b].listed
        /\ x.listed = batch[b].listed /\ x.members = batch[b].members
        /\ x.released = batch[b].released
    <3>1. batch[b] \in Queue!Batch
      BY BatchIsTyped
    <3> QED
      BY <3>1 DEF Queue!Batch
  <2> HIDE DEF x
  <2>3. batch'[b] = x /\ \A d \in C : d # b => batch'[d] = batch[d]
    BY <2>1 DEF Queue!QueueInv, Queue!TypeOK
  <2>4. /\ verdict' \in [C -> {"none", "assigned", "server_busy", "protocol_error",
                               "token_revoked", "server_shutdown"}]
        /\ \A c \in C : verdict'[c] = verdict[c]
             \/ (c \in batch[b].members /\ verdict'[c] = "assigned")
    BY <2>1, AnswersAreTyped DEF Queue!QueueInv
  <2>5. Queue!Capacity'
    BY <1>1, <2>1, <2>2, NoSlotMoves
  <2>6. Queue!RevokedStaysOut'
    <3> SUFFICES ASSUME NEW c \in C, TokenOf[c] \notin active \cup notices, verdict'[c] = "assigned",
                        c \notin told, NEW d \in C, c \in batch'[d].members, batch'[d].armed
                 PROVE  batch'[d].game \in {"left", "over"}
      BY <2>1 DEF Queue!RevokedStaysOut, Queue!BatchOf
    <3>1. c \notin batch[b].members
      BY <1>3 DEF Queue!Tokens
    <3>2. verdict[c] = "assigned" /\ d # b /\ batch'[d] = batch[d]
      BY <2>2, <2>3, <2>4, <3>1
    <3> QED
      BY <3>2 DEF Queue!QueueInv, Queue!RevokedStaysOut, Queue!BatchOf
  <2>7. Queue!EntryInv(b, x, down)
    BY <1>1, <2>2, BatchIsTyped DEF Queue!EntryInv
  <2>8. x.listed => \A d \in Queue!Listed : d # b =>
           Queue!Tokens(batch[b].members) \cap Queue!Tokens(batch[d].members) = {}
    BY <2>2, ListedIsDisjoint DEF Queue!Listed
  <2>9. /\ at' \in [C -> {"new", "admitted", "hosting", "reading", "playing", "closed"}]
        /\ calls' \subseteq Queue!Call /\ slots' \in 0 .. MaxActive
    BY <2>1 DEF Queue!QueueInv, Queue!TypeOK
  <2> QED
    BY <1>1, <2>1, <2>2, <2>4, <2>5, <2>6, <2>7, <2>8, <2>9, OneBatchMoves
<1> QED
  BY <1>2, <1>3

LEMMA AdoptKeeps ==
  ASSUME Queue!Assumption, Queue!QueueInv, NEW b \in C, Queue!Adopt(b)
  PROVE  Queue!QueueInv'
<1> DEFINE done == [batch[b] EXCEPT !.starter = "done",
                                    !.cancelled = down = "locked" \/ ~batch[b].listed]
           x == IF batch[b].game = "over" THEN Queue!NoBatch ELSE done
<1>1. /\ batch[b].starter = "spawned" /\ batch' = [batch EXCEPT ![b] = x] /\ Queue!StarterReturns(b)
      /\ UNCHANGED <<verdict, told, queue, slots, timer, active, notices, down>>
  BY DEF Queue!Adopt, Queue!tokenVars
<1>2. batch[b] # Queue!NoBatch /\ batch[b].game \in {"on", "left", "over"}
  BY <1>1, BatchIsTyped, NoBatchIs DEF Queue!EntryInv, Queue!Batch
<1>3. /\ done \in Queue!Batch /\ done.starter = "done" /\ done.members = batch[b].members
      /\ done.cancelled = (down = "locked" \/ ~batch[b].listed)
      /\ done.game = batch[b].game /\ done.listed = batch[b].listed /\ done.armed = batch[b].armed
      /\ done.released = batch[b].released
  <2>1. batch[b] \in Queue!Batch
    BY BatchIsTyped
  <2> QED
    BY <2>1 DEF Queue!Batch
<1> HIDE DEF done
<1>4. /\ x \in Queue!Batch /\ x.members \subseteq batch[b].members
      /\ x.listed => batch[b].listed
      /\ x.game = "on" => x = done
      /\ x.game \in {"left", "over"} \/ ~x.armed \/ x = done
  BY <1>3, NoBatchIs
<1>5. batch'[b] = x /\ \A d \in C : d # b => batch'[d] = batch[d]
  BY <1>1 DEF Queue!QueueInv, Queue!TypeOK
<1>6. Queue!EntryInv(b, x, down)
  <2>1. CASE batch[b].game = "over"
    BY <2>1 DEF Queue!EntryInv
  <2>2. CASE batch[b].game # "over"
    BY <1>1, <1>2, <1>3, <2>2, BatchIsTyped DEF Queue!EntryInv
  <2> QED
    BY <2>1, <2>2
<1>7. Queue!Capacity'
  <2>1. Queue!Live' = Queue!Live
    BY <1>1, <1>2, <1>3, <1>5, NoBatchIs DEF Queue!Live
  <2>2. {d \in Queue!Live' : ~batch'[d].released} = {d \in Queue!Live : ~batch[d].released}
    BY <1>1, <1>2, <1>3, <1>5, <2>1, NoBatchIs DEF Queue!Live
  <2> QED
    BY <1>1, <2>1, <2>2 DEF Queue!QueueInv, Queue!Capacity
<1>8. Queue!RevokedStaysOut'
  <2>1. \A d \in C : \/ batch'[d].game \in {"left", "over"} \/ ~batch'[d].armed
                     \/ /\ batch'[d].members = batch[d].members /\ batch'[d].armed = batch[d].armed
                        /\ batch'[d].game = batch[d].game
    BY <1>3, <1>4, <1>5
  <2> QED
    BY <1>1, <2>1, RevokedStay DEF Queue!QueueInv
<1>9. x.listed => \A d \in Queue!Listed : d # b =>
         Queue!Tokens(batch[b].members) \cap Queue!Tokens(batch[d].members) = {}
  BY <1>4, ListedIsDisjoint DEF Queue!Listed
<1>10. down = "locked" /\ x.game = "on" /\ x.starter = "done" => x.cancelled
  BY <1>3, <1>4
<1>11. /\ verdict' \in [C -> {"none", "assigned", "server_busy", "protocol_error",
                              "token_revoked", "server_shutdown"}]
       /\ slots' \in 0 .. MaxActive
  BY <1>1 DEF Queue!QueueInv, Queue!TypeOK
<1> HIDE DEF x
<1> QED
  BY <1>1, <1>2, <1>4, <1>6, <1>7, <1>8, <1>9, <1>10, <1>11, StarterComesBack, OneBatchMoves

LEMMA FinishKeeps ==
  ASSUME Queue!Assumption, Queue!QueueInv, NEW b \in C, Queue!Finish(b)
  PROVE  Queue!QueueInv'
<1> DEFINE x == [batch[b] EXCEPT !.game = "left", !.released = TRUE]
<1>1. /\ batch[b].game = "on" /\ slots' = Queue!Released(b) /\ batch' = [batch EXCEPT ![b] = x]
      /\ UNCHANGED <<at, verdict, told, queue, timer, calls, active, notices, down>>
  BY DEF Queue!Finish, Queue!socketVars, Queue!tokenVars
<1>2. /\ x \in Queue!Batch /\ x.game = "left" /\ x.starter = batch[b].starter
      /\ x.members = batch[b].members /\ x.listed = batch[b].listed /\ x.armed = batch[b].armed
  <2>1. batch[b] \in Queue!Batch
    BY BatchIsTyped
  <2> QED
    BY <2>1 DEF Queue!Batch
<1> HIDE DEF x
<1>3. batch[b] # Queue!NoBatch /\ batch[b].starter \in {"spawned", "done"}
  BY <1>1, BatchIsTyped, NoBatchIs DEF Queue!EntryInv
<1>4. batch'[b] = x /\ \A d \in C : d # b => batch'[d] = batch[d]
  BY <1>1 DEF Queue!QueueInv, Queue!TypeOK
<1>5. slots' \in 0 .. MaxActive /\ Queue!Capacity'
  BY <1>1, <1>2, <1>3, SlotIsReleased
<1>6. Queue!RevokedStaysOut'
  BY <1>1, <1>2, <1>4, RevokedStay DEF Queue!QueueInv
<1>7. Queue!EntryInv(b, x, down)
  BY <1>1, <1>2, <1>3, BatchIsTyped DEF Queue!EntryInv
<1>8. x.listed => \A d \in Queue!Listed : d # b =>
         Queue!Tokens(batch[b].members) \cap Queue!Tokens(batch[d].members) = {}
  BY <1>2, ListedIsDisjoint DEF Queue!Listed
<1>9. /\ at' \in [C -> {"new", "admitted", "hosting", "reading", "playing", "closed"}]
      /\ verdict' \in [C -> {"none", "assigned", "server_busy", "protocol_error",
                             "token_revoked", "server_shutdown"}]
      /\ calls' \subseteq Queue!Call
  BY <1>1 DEF Queue!QueueInv, Queue!TypeOK
<1> QED
  BY <1>1, <1>2, <1>3, <1>5, <1>6, <1>7, <1>8, <1>9, OneBatchMoves

LEMMA UnlistKeeps ==
  ASSUME Queue!Assumption, Queue!QueueInv, NEW b \in C, Queue!Unlist(b)
  PROVE  Queue!QueueInv'
<1> DEFINE over == [batch[b] EXCEPT !.game = "over", !.listed = FALSE]
           x == IF batch[b].starter = "done" THEN Queue!NoBatch ELSE over
<1>1. /\ batch[b].game = "left" /\ batch' = [batch EXCEPT ![b] = x]
      /\ calls' = calls \cup {[host |-> Queue!NoHost, op |-> "restart"]}
      /\ UNCHANGED <<at, verdict, told, queue, slots, timer, active, notices, down>>
  BY DEF Queue!Unlist, Queue!socketVars, Queue!tokenVars
<1>2. batch[b] # Queue!NoBatch /\ batch[b].starter \in {"spawned", "done"}
  BY <1>1, BatchIsTyped, NoBatchIs DEF Queue!EntryInv
<1>3. /\ over \in Queue!Batch /\ over.game = "over" /\ over.starter = batch[b].starter
      /\ over.members = batch[b].members /\ ~over.listed /\ over.armed = batch[b].armed
  <2>1. batch[b] \in Queue!Batch
    BY BatchIsTyped
  <2> QED
    BY <2>1 DEF Queue!Batch
<1> HIDE DEF over
<1>4. /\ x \in Queue!Batch /\ x.members \subseteq batch[b].members /\ ~x.listed
      /\ ~(x.game = "on" \/ x.starter = "opening")
      /\ x.game \in {"left", "over"} \/ ~x.armed
  BY <1>2, <1>3, NoBatchIs
<1>5. batch'[b] = x /\ \A d \in C : d # b => batch'[d] = batch[d]
  BY <1>1 DEF Queue!QueueInv, Queue!TypeOK
<1>6. Queue!EntryInv(b, x, down)
  BY <1>1, <1>2, <1>3, BatchIsTyped DEF Queue!EntryInv
<1> HIDE DEF x
<1>7. Queue!Capacity'
  <2>1. Queue!Live' = Queue!Live /\ b \notin Queue!Live
    BY <1>1, <1>2, <1>4, <1>5 DEF Queue!Live
  <2>2. {d \in Queue!Live' : ~batch'[d].released} = {d \in Queue!Live : ~batch[d].released}
    BY <1>5, <2>1 DEF Queue!Live
  <2> QED
    BY <1>1, <2>1, <2>2 DEF Queue!QueueInv, Queue!Capacity
<1>8. Queue!RevokedStaysOut'
  BY <1>1, <1>4, <1>5, RevokedStay DEF Queue!QueueInv
<1>9. /\ at' \in [C -> {"new", "admitted", "hosting", "reading", "playing", "closed"}]
      /\ verdict' \in [C -> {"none", "assigned", "server_busy", "protocol_error",
                             "token_revoked", "server_shutdown"}]
      /\ calls' \subseteq Queue!Call /\ slots' \in 0 .. MaxActive
  BY <1>1 DEF Queue!QueueInv, Queue!TypeOK, Queue!Call
<1> QED
  BY <1>1, <1>2, <1>4, <1>6, <1>7, <1>8, <1>9, OneBatchMoves

-----------------------------------------------------------------------------
(* Together *)

LEMMA QueueStarts ==
  ASSUME Queue!Assumption, Queue!Init
  PROVE  Queue!QueueInv
<1>1. /\ at = [c \in C |-> "new"] /\ verdict = [c \in C |-> "none"] /\ told = {} /\ queue = << >>
      /\ batch = [c \in C |-> Queue!NoBatch] /\ slots = 0 /\ timer = FALSE /\ calls = {}
      /\ active = Token /\ notices = {} /\ down = "up"
  BY DEF Queue!Init
<1>2. queue \in Seq(C) /\ Len(queue) = 0 /\ DOMAIN queue = {}
  BY <1>1
<1>3. Queue!TypeOK
  <2>1. Len(queue) <= MaxQueue /\ slots \in 0 .. MaxActive
    BY <1>1, <1>2 DEF Queue!Assumption
  <2>2. batch \in [C -> Queue!Batch]
    BY <1>1, NoBatchIs
  <2> QED
    BY <1>1, <1>2, <2>1, <2>2 DEF Queue!TypeOK
<1>4. Queue!WaitingInv /\ Queue!BatchInv /\ Queue!RevokedStaysOut /\ Queue!ShutdownReachesEveryMatch
  BY <1>1, <1>2, NoBatchIs
  DEF Queue!WaitingInv, Queue!Waiting, Queue!BatchInv, Queue!EntryInv, Queue!RevokedStaysOut,
      Queue!ShutdownReachesEveryMatch
<1>5. Queue!Capacity
  <2>1. Queue!Live = {}
    BY <1>1, NoBatchIs DEF Queue!Live
  <2>2. {b \in Queue!Live : ~batch[b].released} = {}
    BY <2>1
  <2>3. Cardinality({}) = 0
    BY FS_EmptySet
  <2> QED
    BY <1>1, <2>1, <2>2, <2>3, SameCounting DEF Queue!Capacity, Queue!Assumption
<1>6. Queue!OneMatchPerToken
  BY <1>1, <1>2, NoBatchIs DEF Queue!OneMatchPerToken, Queue!Listed
<1> QED
  BY <1>3, <1>4, <1>5, <1>6 DEF Queue!QueueInv

LEMMA QueueSteps ==
  ASSUME Queue!Assumption, Queue!QueueInv, Queue!Next
  PROVE  Queue!QueueInv'
<1>1. ASSUME NEW c \in C, Queue!Socket(c) PROVE Queue!QueueInv'
  BY <1>1, EnqueueRankedKeeps, EnqueueValidateKeeps, ReadVerdictKeeps, EndSocketKeeps
  DEF Queue!Socket, Queue!ServerEndsSocket
<1>2. ASSUME NEW b \in C, Queue!Starter(b) \/ Queue!Finish(b) \/ Queue!Unlist(b)
      PROVE  Queue!QueueInv'
  BY <1>2, RegisterKeeps, GiveUpKeeps, CheckKeeps, AdoptKeeps, FinishKeeps, UnlistKeeps
  DEF Queue!Starter, Queue!PrepareFails
<1>3. CASE Queue!TimerCall
  BY <1>3, ScheduleKeeps, RestartKeeps DEF Queue!TimerCall
<1>4. ASSUME NEW c \in C, Queue!Upgrade(c) \/ Queue!LeaveQueue(c) \/ Queue!EndSocket(c)
      PROVE  Queue!QueueInv'
  BY <1>4, UpgradeKeeps, LeaveQueueKeeps, EndSocketKeeps
<1>5. ASSUME NEW t \in Token, Queue!Deliver(t) \/ Queue!Revoke(t)
      PROVE  Queue!QueueInv'
  BY <1>5, DeliverKeeps, RevokeKeeps
<1>6. Quitters \subseteq C
  BY DEF Queue!Assumption
<1> QED
  BY <1>1, <1>2, <1>3, <1>4, <1>5, <1>6, FillKeeps, ShutdownKeeps, BeginShutdownKeeps
  DEF Queue!Next, Queue!System

LEMMA QueueStutters ==
  ASSUME Queue!Assumption, Queue!QueueInv, UNCHANGED queueVars
  PROVE  Queue!QueueInv'
<1>1. Queue!TypeOK'
  BY DEF queueVars, Queue!QueueInv, Queue!TypeOK
<1> QED
  BY <1>1, TimerCallKeeps DEF queueVars

\* Whatever the other half does, the queue keeps its invariant while it is looked at.
QueueHolds == part = "queue" => Queue!QueueInv

LEMMA QueueHoldsThroughout == Spec => []QueueHolds
<1> USE QueueAssumption
<1>1. Init => QueueHolds
  BY QueueStarts DEF Init, QueueHolds
<1>2. QueueHolds /\ [Next]_vars => QueueHolds'
  <2> SUFFICES ASSUME QueueHolds, [Next]_vars, part' = "queue" PROVE Queue!QueueInv'
    BY DEF QueueHolds
  <2>1. CASE OfQueue(Queue!Next)
    BY <2>1, QueueSteps DEF OfQueue, QueueHolds
  <2>2. CASE OfMatch(Match!Next)
    BY <2>2 DEF OfMatch
  <2>3. CASE UNCHANGED vars
    BY <2>3, QueueStutters DEF QueueHolds, vars
  <2> QED
    BY <2>1, <2>2, <2>3 DEF Next
<1> QED
  BY <1>1, <1>2, PTL DEF Spec

\* No more Matches than slots and no Bot Token in two of them, for any numbers of
\* connections and slots and through every failure (compat.rs start_batch, release_slot).
THEOREM SlotsHold == Spec => []SlotsAreSound
<1>1. QueueHolds => SlotsAreSound
  BY DEF QueueHolds, SlotsAreSound, Queue!QueueInv
<1> QED
  BY <1>1, QueueHoldsThroughout, PTL

\* A delivered revocation and the shutdown reach every Match, wherever the start of its
\* batch was (compat.rs deliver_revocation, shutdown, the locks of start_batch).
THEOREM InterruptionsGetThrough == Spec => []InterruptionsReachAll
<1>1. QueueHolds => InterruptionsReachAll
  BY DEF QueueHolds, InterruptionsReachAll, Queue!QueueInv
<1> QED
  BY <1>1, QueueHoldsThroughout, PTL

-----------------------------------------------------------------------------
(* The Match: what the Machine answers *)

LEMMA MachineIs ==
  ASSUME NEW m \in Match!Machine
  PROVE  /\ m.st \in {"decide", "held", "complete"} /\ m.open \in BOOLEAN
         /\ m.eligible \in SUBSET Seats /\ m.answered \in SUBSET Seats
         /\ m.left \in 0 .. TurnTime /\ m.turn \in Nat /\ m.kyoku \in Nat /\ m.log \in Nat
BY DEF Match!Machine

\* One field of the Machine changes.
LEMMA WithSt ==
  ASSUME NEW m \in Match!Machine, NEW v \in {"decide", "held", "complete"}
  PROVE  LET n == [m EXCEPT !.st = v]
         IN  /\ n \in Match!Machine /\ n.st = v /\ n.open = m.open /\ n.eligible = m.eligible
             /\ n.answered = m.answered /\ n.left = m.left /\ n.turn = m.turn
             /\ n.kyoku = m.kyoku /\ n.log = m.log
BY DEF Match!Machine

LEMMA WithOpen ==
  ASSUME NEW m \in Match!Machine, NEW v \in BOOLEAN
  PROVE  LET n == [m EXCEPT !.open = v]
         IN  /\ n \in Match!Machine /\ n.st = m.st /\ n.open = v /\ n.eligible = m.eligible
             /\ n.answered = m.answered /\ n.left = m.left /\ n.turn = m.turn
             /\ n.kyoku = m.kyoku /\ n.log = m.log
BY DEF Match!Machine

LEMMA WithEligible ==
  ASSUME NEW m \in Match!Machine, NEW v \in SUBSET Seats
  PROVE  LET n == [m EXCEPT !.eligible = v]
         IN  /\ n \in Match!Machine /\ n.st = m.st /\ n.open = m.open /\ n.eligible = v
             /\ n.answered = m.answered /\ n.left = m.left /\ n.turn = m.turn
             /\ n.kyoku = m.kyoku /\ n.log = m.log
BY DEF Match!Machine

LEMMA WithAnswered ==
  ASSUME NEW m \in Match!Machine, NEW v \in SUBSET Seats
  PROVE  LET n == [m EXCEPT !.answered = v]
         IN  /\ n \in Match!Machine /\ n.st = m.st /\ n.open = m.open /\ n.eligible = m.eligible
             /\ n.answered = v /\ n.left = m.left /\ n.turn = m.turn
             /\ n.kyoku = m.kyoku /\ n.log = m.log
BY DEF Match!Machine

LEMMA WithLeft ==
  ASSUME NEW m \in Match!Machine, NEW v \in 0 .. TurnTime
  PROVE  LET n == [m EXCEPT !.left = v]
         IN  /\ n \in Match!Machine /\ n.st = m.st /\ n.open = m.open /\ n.eligible = m.eligible
             /\ n.answered = m.answered /\ n.left = v /\ n.turn = m.turn
             /\ n.kyoku = m.kyoku /\ n.log = m.log
BY DEF Match!Machine

LEMMA WithTurn ==
  ASSUME NEW m \in Match!Machine, NEW v \in Nat
  PROVE  LET n == [m EXCEPT !.turn = v]
         IN  /\ n \in Match!Machine /\ n.st = m.st /\ n.open = m.open /\ n.eligible = m.eligible
             /\ n.answered = m.answered /\ n.left = m.left /\ n.turn = v
             /\ n.kyoku = m.kyoku /\ n.log = m.log
BY DEF Match!Machine

LEMMA WithKyoku ==
  ASSUME NEW m \in Match!Machine, NEW v \in Nat
  PROVE  LET n == [m EXCEPT !.kyoku = v]
         IN  /\ n \in Match!Machine /\ n.st = m.st /\ n.open = m.open /\ n.eligible = m.eligible
             /\ n.answered = m.answered /\ n.left = m.left /\ n.turn = m.turn
             /\ n.kyoku = v /\ n.log = m.log
BY DEF Match!Machine

LEMMA WithLog ==
  ASSUME NEW m \in Match!Machine, NEW v \in Nat
  PROVE  LET n == [m EXCEPT !.log = v]
         IN  /\ n \in Match!Machine /\ n.st = m.st /\ n.open = m.open /\ n.eligible = m.eligible
             /\ n.answered = m.answered /\ n.left = m.left /\ n.turn = m.turn
             /\ n.kyoku = m.kyoku /\ n.log = v
BY DEF Match!Machine

\* A complete Decision is resolved: it is closed, in the same Kyoku.
LEMMA Resolved ==
  ASSUME Match!Assumption, NEW m \in Match!Machine, m.st = "decide", NEW n \in Match!Resolutions(m)
  PROVE  /\ n \in Match!Machine /\ ~n.open /\ n.answered = {} /\ n.st \in {"decide", "held"}
         /\ n.kyoku = m.kyoku
<1> DEFINE a == [m EXCEPT !.open = FALSE]
           b == [a EXCEPT !.answered = {}]
           c == [b EXCEPT !.left = 0]
           next == [m EXCEPT !.open = FALSE, !.answered = {}, !.left = 0, !.log = @ + 1]
<1>1. 0 \in 0 .. TurnTime /\ m.log + 1 \in Nat /\ m.turn + 1 \in Nat /\ {} \in SUBSET Seats
      /\ FALSE \in BOOLEAN
  BY MachineIs DEF Match!Assumption
<1>2. a \in Match!Machine /\ ~a.open /\ a.st = "decide" /\ a.kyoku = m.kyoku /\ a.turn = m.turn
  BY <1>1, WithOpen
<1>3. next = [c EXCEPT !.log = m.log + 1]
  OBVIOUS
<1>4. \/ n = [next EXCEPT !.st = "held", !.eligible = {}]
      \/ \E e \in Match!Offers : n = [next EXCEPT !.eligible = e, !.turn = next.turn + 1]
  BY Zenon DEF Match!Resolutions
<1> HIDE DEF next
<1> HIDE DEF a
<1>5. b \in Match!Machine /\ ~b.open /\ b.st = "decide" /\ b.kyoku = m.kyoku /\ b.answered = {}
      /\ b.turn = m.turn
  BY <1>1, <1>2, WithAnswered
<1> HIDE DEF b
<1>6. c \in Match!Machine /\ ~c.open /\ c.st = "decide" /\ c.kyoku = m.kyoku /\ c.answered = {}
      /\ c.turn = m.turn
  BY <1>1, <1>5, WithLeft
<1> HIDE DEF c
<1>7. /\ next \in Match!Machine /\ ~next.open /\ next.st = "decide" /\ next.kyoku = m.kyoku
      /\ next.answered = {} /\ next.turn = m.turn
  BY <1>1, <1>3, <1>6, WithLog
<1>8. CASE n = [next EXCEPT !.st = "held", !.eligible = {}]
  <2> DEFINE d == [next EXCEPT !.st = "held"]
  <2>1. d \in Match!Machine /\ ~d.open /\ d.st = "held" /\ d.kyoku = m.kyoku /\ d.answered = {}
    BY <1>7, WithSt
  <2>2. n = [d EXCEPT !.eligible = {}]
    BY <1>8
  <2> HIDE DEF d
  <2> QED
    BY <1>1, <2>1, <2>2, WithEligible
<1>9. ASSUME NEW e \in Match!Offers, n = [next EXCEPT !.eligible = e, !.turn = next.turn + 1]
      PROVE  /\ n \in Match!Machine /\ ~n.open /\ n.answered = {} /\ n.st \in {"decide", "held"}
             /\ n.kyoku = m.kyoku
  <2> DEFINE d == [next EXCEPT !.eligible = e]
  <2>1. e \in SUBSET Seats
    BY DEF Match!Offers
  <2>2. d \in Match!Machine /\ ~d.open /\ d.st = "decide" /\ d.kyoku = m.kyoku /\ d.answered = {}
    BY <1>7, <2>1, WithEligible
  <2>3. n = [d EXCEPT !.turn = next.turn + 1]
    BY <1>9
  <2> HIDE DEF d
  <2> QED
    BY <1>1, <1>7, <2>2, <2>3, WithTurn
<1> QED
  BY <1>4, <1>8, <1>9

\* The Seats of S answer: the Decision is resolved if they are the last, else it waits.
LEMMA Answers ==
  ASSUME Match!Assumption, NEW m \in Match!Machine, m.st = "decide", NEW S,
         NEW n \in Match!Submitted(m, S)
  PROVE  /\ n \in Match!Machine /\ n.st # "complete" /\ n.kyoku = m.kyoku
         /\ \/ /\ m.eligible \subseteq m.answered \cup S
               /\ ~n.open /\ n.answered = {}
            \/ /\ ~(m.eligible \subseteq m.answered \cup S)
               /\ n.answered = m.answered \cup (S \cap m.eligible) /\ n.st = "decide"
               /\ n.open = m.open /\ n.eligible = m.eligible /\ n.left = m.left
<1> DEFINE answered == m.answered \cup (S \cap m.eligible)
<1>1. m.eligible \subseteq answered <=> m.eligible \subseteq m.answered \cup S
  OBVIOUS
<1>2. answered \in SUBSET Seats
  BY MachineIs
<1> HIDE DEF answered
<1>3. CASE m.eligible \subseteq answered
  <2>1. n \in Match!Resolutions(m)
    BY <1>3 DEF Match!Submitted, answered
  <2> QED
    BY <1>1, <1>3, <2>1, Resolved
<1>4. CASE ~(m.eligible \subseteq answered)
  <2>1. n = [m EXCEPT !.answered = answered]
    BY <1>4 DEF Match!Submitted, answered
  <2>2. /\ n \in Match!Machine /\ n.answered = answered /\ n.st = "decide" /\ n.open = m.open
        /\ n.eligible = m.eligible /\ n.left = m.left /\ n.kyoku = m.kyoku
    BY <1>2, <2>1, WithAnswered
  <2> QED
    BY <1>1, <1>4, <2>2 DEF answered
<1> QED
  BY <1>3, <1>4

LEMMA OpenedIs ==
  ASSUME Match!Assumption, NEW m \in Match!Machine
  PROVE  LET n == Match!Opened(m)
         IN  /\ n \in Match!Machine /\ n.open /\ n.st = m.st /\ n.eligible = m.eligible
             /\ n.answered = m.answered /\ n.kyoku = m.kyoku
<1>1. CASE m.open
  BY <1>1 DEF Match!Opened
<1>2. CASE ~m.open
  <2> DEFINE a == [m EXCEPT !.open = TRUE]
  <2>1. /\ a \in Match!Machine /\ a.open /\ a.st = m.st /\ a.eligible = m.eligible
        /\ a.answered = m.answered /\ a.kyoku = m.kyoku
    BY WithOpen
  <2>2. Match!Opened(m) = [a EXCEPT !.left = TurnTime]
    BY <1>2 DEF Match!Opened
  <2>3. TurnTime \in 0 .. TurnTime
    BY DEF Match!Assumption
  <2> HIDE DEF a
  <2> QED
    BY <2>1, <2>2, <2>3, WithLeft
<1> QED
  BY <1>1, <1>2

LEMMA ReleasesAre ==
  ASSUME Match!Assumption, NEW m \in Match!Machine, m.st = "held", ~m.open, m.answered = {},
         m.kyoku \in 1 .. MaxKyoku, NEW n \in Match!Releases(m)
  PROVE  /\ n \in Match!Machine /\ ~n.open /\ n.answered = {} /\ n.kyoku \in 1 .. MaxKyoku
         /\ \/ n.st = "complete" /\ m.kyoku = MaxKyoku
            \/ n.st = "decide" /\ n.kyoku = m.kyoku + 1
<1> DEFINE a == [m EXCEPT !.log = m.log + 2]
           next == [m EXCEPT !.log = @ + 2, !.turn = 1]
<1>1. m.log + 2 \in Nat /\ 1 \in Nat /\ m.kyoku \in Nat /\ m.kyoku + 1 \in Nat
  BY MachineIs
<1>2. a \in Match!Machine /\ ~a.open /\ a.answered = {} /\ a.kyoku = m.kyoku
  BY <1>1, WithLog
<1>3. next = [a EXCEPT !.turn = 1]
  OBVIOUS
<1> HIDE DEF a
<1>4. next \in Match!Machine /\ ~next.open /\ next.answered = {} /\ next.kyoku = m.kyoku
  <2> HIDE DEF next
  <2> QED
    BY <1>1, <1>2, <1>3, WithTurn
<1>5. CASE m.kyoku = MaxKyoku
  <2>1. n = [next EXCEPT !.st = "complete"]
    BY <1>5 DEF Match!Releases
  <2> HIDE DEF next
  <2> QED
    BY <1>4, <1>5, <2>1, WithSt
<1>6. CASE m.kyoku # MaxKyoku
  <2>1. PICK e \in Match!Offers :
           n = [next EXCEPT !.st = "decide", !.eligible = e, !.kyoku = next.kyoku + 1]
    BY Zenon, <1>6 DEF Match!Releases
  <2> HIDE DEF next
  <2> DEFINE b == [next EXCEPT !.st = "decide"]
             c == [b EXCEPT !.eligible = e]
  <2>2. b \in Match!Machine /\ ~b.open /\ b.answered = {} /\ b.st = "decide"
    BY <1>4, WithSt
  <2>3. n = [c EXCEPT !.kyoku = m.kyoku + 1]
    BY <1>4, <2>1
  <2> HIDE DEF b
  <2>4. c \in Match!Machine /\ ~c.open /\ c.answered = {} /\ c.st = "decide"
    BY <2>2, WithEligible DEF Match!Offers
  <2> HIDE DEF c
  <2>5. /\ n \in Match!Machine /\ ~n.open /\ n.answered = {} /\ n.st = "decide"
        /\ n.kyoku = m.kyoku + 1
    BY <1>1, <2>3, <2>4, WithKyoku
  <2>6. m.kyoku + 1 \in 1 .. MaxKyoku
    BY <1>1, <1>6 DEF Match!Assumption
  <2> QED
    BY <2>5, <2>6
<1> QED
  BY <1>5, <1>6

-----------------------------------------------------------------------------
(* The Match: requests *)

\* The Seats of S answer while the requests of `gone` end.
LEMMA RequestsAnswered ==
  ASSUME Match!Assumption, Match!MatchInv, pc = "collect", pc' = "collect",
         machine.open, NEW S, NEW gone, machine' \in Match!Submitted(machine, S),
         Match!Asked' = Match!Asked \ gone, activeSeats' \subseteq activeSeats,
         Match!Asked \cap S \subseteq gone, gone \cap activeSeats' \subseteq S
  PROVE  /\ machine' \in Match!Machine /\ machine'.st # "complete" /\ machine'.kyoku = machine.kyoku
         /\ Match!AskInv' /\ Match!RequestsAreOwed'
<1>1. machine \in Match!Machine /\ machine.st = "decide"
  BY DEF Match!MatchInv, Match!TypeOK, Match!AskInv
<1>2. /\ machine' \in Match!Machine /\ machine'.st # "complete" /\ machine'.kyoku = machine.kyoku
      /\ \/ /\ machine.eligible \subseteq machine.answered \cup S
            /\ ~machine'.open /\ machine'.answered = {}
         \/ /\ ~(machine.eligible \subseteq machine.answered \cup S)
            /\ machine'.answered = machine.answered \cup (S \cap machine.eligible)
            /\ machine'.st = "decide" /\ machine'.open = machine.open
            /\ machine'.eligible = machine.eligible /\ machine'.left = machine.left
  <2> DEFINE N(n) ==
        /\ n \in Match!Machine /\ n.st # "complete" /\ n.kyoku = machine.kyoku
        /\ \/ /\ machine.eligible \subseteq machine.answered \cup S
              /\ ~n.open /\ n.answered = {}
           \/ /\ ~(machine.eligible \subseteq machine.answered \cup S)
              /\ n.answered = machine.answered \cup (S \cap machine.eligible) /\ n.st = "decide"
              /\ n.open = machine.open /\ n.eligible = machine.eligible /\ n.left = machine.left
  <2>1. \A n \in Match!Submitted(machine, S) : N(n)
    BY <1>1, Answers, Zenon
  <2> QED
    BY <2>1, Zenon
<1>3. Match!Asked \subseteq machine.eligible \ machine.answered
  BY DEF Match!MatchInv, Match!RequestsAreOwed
<1>4. CASE machine.eligible \subseteq machine.answered \cup S /\ ~machine'.open /\ machine'.answered = {}
  <2>1. Match!Asked' = {}
    BY <1>3, <1>4
  <2> QED
    BY <1>2, <1>4, <2>1 DEF Match!AskInv, Match!RequestsAreOwed
<1>5. CASE /\ machine'.answered = machine.answered \cup (S \cap machine.eligible)
           /\ machine'.st = "decide" /\ machine'.open = machine.open
           /\ machine'.eligible = machine.eligible /\ machine'.left = machine.left
  <2>1. Match!Asked' \subseteq machine'.eligible \ machine'.answered
    BY <1>3, <1>5
  <2>2. machine.left > 0 => machine.eligible \cap activeSeats' \subseteq machine'.answered \cup Match!Asked'
    BY <1>5 DEF Match!MatchInv, Match!AskInv
  <2>3. Match!AskInv'
    BY <1>5, <2>2 DEF Match!AskInv
  <2>4. Match!RequestsAreOwed'
    BY <1>5, <2>1 DEF Match!RequestsAreOwed
  <2> QED
    BY <1>2, <2>3, <2>4
<1> QED
  BY <1>2, <1>4, <1>5

\* Requests end that nobody answers.
LEMMA RequestsEnd ==
  ASSUME Match!MatchInv, pc = "collect", UNCHANGED <<pc, machine>>,
         Match!Asked' \subseteq Match!Asked, activeSeats' \subseteq activeSeats,
         machine.left > 0 => activeSeats' \cap Match!Asked \subseteq Match!Asked'
  PROVE  Match!AskInv' /\ Match!RequestsAreOwed'
<1>1. Match!AskInv'
  BY DEF Match!MatchInv, Match!AskInv
<1>2. Match!RequestsAreOwed'
  BY DEF Match!MatchInv, Match!RequestsAreOwed
<1> QED
  BY <1>1, <1>2

\* While it collects, the actor does not touch the replay.
LEMMA ReplayWaits ==
  ASSUME Match!MatchInv, pc = "collect", UNCHANGED <<pc, cursor, mark, replay, row, file, cleanup, degraded>>,
         machine'.kyoku = machine.kyoku, machine'.st = "complete" <=> machine.st = "complete"
  PROVE  Match!ReplayInv' /\ Match!DiskInv' /\ Match!CompletedReplayIsWhole'
<1>1. Match!ReplayInv'
  BY DEF Match!MatchInv, Match!ReplayInv
<1>2. Match!DiskInv'
  BY DEF Match!MatchInv, Match!DiskInv
<1>3. row # "completed"
  BY DEF Match!MatchInv, Match!DiskInv
<1> QED
  BY <1>1, <1>2, <1>3 DEF Match!CompletedReplayIsWhole

LEMMA MatchIsTyped ==
  ASSUME Match!MatchInv
  PROVE  /\ machine \in Match!Machine /\ link \in [Bots -> {"up", "slow", "gone"}]
         /\ notice \subseteq Bots /\ activeSeats \subseteq Bots
         /\ pending \in [Bots -> {Match!None} \cup 0 .. (Grace + Bank)] /\ bank \in [Bots -> 0 .. Bank]
         /\ cursor \in Nat /\ mark \in Nat /\ replay \in Match!Replay
         /\ row \in {"none", "writing", "completed"} /\ file \in {"none", "part", "final"}
         /\ cleanup \in BOOLEAN /\ degraded \in BOOLEAN
BY DEF Match!MatchInv, Match!TypeOK

\* What is left of a bank is what the request had over the grace.
LEMMA AccountedIs ==
  ASSUME Match!Assumption, Match!MatchInv, NEW s \in Match!Asked
  PROVE  Match!Accounted(s) \in 0 .. Bank
<1>1. s \in Bots /\ pending[s] \in 0 .. (Grace + Bank) /\ bank[s] \in 0 .. Bank
  BY MatchIsTyped DEF Match!Asked
<1> QED
  BY <1>1 DEF Match!Accounted, Match!Assumption

\* A request that is pending belongs to an open Decision.
LEMMA AskedIsOpen ==
  ASSUME Match!MatchInv, pc = "collect", NEW s \in Match!Asked
  PROVE  machine.open /\ machine.st = "decide" /\ s \in machine.eligible \ machine.answered
BY DEF Match!MatchInv, Match!RequestsAreOwed, Match!AskInv

LEMMA ReplyKeeps ==
  ASSUME Match!Assumption, Match!MatchInv, NEW s \in Bots, Match!Reply(s)
  PROVE  Match!MatchInv'
<1>1. /\ pc = "collect" /\ s \in Match!Asked
      /\ machine' \in Match!Submitted(machine, {s})
      /\ bank' = [bank EXCEPT ![s] = Match!Accounted(s)]
      /\ pending' = [pending EXCEPT ![s] = Match!None]
      /\ UNCHANGED <<pc, outcome, link, notice, activeSeats, cursor, mark, replay, row, file,
                     cleanup, degraded>>
  BY DEF Match!Reply, Match!playerVars, Match!diskVars
<1>2. machine.open /\ machine.st = "decide"
  BY <1>1, AskedIsOpen
<1>3. /\ pending' \in [Bots -> {Match!None} \cup 0 .. (Grace + Bank)] /\ bank' \in [Bots -> 0 .. Bank]
      /\ Match!Asked' = Match!Asked \ {s}
  BY <1>1, MatchIsTyped, AccountedIs DEF Match!Asked
<1>4. /\ machine' \in Match!Machine /\ machine'.st # "complete" /\ machine'.kyoku = machine.kyoku
      /\ Match!AskInv' /\ Match!RequestsAreOwed'
  BY <1>1, <1>2, <1>3, RequestsAnswered
<1>5. Match!TypeOK'
  BY <1>1, <1>3, <1>4 DEF Match!MatchInv, Match!TypeOK
<1>6. Match!ReplayInv' /\ Match!DiskInv' /\ Match!CompletedReplayIsWhole'
  BY <1>1, <1>2, <1>4, ReplayWaits
<1> QED
  BY <1>4, <1>5, <1>6 DEF Match!MatchInv

LEMMA BadReplyKeeps ==
  ASSUME Match!Assumption, Match!MatchInv, NEW s \in Bots, Match!BadReply(s)
  PROVE  Match!MatchInv'
<1>1. /\ pc = "collect" /\ activeSeats' = activeSeats \ {s}
      /\ UNCHANGED <<pc, outcome, machine, link, notice, pending, bank, cursor, mark, replay, row,
                     file, cleanup, degraded>>
  BY DEF Match!BadReply, Match!clockVars, Match!diskVars
<1>2. Match!Asked' = Match!Asked
  BY <1>1 DEF Match!Asked
<1>3. Match!TypeOK'
  BY <1>1 DEF Match!MatchInv, Match!TypeOK
<1>4. Match!AskInv' /\ Match!RequestsAreOwed'
  BY <1>1, <1>2, RequestsEnd
<1>5. Match!ReplayInv' /\ Match!DiskInv' /\ Match!CompletedReplayIsWhole'
  BY <1>1, ReplayWaits
<1> QED
  BY <1>3, <1>4, <1>5 DEF Match!MatchInv

LEMMA LateReplyKeeps ==
  ASSUME Match!Assumption, Match!MatchInv, NEW s \in Bots, Match!LateReply(s)
  PROVE  Match!MatchInv'
<1>1. /\ pc = "collect" /\ s \in Match!Asked
      /\ UNCHANGED <<pc, outcome, link, notice, cursor, mark, replay, row, file, cleanup, degraded>>
  BY DEF Match!LateReply, Match!Expiring, Match!diskVars
<1>2. machine.open /\ machine.st = "decide"
  BY <1>1, AskedIsOpen
<1>3. CASE machine.left > 0
  <2>1. /\ machine' \in Match!Submitted(machine, {s}) /\ bank' = [bank EXCEPT ![s] = 0]
        /\ pending' = [pending EXCEPT ![s] = Match!None] /\ activeSeats' = activeSeats
    BY <1>3 DEF Match!LateReply
  <2>2. /\ pending' \in [Bots -> {Match!None} \cup 0 .. (Grace + Bank)] /\ bank' \in [Bots -> 0 .. Bank]
        /\ Match!Asked' = Match!Asked \ {s}
    BY <1>1, <2>1, MatchIsTyped DEF Match!Asked, Match!Assumption
  <2>3. /\ machine' \in Match!Machine /\ machine'.st # "complete" /\ machine'.kyoku = machine.kyoku
        /\ Match!AskInv' /\ Match!RequestsAreOwed'
    BY <1>1, <1>2, <2>1, <2>2, RequestsAnswered
  <2>4. Match!TypeOK'
    BY <1>1, <2>1, <2>2, <2>3 DEF Match!MatchInv, Match!TypeOK
  <2>5. Match!ReplayInv' /\ Match!DiskInv' /\ Match!CompletedReplayIsWhole'
    BY <1>1, <1>2, <2>3, ReplayWaits
  <2> QED
    BY <2>3, <2>4, <2>5 DEF Match!MatchInv
<1>4. CASE ~(machine.left > 0)
  <2>1. activeSeats' = activeSeats \ {s} /\ UNCHANGED <<machine, pending, bank>>
    BY <1>4 DEF Match!LateReply, Match!clockVars
  <2>2. Match!Asked' = Match!Asked
    BY <2>1 DEF Match!Asked
  <2>3. Match!TypeOK'
    BY <1>1, <2>1 DEF Match!MatchInv, Match!TypeOK
  <2>4. Match!AskInv' /\ Match!RequestsAreOwed'
    BY <1>1, <2>1, <2>2, RequestsEnd
  <2>5. Match!ReplayInv' /\ Match!DiskInv' /\ Match!CompletedReplayIsWhole'
    BY <1>1, <2>1, ReplayWaits
  <2> QED
    BY <2>3, <2>4, <2>5 DEF Match!MatchInv
<1> QED
  BY <1>3, <1>4

LEMMA TimeoutKeeps ==
  ASSUME Match!Assumption, Match!MatchInv, Match!Timeout
  PROVE  Match!MatchInv'
<1> DEFINE due == Match!Expiring
<1>1. /\ pc = "collect" /\ due # {}
      /\ pending' = [s \in Bots |-> IF s \in due THEN Match!None ELSE pending[s]]
      /\ UNCHANGED <<pc, outcome, link, notice, activeSeats, cursor, mark, replay, row, file,
                     cleanup, degraded>>
  BY DEF Match!Timeout, Match!playerVars, Match!diskVars
<1>2. due \subseteq Match!Asked /\ due \subseteq Bots
  BY DEF Match!Expiring, Match!Asked
<1>3. machine.open /\ machine.st = "decide"
  BY <1>1, <1>2, AskedIsOpen
<1>4. /\ pending' \in [Bots -> {Match!None} \cup 0 .. (Grace + Bank)]
      /\ Match!Asked' = Match!Asked \ due
  BY <1>1, <1>2, MatchIsTyped DEF Match!Asked
<1> HIDE DEF due
<1>5. CASE machine.left > 0
  <2>1. /\ machine' \in Match!Submitted(machine, due)
        /\ bank' = [s \in Bots |-> IF s \in due THEN 0 ELSE bank[s]]
    BY <1>5 DEF Match!Timeout, due
  <2>2. bank' \in [Bots -> 0 .. Bank]
    BY <2>1, MatchIsTyped DEF Match!Assumption
  <2>3. /\ machine' \in Match!Machine /\ machine'.st # "complete" /\ machine'.kyoku = machine.kyoku
        /\ Match!AskInv' /\ Match!RequestsAreOwed'
    BY <1>1, <1>3, <1>4, <2>1, RequestsAnswered
  <2>4. Match!TypeOK'
    BY <1>1, <1>4, <2>2, <2>3 DEF Match!MatchInv, Match!TypeOK
  <2>5. Match!ReplayInv' /\ Match!DiskInv' /\ Match!CompletedReplayIsWhole'
    BY <1>1, <1>3, <2>3, ReplayWaits
  <2> QED
    BY <2>3, <2>4, <2>5 DEF Match!MatchInv
<1>6. CASE ~(machine.left > 0)
  <2>1. UNCHANGED <<machine, bank>>
    BY <1>6 DEF Match!Timeout
  <2>2. Match!TypeOK'
    BY <1>1, <1>4, <2>1 DEF Match!MatchInv, Match!TypeOK
  <2>3. Match!AskInv' /\ Match!RequestsAreOwed'
    BY <1>1, <1>4, <1>6, <2>1, RequestsEnd
  <2>4. Match!ReplayInv' /\ Match!DiskInv' /\ Match!CompletedReplayIsWhole'
    BY <1>1, <2>1, ReplayWaits
  <2> QED
    BY <2>2, <2>3, <2>4 DEF Match!MatchInv
<1> QED
  BY <1>5, <1>6

LEMMA TickKeeps ==
  ASSUME Match!Assumption, Match!MatchInv, Match!Tick
  PROVE  Match!MatchInv'
<1>1. /\ pc = "collect" /\ Match!Asked # {} /\ Match!Expiring = {}
      /\ pending' = [s \in Bots |-> IF s \in Match!Asked THEN pending[s] - 1 ELSE Match!None]
      /\ machine' = [machine EXCEPT !.left = IF @ > 0 THEN @ - 1 ELSE 0]
      /\ UNCHANGED <<pc, outcome, link, notice, activeSeats, bank, cursor, mark, replay, row, file,
                     cleanup, degraded>>
  BY DEF Match!Tick, Match!playerVars, Match!diskVars
<1>2. /\ pending' \in [Bots -> {Match!None} \cup 0 .. (Grace + Bank)] /\ Match!Asked' = Match!Asked
  <2>1. ASSUME NEW s \in Match!Asked PROVE pending[s] - 1 \in 0 .. (Grace + Bank)
    BY <1>1, MatchIsTyped DEF Match!Asked, Match!Expiring, Match!Assumption
  <2>2. Match!None \notin 0 .. (Grace + Bank)
    BY DEF Match!None, Match!Assumption
  <2>3. Match!Asked \subseteq Bots
    BY DEF Match!Asked
  <2> QED
    BY <1>1, <2>1, <2>2, <2>3 DEF Match!Asked
<1>3. /\ machine' \in Match!Machine /\ machine'.st = machine.st /\ machine'.open = machine.open
      /\ machine'.eligible = machine.eligible /\ machine'.answered = machine.answered
      /\ machine'.kyoku = machine.kyoku /\ (machine'.left > 0 => machine.left > 0)
  <2> DEFINE left == IF machine.left > 0 THEN machine.left - 1 ELSE 0
  <2>1. left \in 0 .. TurnTime /\ (left > 0 => machine.left > 0)
    BY MatchIsTyped, MachineIs DEF Match!Assumption
  <2>2. machine' = [machine EXCEPT !.left = left]
    BY <1>1
  <2> HIDE DEF left
  <2> QED
    BY <2>1, <2>2, MatchIsTyped, WithLeft
<1>4. Match!TypeOK'
  BY <1>1, <1>2, <1>3 DEF Match!MatchInv, Match!TypeOK
<1>5. Match!AskInv'
  BY <1>1, <1>2, <1>3 DEF Match!MatchInv, Match!AskInv
<1>6. Match!RequestsAreOwed'
  BY <1>1, <1>2, <1>3 DEF Match!MatchInv, Match!RequestsAreOwed
<1>7. Match!ReplayInv' /\ Match!DiskInv' /\ Match!CompletedReplayIsWhole'
  BY <1>1, <1>3, ReplayWaits
<1> QED
  BY <1>4, <1>5, <1>6, <1>7 DEF Match!MatchInv

LEMMA DisconnectKeeps ==
  ASSUME Match!Assumption, Match!MatchInv, NEW s \in Bots, Match!Disconnect(s)
  PROVE  Match!MatchInv'
<1>1. /\ pc = "collect" /\ Match!Asked # {} /\ notice' = notice \ {s}
      /\ activeSeats' = activeSeats \ {s} /\ UNCHANGED <<link, bank, cursor, mark>>
  BY DEF Match!Disconnect
<1>2. machine.open /\ machine.st = "decide"
  BY <1>1, AskedIsOpen
<1>3. CASE s \notin machine.eligible
  <2>1. /\ replay' = [replay EXCEPT !.writer = FALSE] /\ pc' = "over" /\ outcome' = "panicked"
        /\ cleanup' = replay'.meta /\ file' = IF file = "part" THEN "none" ELSE file
        /\ UNCHANGED <<machine, pending, row, degraded>>
    BY <1>3 DEF Match!Disconnect, Match!Ends
  <2>2. replay' \in Match!Replay /\ replay'.meta = replay.meta /\ cleanup' \in BOOLEAN
    BY <2>1, MatchIsTyped DEF Match!Replay
  <2>3. row = (IF replay.meta THEN "writing" ELSE "none") /\ file' = "none"
    BY <1>1, <2>1 DEF Match!MatchInv, Match!DiskInv
  <2>4. Match!TypeOK'
    BY <1>1, <2>1, <2>2, <2>3 DEF Match!MatchInv, Match!TypeOK
  <2>5. Match!AskInv' /\ Match!RequestsAreOwed'
    BY <2>1, <1>2 DEF Match!AskInv, Match!RequestsAreOwed
  <2>6. ~replay'.writer
    BY <2>1, MatchIsTyped DEF Match!Replay
  <2>7. Match!ReplayInv'
    BY <1>1, <2>1, <2>6 DEF Match!MatchInv, Match!ReplayInv
  <2>8. Match!DiskInv' /\ Match!CompletedReplayIsWhole'
    BY <2>1, <2>2, <2>3 DEF Match!DiskInv, Match!CompletedReplayIsWhole
  <2> QED
    BY <2>4, <2>5, <2>7, <2>8 DEF Match!MatchInv
<1>4. CASE s \in machine.eligible
  <2>1. /\ pending' = [pending EXCEPT ![s] = Match!None]
        /\ IF machine.left > 0 /\ s \notin machine.answered
           THEN machine' \in Match!Submitted(machine, {s})
           ELSE machine' = machine
        /\ UNCHANGED <<pc, outcome, replay, row, file, cleanup, degraded>>
    BY <1>4 DEF Match!Disconnect, Match!diskVars
  <2>2. /\ pending' \in [Bots -> {Match!None} \cup 0 .. (Grace + Bank)]
        /\ Match!Asked' = Match!Asked \ {s}
    BY <2>1, MatchIsTyped DEF Match!Asked
  <2>3. CASE machine.left > 0 /\ s \notin machine.answered
    <3>1. machine' \in Match!Submitted(machine, {s})
      BY <2>1, <2>3
    <3>2. /\ machine' \in Match!Machine /\ machine'.st # "complete" /\ machine'.kyoku = machine.kyoku
          /\ Match!AskInv' /\ Match!RequestsAreOwed'
      BY <1>1, <1>2, <2>1, <2>2, <3>1, RequestsAnswered
    <3>3. Match!TypeOK'
      BY <1>1, <2>1, <2>2, <3>2 DEF Match!MatchInv, Match!TypeOK
    <3>4. Match!ReplayInv' /\ Match!DiskInv' /\ Match!CompletedReplayIsWhole'
      BY <1>1, <1>2, <2>1, <3>2, ReplayWaits
    <3> QED
      BY <3>2, <3>3, <3>4 DEF Match!MatchInv
  <2>4. CASE ~(machine.left > 0 /\ s \notin machine.answered)
    <3>1. machine' = machine
      BY <2>1, <2>4
    <3>2. Match!TypeOK'
      BY <1>1, <2>1, <2>2, <3>1 DEF Match!MatchInv, Match!TypeOK
    <3>3. Match!AskInv' /\ Match!RequestsAreOwed'
      BY <1>1, <2>1, <2>2, <3>1, RequestsEnd
    <3>4. Match!ReplayInv' /\ Match!DiskInv' /\ Match!CompletedReplayIsWhole'
      BY <1>1, <2>1, <3>1, ReplayWaits
    <3> QED
      BY <3>2, <3>3, <3>4 DEF Match!MatchInv
  <2> QED
    BY <2>3, <2>4
<1> QED
  BY <1>3, <1>4

\* The sockets change nothing the invariant speaks of.
LEMMA SocketsKeep ==
  ASSUME Match!Assumption, Match!MatchInv, NEW s \in Bots, Match!SlowDown(s) \/ Match!Leave(s)
  PROVE  Match!MatchInv'
<1>1. /\ link' \in [Bots -> {"up", "slow", "gone"}] /\ notice' \subseteq Bots
      /\ UNCHANGED <<pc, outcome, machine, activeSeats, pending, bank, cursor, mark, replay, row,
                     file, cleanup, degraded>>
  BY MatchIsTyped DEF Match!SlowDown, Match!Leave, Match!clockVars, Match!diskVars
<1>2. Match!TypeOK'
  BY <1>1 DEF Match!MatchInv, Match!TypeOK
<1>3. Match!AskInv' /\ Match!RequestsAreOwed'
  BY <1>1 DEF Match!MatchInv, Match!AskInv, Match!RequestsAreOwed, Match!Asked
<1>4. Match!ReplayInv' /\ Match!DiskInv' /\ Match!CompletedReplayIsWhole'
  BY <1>1 DEF Match!MatchInv, Match!ReplayInv, Match!DiskInv, Match!CompletedReplayIsWhole
<1> QED
  BY <1>2, <1>3, <1>4 DEF Match!MatchInv

-----------------------------------------------------------------------------
(* The Match: the replay *)

LEMMA ReplayIs ==
  ASSUME NEW r \in Match!Replay
  PROVE  /\ r.writer \in BOOLEAN /\ r.failed \in BOOLEAN /\ r.lines \in Nat \cup {Match!None}
         /\ r.records \in Nat /\ r.meta \in BOOLEAN
BY DEF Match!Replay

\* record: lines are appended where the file ends, or the writer is given up.
LEMMA RecordedIs ==
  ASSUME NEW r \in Match!Replay, r.failed => ~r.writer,
         NEW from \in Nat, NEW to \in Nat, NEW fails \in BOOLEAN
  PROVE  LET n == Match!Recorded(r, from, to, fails)
         IN  /\ n \in Match!Replay /\ n.records = r.records /\ n.meta = r.meta
             /\ n.failed => ~n.writer
             /\ n.writer => r.writer /\ (r.lines = from => n.lines = to)
<1>1. CASE r.failed \/ ~r.writer \/ from = to
  <2>1. Match!Recorded(r, from, to, fails) = r
    BY <1>1 DEF Match!Recorded
  <2> QED
    BY <1>1, <2>1
<1>2. CASE ~(r.failed \/ ~r.writer \/ from = to) /\ fails
  <2> DEFINE a == [r EXCEPT !.failed = TRUE]
             n == [a EXCEPT !.writer = FALSE]
  <2>1. a \in Match!Replay /\ a.records = r.records /\ a.meta = r.meta
    BY DEF Match!Replay
  <2>2. Match!Recorded(r, from, to, fails) = n
    BY <1>2 DEF Match!Recorded
  <2> HIDE DEF a
  <2>3. n \in Match!Replay /\ n.records = r.records /\ n.meta = r.meta /\ ~n.writer
    BY <2>1 DEF Match!Replay
  <2> HIDE DEF n
  <2> QED
    BY <2>2, <2>3
<1>3. CASE ~(r.failed \/ ~r.writer \/ from = to) /\ ~fails
  <2> DEFINE lines == IF r.lines = from THEN to ELSE Match!None
             n == [r EXCEPT !.lines = lines]
  <2>1. lines \in Nat \cup {Match!None} /\ (r.lines = from => lines = to)
    OBVIOUS
  <2>2. Match!Recorded(r, from, to, fails) = n
    BY <1>3 DEF Match!Recorded
  <2> HIDE DEF lines
  <2>3. n \in Match!Replay /\ n.records = r.records /\ n.meta = r.meta /\ n.lines = lines
        /\ n.writer = r.writer /\ n.failed = r.failed
    BY <2>1 DEF Match!Replay
  <2> HIDE DEF n
  <2> QED
    BY <1>3, <2>1, <2>2, <2>3
<1> QED
  BY <1>1, <1>2, <1>3

LEMMA FailsIs == \A fails \in Match!Fails : fails \in BOOLEAN
BY DEF Match!Fails

\* broadcast: the open replay follows the log, and the cursor of the actor with it.
LEMMA BroadcastIs ==
  ASSUME Match!MatchInv, pc \in {"loop", "collect"}, NEW to \in Nat, NEW fails \in Match!Fails,
         Match!Broadcast(cursor, to, fails)
  PROVE  /\ replay' \in Match!Replay /\ replay'.records = replay.records
         /\ replay'.meta = replay.meta /\ (replay'.writer => replay.meta /\ replay'.lines = to)
         /\ (replay'.failed => ~replay'.writer)
         /\ file' = (IF replay'.writer THEN "part" ELSE "none")
         /\ activeSeats' \subseteq activeSeats /\ degraded' \in BOOLEAN /\ mark' = to
<1>1. /\ replay' = Match!Recorded(replay, cursor, to, fails)
      /\ file' = (IF replay'.writer \/ file # "part" THEN file ELSE "none")
      /\ degraded' = (degraded \/ (replay'.failed /\ ~replay.failed))
      /\ activeSeats' \subseteq activeSeats /\ mark' = mark + (to - cursor)
  BY DEF Match!Broadcast
<1>2. /\ fails \in BOOLEAN /\ cursor \in Nat /\ replay \in Match!Replay
      /\ (replay.failed => ~replay.writer)
  BY MatchIsTyped, FailsIs DEF Match!MatchInv, Match!ReplayInv
<1>3. /\ replay' \in Match!Replay /\ replay'.records = replay.records /\ replay'.meta = replay.meta
      /\ (replay'.failed => ~replay'.writer)
      /\ replay'.writer => replay.writer /\ (replay.lines = cursor => replay'.lines = to)
  BY <1>1, <1>2, RecordedIs, Zenon
<1>4. /\ mark = cursor /\ (replay.writer => replay.lines = cursor)
      /\ file = (IF replay.writer THEN "part" ELSE "none") /\ (replay.writer => replay.meta)
  BY DEF Match!MatchInv, Match!ReplayInv, Match!DiskInv
<1>5. mark' = to
  BY <1>1, <1>2, <1>4
<1>6. file' = IF replay'.writer THEN "part" ELSE "none"
  BY <1>1, <1>3, <1>4
<1>7. degraded' \in BOOLEAN
  BY <1>1
<1> QED
  BY <1>1, <1>3, <1>4, <1>5, <1>6, <1>7

\* The actor is back in its loop once what the log gained is broadcast.
LEMMA LoopsOn ==
  ASSUME Match!MatchInv, pc \in {"loop", "collect"}, pc' = "loop", Match!Asked' = {},
         NEW fails \in Match!Fails, Match!Broadcast(cursor, machine'.log, fails),
         cursor' = machine'.log, machine' \in Match!Machine, machine'.kyoku = machine.kyoku,
         machine'.st = "complete" <=> machine.st = "complete", Match!AskInv',
         UNCHANGED <<outcome, link, notice, pending, bank, row, cleanup>>
  PROVE  Match!MatchInv'
<1>1. machine'.log \in Nat
  BY MachineIs
<1>2. /\ replay' \in Match!Replay /\ replay'.records = replay.records
      /\ replay'.meta = replay.meta /\ (replay'.writer => replay.meta /\ replay'.lines = machine'.log)
      /\ (replay'.failed => ~replay'.writer)
      /\ file' = (IF replay'.writer THEN "part" ELSE "none")
      /\ activeSeats' \subseteq activeSeats /\ degraded' \in BOOLEAN /\ mark' = machine'.log
  BY <1>1, BroadcastIs
<1>3. row = (IF replay.meta THEN "writing" ELSE "none") /\ ~cleanup
  BY DEF Match!MatchInv, Match!DiskInv
<1>4. Match!TypeOK'
  <2>1. outcome' \in {"running", "complete", "protocol_error", "panicked", "aborted"}
    BY DEF Match!MatchInv, Match!TypeOK
  <2>2. file' \in {"none", "part", "final"}
    BY <1>2
  <2>3. activeSeats' \subseteq Bots
    BY <1>2, MatchIsTyped
  <2> QED
    BY <1>1, <1>2, <2>1, <2>2, <2>3, MatchIsTyped DEF Match!TypeOK
<1>5. Match!ReplayInv'
  BY <1>2 DEF Match!MatchInv, Match!ReplayInv
<1>6. Match!DiskInv'
  BY <1>2, <1>3 DEF Match!DiskInv
<1>7. Match!RequestsAreOwed' /\ Match!CompletedReplayIsWhole'
  BY <1>3 DEF Match!RequestsAreOwed, Match!CompletedReplayIsWhole
<1> QED
  BY <1>4, <1>5, <1>6, <1>7 DEF Match!MatchInv

LEMMA CollectedKeeps ==
  ASSUME Match!MatchInv, Match!Collected
  PROVE  Match!MatchInv'
<1>1. /\ pc = "collect" /\ Match!Asked = {} /\ cursor' = machine.log /\ pc' = "loop"
      /\ UNCHANGED <<outcome, machine, link, notice, pending, bank, row, cleanup>>
  BY DEF Match!Collected, Match!clockVars
<1>2. PICK fails \in Match!Fails : Match!Broadcast(cursor, machine.log, fails)
  BY DEF Match!Collected
<1>3. activeSeats' \subseteq activeSeats
  BY <1>2 DEF Match!Broadcast
<1>4. Match!Asked' = {}
  BY <1>1 DEF Match!Asked
<1>5. Match!AskInv'
  BY <1>1, <1>3, <1>4 DEF Match!MatchInv, Match!AskInv
<1>6. Match!Broadcast(cursor, machine'.log, fails) /\ machine' \in Match!Machine
  BY <1>1, <1>2, MatchIsTyped
<1> QED
  BY <1>1, <1>4, <1>5, <1>6, LoopsOn

LEMMA ExpireKeeps ==
  ASSUME Match!Assumption, Match!MatchInv, Match!Expire
  PROVE  Match!MatchInv'
<1>1. /\ pc = "loop" /\ machine.st = "decide" /\ machine' \in Match!Resolutions(machine)
      /\ cursor' = machine'.log
      /\ UNCHANGED <<pc, outcome, link, notice, pending, bank, row, cleanup>>
  BY DEF Match!Expire, Match!clockVars
<1>2. PICK fails \in Match!Fails : Match!Broadcast(machine.log, machine'.log, fails)
  BY DEF Match!Expire
<1>3. /\ machine' \in Match!Machine /\ ~machine'.open /\ machine'.answered = {}
      /\ machine'.st \in {"decide", "held"} /\ machine'.kyoku = machine.kyoku
  BY <1>1, MatchIsTyped, Resolved
<1>4. cursor = machine.log /\ Match!Asked = {}
  BY <1>1 DEF Match!MatchInv, Match!ReplayInv, Match!AskInv
<1>5. Match!Asked' = {}
  BY <1>1, <1>4 DEF Match!Asked
<1>6. Match!AskInv'
  BY <1>1, <1>3, <1>5 DEF Match!AskInv
<1> QED
  BY <1>1, <1>2, <1>3, <1>4, <1>5, <1>6, LoopsOn

\* current_decision, then the Seats nobody plays answer.
LEMMA AbsentAnswer ==
  ASSUME Match!Assumption, Match!MatchInv, machine.st = "decide",
         machine' \in Match!Submitted(Match!Opened(machine), Match!Absent)
  PROVE  /\ machine' \in Match!Machine /\ machine'.st # "complete"
         /\ machine'.kyoku = machine.kyoku
         /\ \/ /\ machine.eligible \subseteq machine.answered \cup Match!Absent
               /\ ~machine'.open /\ machine'.answered = {}
            \/ /\ ~(machine.eligible \subseteq machine.answered \cup Match!Absent)
               /\ machine'.answered = machine.answered \cup (Match!Absent \cap machine.eligible)
               /\ machine'.st = "decide" /\ machine'.open /\ machine'.eligible = machine.eligible
<1> DEFINE m == Match!Opened(machine)
<1>1. /\ m \in Match!Machine /\ m.open /\ m.st = "decide" /\ m.eligible = machine.eligible
      /\ m.answered = machine.answered /\ m.kyoku = machine.kyoku
  BY MatchIsTyped, OpenedIs
<1> DEFINE N(n) ==
      /\ n \in Match!Machine /\ n.st # "complete" /\ n.kyoku = m.kyoku
      /\ \/ /\ m.eligible \subseteq m.answered \cup Match!Absent
            /\ ~n.open /\ n.answered = {}
         \/ /\ ~(m.eligible \subseteq m.answered \cup Match!Absent)
            /\ n.answered = m.answered \cup (Match!Absent \cap m.eligible) /\ n.st = "decide"
            /\ n.open = m.open /\ n.eligible = m.eligible /\ n.left = m.left
<1> HIDE DEF m
<1>2. \A n \in Match!Submitted(m, Match!Absent) : N(n)
  BY <1>1, Answers, Zenon
<1>3. N(machine')
  BY <1>2, Zenon DEF m
<1> QED
  BY <1>1, <1>3

LEMMA DefaultAllKeeps ==
  ASSUME Match!Assumption, Match!MatchInv, Match!DefaultAll
  PROVE  Match!MatchInv'
<1>1. /\ pc = "loop" /\ machine.st = "decide"
      /\ machine.eligible \subseteq machine.answered \cup Match!Absent
      /\ machine' \in Match!Submitted(Match!Opened(machine), Match!Absent)
      /\ cursor' = machine'.log
      /\ UNCHANGED <<pc, outcome, link, notice, pending, bank, row, cleanup>>
  BY DEF Match!DefaultAll, Match!Playable, Match!clockVars
<1>2. PICK fails \in Match!Fails : Match!Broadcast(machine.log, machine'.log, fails)
  BY DEF Match!DefaultAll
<1>3. /\ machine' \in Match!Machine /\ ~machine'.open /\ machine'.answered = {}
      /\ machine'.st # "complete" /\ machine'.kyoku = machine.kyoku
  BY <1>1, AbsentAnswer
<1>4. cursor = machine.log /\ Match!Asked = {}
  BY <1>1 DEF Match!MatchInv, Match!ReplayInv, Match!AskInv
<1>5. Match!Asked' = {}
  BY <1>1, <1>4 DEF Match!Asked
<1>6. Match!AskInv'
  BY <1>1, <1>3, <1>5 DEF Match!AskInv
<1> QED
  BY <1>1, <1>2, <1>3, <1>4, <1>5, <1>6, LoopsOn

\* The requests of a Decision: it was not open before, so nobody has answered it but
\* the Seats that are not played.
LEMMA AskKeeps ==
  ASSUME Match!Assumption, Match!MatchInv, Match!Ask
  PROVE  Match!MatchInv'
<1> DEFINE asked == machine.eligible \cap activeSeats
           reached == {s \in asked : link[s] = "up"}
<1>1. /\ pc = "loop" /\ machine.st = "decide" /\ (~machine.open \/ machine.left > 0)
      /\ ~(machine.eligible \subseteq machine.answered \cup Match!Absent)
      /\ machine' \in Match!Submitted(Match!Opened(machine), Match!Absent)
      /\ pending' = [s \in Bots |-> IF s \in reached THEN Grace + bank[s] ELSE Match!None]
      /\ activeSeats' = activeSeats \ (asked \ reached) /\ pc' = "collect"
      /\ UNCHANGED <<outcome, link, notice, bank, cursor, mark, replay, row, file, cleanup,
                     degraded>>
  BY DEF Match!Ask, Match!Playable, Match!diskVars
<1>2. reached \subseteq asked /\ asked \subseteq Bots
  BY MatchIsTyped
<1> HIDE DEF reached
<1>3. Match!Asked = {} /\ (machine.open => machine.left > 0)
  BY <1>1 DEF Match!MatchInv, Match!AskInv
<1>4. ~machine.open
  <2> SUFFICES ASSUME machine.open PROVE FALSE
    OBVIOUS
  <2>1. machine.eligible \cap activeSeats \subseteq machine.answered
    BY <1>1, <1>3 DEF Match!MatchInv, Match!AskInv
  <2> QED
    BY <1>1, <2>1 DEF Match!Absent
<1>5. machine.answered = {}
  BY <1>4 DEF Match!MatchInv, Match!AskInv
<1>6. /\ machine' \in Match!Machine /\ machine'.st = "decide" /\ machine'.kyoku = machine.kyoku
      /\ machine'.answered = Match!Absent /\ machine'.open /\ machine'.eligible = machine.eligible
  <2>1. Match!Absent \cap machine.eligible = Match!Absent
    BY DEF Match!Absent
  <2> QED
    BY <1>1, <1>5, <2>1, AbsentAnswer
<1>7. /\ pending' \in [Bots -> {Match!None} \cup 0 .. (Grace + Bank)] /\ Match!Asked' = reached
  <2>1. \A s \in Bots : Grace + bank[s] \in 0 .. (Grace + Bank)
    BY MatchIsTyped DEF Match!Assumption
  <2>2. Match!None \notin 0 .. (Grace + Bank)
    BY DEF Match!None, Match!Assumption
  <2> QED
    BY <1>1, <1>2, <2>1, <2>2 DEF Match!Asked
<1>8. Match!TypeOK'
  <2>1. outcome' \in {"running", "complete", "protocol_error", "panicked", "aborted"}
    BY <1>1 DEF Match!MatchInv, Match!TypeOK
  <2> QED
    BY <1>1, <1>6, <1>7, <2>1, MatchIsTyped DEF Match!TypeOK
<1>9. Match!RequestsAreOwed'
  BY <1>2, <1>6, <1>7 DEF Match!RequestsAreOwed, Match!Absent
<1>10. Match!AskInv'
  BY <1>1, <1>2, <1>6, <1>7 DEF Match!AskInv
<1>11. Match!ReplayInv'
  BY <1>1, <1>6 DEF Match!MatchInv, Match!ReplayInv
<1>12. Match!DiskInv' /\ Match!CompletedReplayIsWhole'
  BY <1>1 DEF Match!MatchInv, Match!DiskInv, Match!CompletedReplayIsWhole
<1> QED
  BY <1>8, <1>9, <1>10, <1>11, <1>12 DEF Match!MatchInv

-----------------------------------------------------------------------------
(* The Match: its start and its end *)

\* One field of the replay changes.
LEMMA WithWriter ==
  ASSUME NEW r \in Match!Replay, NEW v \in BOOLEAN
  PROVE  LET n == [r EXCEPT !.writer = v]
         IN  /\ n \in Match!Replay /\ n.writer = v /\ n.failed = r.failed /\ n.lines = r.lines
             /\ n.records = r.records /\ n.meta = r.meta
BY DEF Match!Replay

LEMMA WithFailed ==
  ASSUME NEW r \in Match!Replay, NEW v \in BOOLEAN
  PROVE  LET n == [r EXCEPT !.failed = v]
         IN  /\ n \in Match!Replay /\ n.writer = r.writer /\ n.failed = v /\ n.lines = r.lines
             /\ n.records = r.records /\ n.meta = r.meta
BY DEF Match!Replay

LEMMA WithRecords ==
  ASSUME NEW r \in Match!Replay, NEW v \in Nat
  PROVE  LET n == [r EXCEPT !.records = v]
         IN  /\ n \in Match!Replay /\ n.writer = r.writer /\ n.failed = r.failed
             /\ n.lines = r.lines /\ n.records = v /\ n.meta = r.meta
BY DEF Match!Replay

LEMMA WithMeta ==
  ASSUME NEW r \in Match!Replay, NEW v \in BOOLEAN
  PROVE  LET n == [r EXCEPT !.meta = v]
         IN  /\ n \in Match!Replay /\ n.writer = r.writer /\ n.failed = r.failed
             /\ n.lines = r.lines /\ n.records = r.records /\ n.meta = v
BY DEF Match!Replay

\* delete_metadata: the writer is closed, and a row that could not go is reported.
LEMMA DeletionIs ==
  ASSUME Match!MatchInv, pc \in {"loop", "collect"}, NEW fails \in Match!Fails,
         Match!DeleteMetadata(fails)
  PROVE  /\ replay' \in Match!Replay /\ ~replay'.writer /\ degraded' \in BOOLEAN
         /\ row' \in {"none", "writing"} /\ file' = "none"
         /\ row' = "writing" => degraded'
<1>1. /\ row = (IF replay.meta THEN "writing" ELSE "none")
      /\ file = (IF replay.writer THEN "part" ELSE "none")
  BY DEF Match!MatchInv, Match!DiskInv
<1>2. CASE replay.meta /\ ~fails
  <2> DEFINE a == [replay EXCEPT !.writer = FALSE]
  <2>1. a \in Match!Replay /\ ~a.writer
    BY MatchIsTyped, WithWriter
  <2>2. /\ replay' = [a EXCEPT !.meta = FALSE] /\ row' = "none" /\ file' = "none"
        /\ degraded' = degraded
    BY <1>2 DEF Match!DeleteMetadata
  <2> HIDE DEF a
  <2> QED
    BY <2>1, <2>2, WithMeta, MatchIsTyped
<1>3. CASE ~(replay.meta /\ ~fails)
  <2>1. /\ replay' = [replay EXCEPT !.writer = FALSE] /\ row' = row
        /\ file' = (IF file = "part" THEN "none" ELSE file)
        /\ degraded' = (degraded \/ replay.meta)
    BY <1>3 DEF Match!DeleteMetadata
  <2>2. replay' \in Match!Replay /\ ~replay'.writer
    BY <2>1, MatchIsTyped, WithWriter
  <2> QED
    BY <1>1, <2>1, <2>2
<1> QED
  BY <1>2, <1>3

\* The actor ends with its row gone, reported, or about to be deleted.
LEMMA EndKeeps ==
  ASSUME Match!MatchInv, pc # "over", pc' = "over", machine' \in Match!Machine,
         machine'.kyoku \in 1 .. MaxKyoku, ~machine'.open, machine'.answered = {},
         bank' \in [Bots -> 0 .. Bank], activeSeats' \subseteq Bots,
         outcome' \in {"complete", "protocol_error"}, cleanup' = replay'.meta,
         UNCHANGED <<link, notice, pending, cursor, mark>>,
         replay' \in Match!Replay, ~replay'.writer, degraded' \in BOOLEAN,
         row' \in {"none", "writing"}, file' = "none", row' = "writing" => degraded'
  PROVE  Match!MatchInv'
<1>1. Match!TypeOK'
  <2>1. pc' \in {"open", "loop", "collect", "completing", "over"}
    OBVIOUS
  <2>2. cleanup' \in BOOLEAN
    BY ReplayIs
  <2> QED
    BY <2>1, <2>2, MatchIsTyped DEF Match!TypeOK
<1>2. Match!AskInv' /\ Match!RequestsAreOwed'
  BY DEF Match!AskInv, Match!RequestsAreOwed
<1>3. Match!ReplayInv'
  BY DEF Match!MatchInv, Match!ReplayInv
<1>4. Match!DiskInv' /\ Match!CompletedReplayIsWhole'
  BY DEF Match!DiskInv, Match!CompletedReplayIsWhole
<1> QED
  BY <1>1, <1>2, <1>3, <1>4 DEF Match!MatchInv

\* A machine that is not deciding has no Decision open.
LEMMA NothingIsOpen ==
  ASSUME Match!MatchInv, machine.st # "decide"
  PROVE  ~machine.open /\ machine.answered = {}
BY MatchIsTyped, MachineIs DEF Match!MatchInv, Match!AskInv

LEMMA ReleaseKeeps ==
  ASSUME Match!Assumption, Match!MatchInv, Match!Release
  PROVE  Match!MatchInv'
<1>1. /\ pc = "loop" /\ machine.st = "held" /\ machine' \in Match!Releases(machine)
      /\ UNCHANGED <<link, notice, pending>>
  BY DEF Match!Release
<1>2. ~machine.open /\ machine.answered = {} /\ machine.kyoku \in 1 .. MaxKyoku
  BY <1>1, NothingIsOpen DEF Match!MatchInv, Match!ReplayInv
<1>3. /\ machine' \in Match!Machine /\ ~machine'.open /\ machine'.answered = {}
      /\ machine'.kyoku \in 1 .. MaxKyoku
      /\ \/ machine'.st = "complete" /\ machine.kyoku = MaxKyoku
         \/ machine'.st = "decide" /\ machine'.kyoku = machine.kyoku + 1
  BY <1>1, <1>2, MatchIsTyped, ReleasesAre
<1>4. CASE Match!Healthy
  <2>1. /\ bank' = [s \in Bots |-> Bank] /\ cursor' = machine'.log
        /\ mark' = mark + (machine'.log - machine.log)
        /\ UNCHANGED <<pc, outcome, activeSeats, row, cleanup>>
    BY <1>4 DEF Match!Release, Match!Refilled
  <2> DEFINE joined == [replay EXCEPT !.records = @ + 1]
  <2>2. PICK fails \in Match!Fails :
          LET kept == Match!Recorded(joined, machine.log, machine'.log, fails)
          IN  /\ replay' = kept
              /\ file' = (IF kept.writer \/ file # "part" THEN file ELSE "none")
              /\ degraded' = (degraded \/ (kept.failed /\ ~replay.failed))
    BY <1>4 DEF Match!Release
  <2>3. /\ joined \in Match!Replay /\ joined.writer = replay.writer
        /\ joined.failed = replay.failed /\ joined.lines = replay.lines
        /\ joined.records = replay.records + 1 /\ joined.meta = replay.meta
    <3>1. replay.records + 1 \in Nat /\ replay \in Match!Replay
      BY MatchIsTyped, ReplayIs
    <3> QED
      BY <3>1, WithRecords
  <2> HIDE DEF joined
  <2>4. /\ cursor = machine.log /\ mark = cursor /\ (replay.failed => ~replay.writer)
        /\ (replay.writer => replay.lines = cursor) /\ replay.records = machine.kyoku - 1
    BY <1>1 DEF Match!MatchInv, Match!ReplayInv
  <2>5. machine.log \in Nat /\ machine'.log \in Nat /\ machine.kyoku \in Nat /\ fails \in BOOLEAN
    BY <1>3, MachineIs, MatchIsTyped, FailsIs
  <2>6. LET n == Match!Recorded(joined, machine.log, machine'.log, fails)
        IN  /\ n \in Match!Replay /\ n.records = joined.records /\ n.meta = joined.meta
            /\ n.failed => ~n.writer
            /\ n.writer => joined.writer /\ (joined.lines = machine.log => n.lines = machine'.log)
    BY <2>3, <2>4, <2>5, RecordedIs, Zenon
  <2>7. /\ replay' \in Match!Replay /\ replay'.records = machine.kyoku
        /\ replay'.meta = replay.meta /\ (replay'.failed => ~replay'.writer)
        /\ (replay'.writer => replay.writer /\ replay'.lines = machine'.log)
    BY <2>2, <2>3, <2>4, <2>5, <2>6
  <2>8. /\ row = (IF replay.meta THEN "writing" ELSE "none") /\ ~cleanup
        /\ file = (IF replay.writer THEN "part" ELSE "none") /\ (replay.writer => replay.meta)
    BY <1>1 DEF Match!MatchInv, Match!DiskInv
  <2>9. file' = (IF replay'.writer THEN "part" ELSE "none") /\ degraded' \in BOOLEAN
    BY <2>2, <2>7, <2>8
  <2>10. mark' = machine'.log
    BY <2>1, <2>4, <2>5
  <2>11. Match!TypeOK'
    <3>1. outcome' \in {"running", "complete", "protocol_error", "panicked", "aborted"}
      BY <2>1 DEF Match!MatchInv, Match!TypeOK
    <3>2. bank' \in [Bots -> 0 .. Bank] /\ file' \in {"none", "part", "final"}
      BY <2>1, <2>9 DEF Match!Assumption
    <3> QED
      BY <1>1, <1>3, <2>1, <2>5, <2>7, <2>9, <2>10, <3>1, <3>2, MatchIsTyped DEF Match!TypeOK
  <2>12. Match!AskInv' /\ Match!RequestsAreOwed'
    <3>1. Match!Asked' = {}
      BY <1>1 DEF Match!MatchInv, Match!AskInv, Match!Asked
    <3> QED
      BY <1>1, <1>3, <2>1, <3>1 DEF Match!AskInv, Match!RequestsAreOwed
  <2>13. Match!ReplayInv'
    BY <1>1, <1>3, <2>1, <2>5, <2>7, <2>10 DEF Match!ReplayInv
  <2>14. Match!DiskInv' /\ Match!CompletedReplayIsWhole'
    BY <1>1, <2>1, <2>7, <2>8, <2>9 DEF Match!DiskInv, Match!CompletedReplayIsWhole
  <2> QED
    BY <2>11, <2>12, <2>13, <2>14 DEF Match!MatchInv
<1>5. CASE ~Match!Healthy
  <2>1. Match!Lose /\ UNCHANGED <<activeSeats, bank, cursor, mark>>
    BY <1>5 DEF Match!Release
  <2>2. pc' = "over" /\ outcome' = "protocol_error" /\ cleanup' = replay'.meta
    BY <2>1 DEF Match!Lose, Match!Ends
  <2>3. PICK fails \in Match!Fails : Match!DeleteMetadata(fails)
    BY <2>1 DEF Match!Lose
  <2>4. /\ replay' \in Match!Replay /\ ~replay'.writer /\ degraded' \in BOOLEAN
        /\ row' \in {"none", "writing"} /\ file' = "none"
        /\ row' = "writing" => degraded'
    BY <1>1, <2>3, DeletionIs
  <2> QED
    BY <1>1, <1>3, <2>1, <2>2, <2>4, MatchIsTyped, EndKeeps
<1> QED
  BY <1>4, <1>5

LEMMA EndingKeeps ==
  ASSUME Match!MatchInv, Match!Finish
  PROVE  Match!MatchInv'
<1>1. /\ pc = "loop" /\ machine.st = "complete"
      /\ UNCHANGED <<machine, link, notice, activeSeats, pending, bank, cursor, mark>>
  BY DEF Match!Finish, Match!playerVars, Match!clockVars
<1>2. /\ ~machine'.open /\ machine'.answered = {} /\ machine'.kyoku \in 1 .. MaxKyoku
      /\ machine' \in Match!Machine
  BY <1>1, NothingIsOpen, MatchIsTyped DEF Match!MatchInv, Match!ReplayInv
<1>3. /\ row = (IF replay.meta THEN "writing" ELSE "none") /\ ~cleanup
      /\ (replay.writer => replay.meta)
  BY <1>1 DEF Match!MatchInv, Match!DiskInv
<1>4. ASSUME NEW fails \in Match!Fails, Match!DeleteMetadata(fails), Match!Ends("complete")
      PROVE  Match!MatchInv'
  <2>1. pc' = "over" /\ outcome' = "complete" /\ cleanup' = replay'.meta
    BY <1>4 DEF Match!Ends
  <2>2. /\ replay' \in Match!Replay /\ ~replay'.writer /\ degraded' \in BOOLEAN
        /\ row' \in {"none", "writing"} /\ file' = "none"
        /\ row' = "writing" => degraded'
    BY <1>1, <1>4, DeletionIs
  <2> QED
    BY <1>1, <1>2, <2>1, <2>2, MatchIsTyped, EndKeeps
<1>5. ASSUME replay.writer, file' = "final", replay' = [replay EXCEPT !.writer = FALSE],
             pc' = "completing", UNCHANGED <<outcome, row, cleanup, degraded>>
      PROVE  Match!MatchInv'
  <2>1. /\ replay' \in Match!Replay /\ ~replay'.writer /\ replay'.failed = replay.failed
        /\ replay'.lines = replay.lines /\ replay'.records = replay.records
        /\ replay'.meta = replay.meta
    BY <1>5, MatchIsTyped, WithWriter
  <2>2. Match!TypeOK'
    <3>1. outcome' \in {"running", "complete", "protocol_error", "panicked", "aborted"}
      BY <1>5 DEF Match!MatchInv, Match!TypeOK
    <3> QED
      BY <1>1, <1>5, <2>1, <3>1, MatchIsTyped DEF Match!TypeOK
  <2>3. Match!AskInv' /\ Match!RequestsAreOwed'
    <3>1. Match!Asked' = {}
      BY <1>1 DEF Match!MatchInv, Match!AskInv, Match!Asked
    <3> QED
      BY <1>2, <1>5, <3>1 DEF Match!AskInv, Match!RequestsAreOwed
  <2>4. Match!ReplayInv'
    BY <1>1, <1>5, <2>1 DEF Match!MatchInv, Match!ReplayInv
  <2>5. Match!DiskInv' /\ Match!CompletedReplayIsWhole'
    BY <1>3, <1>5, <2>1 DEF Match!DiskInv, Match!CompletedReplayIsWhole
  <2> QED
    BY <2>2, <2>3, <2>4, <2>5 DEF Match!MatchInv
<1>6. ASSUME NEW fails \in Match!Fails, replay.writer, file' = "none", degraded' = TRUE,
             row' = (IF fails THEN row ELSE "none"),
             replay' = [replay EXCEPT !.writer = FALSE, !.meta = fails], Match!Ends("complete")
      PROVE  Match!MatchInv'
  <2> DEFINE a == [replay EXCEPT !.writer = FALSE]
  <2>1. a \in Match!Replay /\ ~a.writer
    BY MatchIsTyped, WithWriter
  <2>2. replay' = [a EXCEPT !.meta = fails]
    BY <1>6
  <2> HIDE DEF a
  <2>3. replay' \in Match!Replay /\ ~replay'.writer
    BY <2>1, <2>2, FailsIs, WithMeta
  <2>4. pc' = "over" /\ outcome' = "complete" /\ cleanup' = replay'.meta
    BY <1>6 DEF Match!Ends
  <2>5. row' \in {"none", "writing"}
    BY <1>3, <1>6
  <2> QED
    BY <1>1, <1>2, <1>6, <2>3, <2>4, <2>5, MatchIsTyped, EndKeeps
<1> QED
  BY <1>4, <1>5, <1>6 DEF Match!Finish

\* What is true of the row, the file and the replay once its writer is closed.
LEMMA CompletingIs ==
  ASSUME Match!MatchInv, pc = "completing"
  PROVE  /\ machine.st = "complete" /\ ~machine.open /\ machine.answered = {}
         /\ row = "writing" /\ file = "final" /\ replay.meta
         /\ replay.lines = machine.log /\ replay.records = MaxKyoku
         /\ machine.kyoku \in 1 .. MaxKyoku /\ mark = cursor /\ (replay.failed => ~replay.writer)
<1>1. machine.st = "complete" /\ replay.lines = machine.log
  BY DEF Match!MatchInv, Match!ReplayInv
<1> QED
  BY <1>1, NothingIsOpen DEF Match!MatchInv, Match!ReplayInv, Match!DiskInv

LEMMA CompleteKeeps ==
  ASSUME Match!MatchInv, Match!Complete
  PROVE  Match!MatchInv'
<1>1. /\ pc = "completing" /\ pc' = "over" /\ outcome' = "complete" /\ cleanup' = replay'.meta
      /\ UNCHANGED <<machine, link, notice, activeSeats, pending, bank, cursor, mark>>
  BY DEF Match!Complete, Match!Ends, Match!playerVars, Match!clockVars
<1>2. /\ machine.st = "complete" /\ ~machine.open /\ machine.answered = {}
      /\ row = "writing" /\ file = "final" /\ replay.meta
      /\ replay.lines = machine.log /\ replay.records = MaxKyoku
      /\ machine.kyoku \in 1 .. MaxKyoku /\ mark = cursor /\ (replay.failed => ~replay.writer)
  BY <1>1, CompletingIs
<1>3. /\ replay' \in Match!Replay /\ replay'.lines = replay.lines /\ replay'.records = replay.records
      /\ replay'.failed = replay.failed /\ replay'.writer = replay.writer
  <2>1. CASE replay' = [replay EXCEPT !.meta = FALSE]
    BY <2>1, MatchIsTyped, WithMeta
  <2>2. CASE replay' = replay
    BY <2>2, MatchIsTyped
  <2> QED
    BY <2>1, <2>2 DEF Match!Complete
<1>4. \/ row' = "completed" /\ file' = "final" /\ degraded' = degraded
      \/ degraded' = TRUE /\ file' = "none" /\ row' \in {"none", "writing"}
      \/ degraded' = TRUE /\ file' = "final" /\ row' = "writing"
  BY <1>2 DEF Match!Complete
<1>5. Match!TypeOK'
  <2>1. /\ pc' \in {"open", "loop", "collect", "completing", "over"}
        /\ outcome' \in {"running", "complete", "protocol_error", "panicked", "aborted"}
    BY <1>1
  <2>2. /\ row' \in {"none", "writing", "completed"} /\ file' \in {"none", "part", "final"}
        /\ degraded' \in BOOLEAN /\ cleanup' \in BOOLEAN
    BY <1>1, <1>3, <1>4, MatchIsTyped, ReplayIs
  <2> QED
    BY <1>1, <1>3, <2>1, <2>2, MatchIsTyped DEF Match!TypeOK
<1>6. Match!AskInv' /\ Match!RequestsAreOwed'
  BY <1>1, <1>2 DEF Match!AskInv, Match!RequestsAreOwed
<1>7. Match!ReplayInv'
  BY <1>1, <1>2, <1>3 DEF Match!ReplayInv
<1>8. Match!DiskInv'
  BY <1>1, <1>4 DEF Match!DiskInv
<1>9. Match!CompletedReplayIsWhole'
  BY <1>1, <1>2, <1>3, <1>4 DEF Match!CompletedReplayIsWhole
<1> QED
  BY <1>5, <1>6, <1>7, <1>8, <1>9 DEF Match!MatchInv

LEMMA AbortKeeps ==
  ASSUME Match!MatchInv, Match!Abort
  PROVE  Match!MatchInv'
<1>1. /\ pc \in {"collect", "completing"} /\ pc' = "over" /\ outcome' = "aborted"
      /\ cleanup' = replay'.meta /\ replay' = [replay EXCEPT !.writer = FALSE]
      /\ file' = (IF file = "part" THEN "none" ELSE file)
      /\ row' \in (IF pc = "completing" THEN {row, "completed"} ELSE {row})
      /\ UNCHANGED <<machine, link, notice, activeSeats, pending, bank, cursor, mark, degraded>>
  BY DEF Match!Abort, Match!Ends, Match!playerVars, Match!clockVars
<1>2. /\ replay' \in Match!Replay /\ ~replay'.writer /\ replay'.lines = replay.lines
      /\ replay'.records = replay.records /\ replay'.meta = replay.meta
  BY <1>1, MatchIsTyped, WithWriter
<1>3. \/ row' = "completed" /\ pc = "completing"
      \/ row' = "writing" /\ replay.meta
      \/ row' = "none" /\ file' = "none"
  <2>1. CASE pc = "collect"
    BY <1>1, <2>1 DEF Match!MatchInv, Match!DiskInv
  <2>2. CASE pc = "completing"
    BY <1>1, <2>2, CompletingIs
  <2> QED
    BY <1>1, <2>1, <2>2
<1>4. Match!TypeOK'
  <2>1. /\ pc' \in {"open", "loop", "collect", "completing", "over"}
        /\ outcome' \in {"running", "complete", "protocol_error", "panicked", "aborted"}
    BY <1>1
  <2>2. /\ row' \in {"none", "writing", "completed"} /\ file' \in {"none", "part", "final"}
        /\ cleanup' \in BOOLEAN
    BY <1>1, <1>2, <1>3, MatchIsTyped, ReplayIs
  <2> QED
    BY <1>1, <1>2, <2>1, <2>2, MatchIsTyped DEF Match!TypeOK
<1>5. Match!AskInv' /\ Match!RequestsAreOwed'
  BY <1>1 DEF Match!MatchInv, Match!AskInv, Match!RequestsAreOwed
<1>6. Match!ReplayInv'
  BY <1>1, <1>2 DEF Match!MatchInv, Match!ReplayInv
<1>7. Match!DiskInv'
  BY <1>1, <1>2, <1>3 DEF Match!DiskInv
<1>8. Match!CompletedReplayIsWhole'
  <2>1. CASE pc = "completing"
    BY <1>1, <1>2, <2>1, CompletingIs DEF Match!CompletedReplayIsWhole
  <2>2. CASE pc = "collect"
    BY <1>3, <2>2 DEF Match!CompletedReplayIsWhole
  <2> QED
    BY <1>1, <2>1, <2>2
<1> QED
  BY <1>4, <1>5, <1>6, <1>7, <1>8 DEF Match!MatchInv

LEMMA CleanupKeeps ==
  ASSUME Match!MatchInv, Match!Cleanup
  PROVE  Match!MatchInv'
<1>1. /\ cleanup /\ cleanup' = FALSE
      /\ UNCHANGED <<pc, outcome, machine, link, notice, activeSeats, pending, bank, cursor, mark,
                     replay>>
  BY DEF Match!Cleanup, Match!playerVars, Match!clockVars
<1>2. pc = "over"
  BY <1>1 DEF Match!MatchInv, Match!DiskInv
<1>3. \/ degraded' = TRUE /\ row' = row /\ file' = file
      \/ row = "writing" /\ row' = "none" /\ file' = "none" /\ degraded' = degraded
      \/ row # "writing" /\ row' = row /\ file' = file /\ degraded' = degraded
  BY DEF Match!Cleanup
<1>4. Match!TypeOK'
  <2>1. /\ row' \in {"none", "writing", "completed"} /\ file' \in {"none", "part", "final"}
        /\ degraded' \in BOOLEAN /\ cleanup' \in BOOLEAN
    BY <1>1, <1>3, MatchIsTyped
  <2> QED
    BY <1>1, <2>1 DEF Match!MatchInv, Match!TypeOK
<1>5. Match!AskInv' /\ Match!RequestsAreOwed'
  BY <1>1, <1>2 DEF Match!MatchInv, Match!AskInv, Match!RequestsAreOwed
<1>6. Match!ReplayInv'
  BY <1>1 DEF Match!MatchInv, Match!ReplayInv
<1>7. Match!DiskInv'
  BY <1>1, <1>2, <1>3 DEF Match!MatchInv, Match!DiskInv
<1>8. Match!CompletedReplayIsWhole'
  BY <1>1, <1>3 DEF Match!MatchInv, Match!CompletedReplayIsWhole
<1> QED
  BY <1>4, <1>5, <1>6, <1>7, <1>8 DEF Match!MatchInv

\* start_batch opens the row, run broadcasts the start of the Match.
LEMMA OpenKeeps ==
  ASSUME Match!MatchInv, Match!Open
  PROVE  Match!MatchInv'
<1>1. /\ pc = "open" /\ activeSeats' = {s \in activeSeats : link[s] = "up"}
      /\ cursor' = machine.log /\ mark' = machine.log
      /\ UNCHANGED <<machine, link, notice, pending, bank>>
  BY DEF Match!Open, Match!clockVars
<1> DEFINE opened(fails) == [replay EXCEPT !.meta = ~fails, !.writer = ~fails, !.failed = fails]
           kept(fails, lost) == Match!Recorded(opened(fails), 0, machine.log, lost)
           writing(fails, stays) == ~fails /\ (Match!Healthy \/ stays)
           N(fails, lost, stays) ==
             /\ replay' = [kept(fails, lost) EXCEPT !.writer = @ /\ Match!Healthy,
                                                    !.meta = writing(fails, stays)]
             /\ row' = (IF writing(fails, stays) THEN "writing" ELSE "none")
             /\ file' = (IF replay'.writer THEN "part" ELSE "none")
             /\ degraded' = (kept(fails, lost).failed \/ (~Match!Healthy /\ writing(fails, stays)))
             /\ IF Match!Healthy THEN pc' = "loop" /\ UNCHANGED <<outcome, cleanup>>
                                 ELSE Match!Ends("protocol_error")
<1>2. PICK fails \in Match!Fails, lost \in Match!Fails, stays \in Match!Fails : N(fails, lost, stays)
  BY DEF Match!Open
<1>3. fails \in BOOLEAN /\ lost \in BOOLEAN /\ stays \in BOOLEAN
  BY FailsIs
<1> DEFINE o == opened(fails)
           k == kept(fails, lost)
           w == writing(fails, stays)
<1>4. /\ replay.records = machine.kyoku - 1 /\ machine.kyoku \in 1 .. MaxKyoku
      /\ machine.st # "complete" /\ replay.lines = 0 /\ ~cleanup /\ ~machine.open
      /\ machine.answered = {} /\ Match!Asked = {}
  BY <1>1 DEF Match!MatchInv, Match!ReplayInv, Match!DiskInv, Match!AskInv
<1>5. /\ o \in Match!Replay /\ o.writer = ~fails /\ o.failed = fails /\ o.lines = 0
      /\ o.records = replay.records
  <2> DEFINE a == [replay EXCEPT !.meta = ~fails]
             b == [a EXCEPT !.writer = ~fails]
  <2>1. a \in Match!Replay /\ a.lines = 0 /\ a.records = replay.records
    BY <1>3, <1>4, MatchIsTyped, WithMeta
  <2>2. o = [b EXCEPT !.failed = fails]
    OBVIOUS
  <2> HIDE DEF a
  <2>3. b \in Match!Replay /\ b.lines = 0 /\ b.records = replay.records /\ b.writer = ~fails
    BY <1>3, <2>1, WithWriter
  <2> HIDE DEF b, o
  <2> QED
    BY <1>3, <2>2, <2>3, WithFailed
<1>6. machine.log \in Nat
  BY MatchIsTyped, MachineIs
<1>7. k = Match!Recorded(o, 0, machine.log, lost)
  OBVIOUS
<1>8. w = (~fails /\ (Match!Healthy \/ stays)) /\ w \in BOOLEAN
  BY <1>3
<1>9. /\ replay' = [k EXCEPT !.writer = @ /\ Match!Healthy, !.meta = w]
      /\ row' = (IF w THEN "writing" ELSE "none")
      /\ file' = (IF replay'.writer THEN "part" ELSE "none")
      /\ degraded' = (k.failed \/ (~Match!Healthy /\ w))
      /\ IF Match!Healthy THEN pc' = "loop" /\ UNCHANGED <<outcome, cleanup>>
                          ELSE Match!Ends("protocol_error")
  BY <1>2
<1> HIDE DEF k, w, o, N, opened, kept, writing
<1>10. /\ k \in Match!Replay /\ k.records = replay.records
       /\ (k.failed => ~k.writer) /\ (k.writer => ~fails /\ k.lines = machine.log)
  <2> DEFINE R(from) ==
        LET n == Match!Recorded(o, from, machine.log, lost)
        IN  /\ n \in Match!Replay /\ n.records = o.records /\ n.meta = o.meta
            /\ n.failed => ~n.writer
            /\ n.writer => o.writer /\ (o.lines = from => n.lines = machine.log)
  <2>1. o \in Match!Replay /\ (o.failed => ~o.writer)
    BY <1>5
  <2>2. \A from \in Nat : R(from)
    BY <1>3, <1>6, <2>1, RecordedIs, Zenon
  <2>3. R(0)
    BY <2>2
  <2> QED
    BY <1>5, <1>7, <2>3
<1>11. Match!Healthy \in BOOLEAN
  BY DEF Match!Healthy
<1>12. /\ replay' \in Match!Replay /\ replay'.records = replay.records /\ replay'.lines = k.lines
       /\ replay'.writer = (k.writer /\ Match!Healthy) /\ replay'.failed = k.failed
       /\ replay'.meta = w
  <2> DEFINE a == [k EXCEPT !.writer = k.writer /\ Match!Healthy]
  <2>1. (k.writer /\ Match!Healthy) \in BOOLEAN
    OBVIOUS
  <2>2. /\ a \in Match!Replay /\ a.records = k.records /\ a.lines = k.lines
        /\ a.writer = (k.writer /\ Match!Healthy) /\ a.failed = k.failed
    BY <1>10, <2>1, WithWriter
  <2>3. replay' = [a EXCEPT !.meta = w]
    BY <1>9
  <2> HIDE DEF a
  <2> QED
    BY <1>8, <1>10, <2>2, <2>3, WithMeta
<1>13. degraded' \in BOOLEAN /\ (w /\ ~Match!Healthy => degraded')
  BY <1>9
<1>14. Match!TypeOK'
  <2>1. /\ pc' \in {"open", "loop", "collect", "completing", "over"} /\ cleanup' \in BOOLEAN
        /\ outcome' \in {"running", "complete", "protocol_error", "panicked", "aborted"}
    <3>1. outcome \in {"running", "complete", "protocol_error", "panicked", "aborted"}
      BY DEF Match!MatchInv, Match!TypeOK
    <3> QED
      BY <1>8, <1>9, <1>12, <3>1, MatchIsTyped DEF Match!Ends
  <2>2. row' \in {"none", "writing", "completed"} /\ file' \in {"none", "part", "final"}
    BY <1>9
  <2>3. activeSeats' \subseteq Bots
    BY <1>1, MatchIsTyped
  <2> QED
    BY <1>1, <1>6, <1>12, <1>13, <2>1, <2>2, <2>3, MatchIsTyped DEF Match!TypeOK
<1>15. Match!AskInv' /\ Match!RequestsAreOwed'
  <2>1. Match!Asked' = {}
    BY <1>1, <1>4 DEF Match!Asked
  <2>2. pc' # "collect"
    BY <1>9 DEF Match!Ends
  <2> QED
    BY <1>1, <1>4, <2>1, <2>2 DEF Match!AskInv, Match!RequestsAreOwed
<1>16. CASE Match!Healthy
  <2>1. pc' = "loop" /\ ~cleanup' /\ (replay'.writer => w)
    BY <1>4, <1>8, <1>9, <1>10, <1>12, <1>16
  <2>2. Match!ReplayInv'
    BY <1>1, <1>4, <1>10, <1>12, <2>1 DEF Match!ReplayInv
  <2>3. Match!DiskInv'
    BY <1>9, <1>12, <2>1 DEF Match!DiskInv
  <2>4. Match!CompletedReplayIsWhole'
    BY <1>9 DEF Match!CompletedReplayIsWhole
  <2> QED
    BY <1>14, <1>15, <2>2, <2>3, <2>4 DEF Match!MatchInv
<1>17. CASE ~Match!Healthy
  <2>1. pc' = "over" /\ ~replay'.writer /\ file' = "none"
    BY <1>9, <1>12, <1>17 DEF Match!Ends
  <2>2. Match!ReplayInv'
    BY <1>1, <1>4, <2>1 DEF Match!ReplayInv
  <2>3. Match!DiskInv'
    BY <1>9, <1>13, <1>17, <2>1 DEF Match!DiskInv
  <2>4. Match!CompletedReplayIsWhole'
    BY <1>9 DEF Match!CompletedReplayIsWhole
  <2> QED
    BY <1>14, <1>15, <2>2, <2>3, <2>4 DEF Match!MatchInv
<1> QED
  BY <1>16, <1>17

-----------------------------------------------------------------------------
(* The Match: the whole *)

LEMMA MatchStarts ==
  ASSUME Match!Assumption, Match!Init
  PROVE  Match!MatchInv
<1>1. PICK e \in Match!Offers :
         machine = [st |-> "decide", open |-> FALSE, eligible |-> e, answered |-> {},
                    left |-> 0, turn |-> 1, kyoku |-> 1, log |-> 1]
  BY DEF Match!Init
<1>2. /\ machine \in Match!Machine /\ machine.st = "decide" /\ ~machine.open
      /\ machine.answered = {} /\ machine.kyoku = 1
  <2>1. e \in SUBSET Seats /\ 0 \in 0 .. TurnTime
    BY DEF Match!Offers, Match!Assumption
  <2> QED
    BY <1>1, <2>1 DEF Match!Machine
<1>3. /\ replay \in Match!Replay /\ ~replay.failed /\ replay.lines = 0 /\ replay.records = 0
      /\ pc = "open" /\ row = "none" /\ file = "part" /\ ~cleanup /\ mark = 0 /\ cursor = 0
      /\ Match!Asked = {}
  BY DEF Match!Init, Match!Replay, Match!Asked
<1>4. Match!TypeOK
  <2>1. /\ pending \in [Bots -> {Match!None} \cup 0 .. (Grace + Bank)] /\ bank \in [Bots -> 0 .. Bank]
        /\ link \in [Bots -> {"up", "slow", "gone"}]
    BY DEF Match!Init, Match!Assumption
  <2>2. /\ notice \subseteq Bots /\ activeSeats \subseteq Bots /\ outcome = "running"
        /\ degraded = FALSE /\ cleanup = FALSE
    BY DEF Match!Init
  <2> QED
    BY <1>2, <1>3, <2>1, <2>2 DEF Match!TypeOK
<1>5. Match!AskInv /\ Match!RequestsAreOwed
  BY <1>2, <1>3 DEF Match!AskInv, Match!RequestsAreOwed
<1>6. Match!ReplayInv
  BY <1>2, <1>3 DEF Match!ReplayInv, Match!Assumption
<1>7. Match!DiskInv /\ Match!CompletedReplayIsWhole
  BY <1>2, <1>3 DEF Match!DiskInv, Match!CompletedReplayIsWhole
<1> QED
  BY <1>4, <1>5, <1>6, <1>7 DEF Match!MatchInv

LEMMA MatchSteps ==
  ASSUME Match!Assumption, Match!MatchInv, Match!Next
  PROVE  Match!MatchInv'
<1>1. CASE Match!Actor
  BY <1>1, OpenKeeps, ReleaseKeeps, ExpireKeeps, DefaultAllKeeps, AskKeeps, TimeoutKeeps,
     CollectedKeeps, EndingKeeps, CompleteKeeps DEF Match!Actor
<1>2. CASE Match!Tick \/ Match!Cleanup \/ Match!Abort
  BY <1>2, TickKeeps, CleanupKeeps, AbortKeeps
<1>3. ASSUME NEW s \in Bots,
             \/ Match!Reply(s) \/ Match!BadReply(s) \/ Match!LateReply(s) \/ Match!Disconnect(s)
             \/ Match!SlowDown(s) \/ Match!Leave(s)
      PROVE  Match!MatchInv'
  BY <1>3, ReplyKeeps, BadReplyKeeps, LateReplyKeeps, DisconnectKeeps, SocketsKeep
<1> QED
  BY <1>1, <1>2, <1>3 DEF Match!Next, Match!System

LEMMA MatchStutters ==
  ASSUME Match!MatchInv, UNCHANGED matchVars
  PROVE  Match!MatchInv'
<1>1. Match!Asked' = Match!Asked
  BY DEF matchVars, Match!Asked
<1>2. Match!TypeOK'
  BY DEF matchVars, Match!MatchInv, Match!TypeOK
<1>3. Match!AskInv' /\ Match!RequestsAreOwed'
  BY <1>1 DEF matchVars, Match!MatchInv, Match!AskInv, Match!RequestsAreOwed
<1>4. Match!ReplayInv' /\ Match!DiskInv' /\ Match!CompletedReplayIsWhole'
  BY DEF matchVars, Match!MatchInv, Match!ReplayInv, Match!DiskInv, Match!CompletedReplayIsWhole
<1> QED
  BY <1>2, <1>3, <1>4 DEF Match!MatchInv

MatchHolds == part = "match" => Match!MatchInv

LEMMA MatchHoldsThroughout == Spec => []MatchHolds
<1>1. Init => MatchHolds
  BY MatchStarts, MatchAssumption DEF Init, MatchHolds
<1>2. MatchHolds /\ [Next]_vars => MatchHolds'
  <2> SUFFICES ASSUME MatchHolds, [Next]_vars, part' = "match" PROVE Match!MatchInv'
    BY DEF MatchHolds
  <2>1. CASE OfMatch(Match!Next)
    BY <2>1, MatchSteps, MatchAssumption DEF OfMatch, MatchHolds
  <2>2. CASE OfQueue(Queue!Next)
    BY <2>2 DEF OfQueue
  <2>3. CASE UNCHANGED vars
    BY <2>3, MatchStutters DEF MatchHolds, vars
  <2> QED
    BY <2>1, <2>2, <2>3 DEF Next
<1> QED
  BY <1>1, <1>2, PTL DEF Spec

\* No Bot is asked twice for one Decision and no reply meets another one, for any Bots,
\* deadlines and interleaving of replies, timeouts and departures (compat.rs
\* CompatMatch::collect, MjaiAdapter::submit_reply).
THEOREM BotsAreAskedOnce == Spec => []RequestsAreOwed
<1>1. MatchHolds => RequestsAreOwed
  BY DEF MatchHolds, RequestsAreOwed, Match!MatchInv
<1> QED
  BY <1>1, MatchHoldsThroughout, PTL

\* A completed ranked replay is whole and one that is given up is reported, for any
\* length of the Match and wherever the disk or the database fails (compat.rs
\* CompatMatch::run, CompatReplay::finish, delete_metadata).
THEOREM ReplaysAreSafe == Spec => []ReplaysAreKeptOrReported
<1>1. MatchHolds => ReplaysAreKeptOrReported
  <2>1. Match!DiskInv => Match!NoRowLeftSilently
    BY DEF Match!DiskInv, Match!NoRowLeftSilently
  <2> QED
    BY <2>1 DEF MatchHolds, ReplaysAreKeptOrReported, Match!MatchInv
<1> QED
  BY <1>1, MatchHoldsThroughout, PTL

=============================================================================
