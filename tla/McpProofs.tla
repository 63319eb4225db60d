----------------------------- MODULE McpProofs -----------------------------
(***************************************************************************)
(* Theorems about the MCP server, for every value of its constants: how an *)
(* agent is woken (McpWake), and the sessions (McpSessions); and about     *)
(* what agents and everybody else see of a Match (Views).                  *)
(* ServicesProofs carries them over to the parts of Services.              *)
(***************************************************************************)
EXTENDS Integers, Sequences, FiniteSets, FiniteSetTheorems, SequenceTheorems, TLAPS

-----------------------------------------------------------------------------
(* How an agent is woken *)

CONSTANTS Tasks, Queue, MaxRev

VARIABLES rev, mine, gone, events, lost, busy, wake, agent, told

Wake == INSTANCE McpWake

\* What the agent's record holds.
AgentRecord == [pc : {"read", "act", "look", "enabled", "sleep", "over"}, seen : 0..(MaxRev + 1),
                notified : BOOLEAN]

\* A step of the agent alone: it sleeps only if there is nothing new, and does not begin
\* to wait while it has a Decision.
LEMMA AgentStepKeeps ==
  ASSUME Wake!Assumption, Wake!WakeInv, UNCHANGED <<rev, mine, gone, events, lost, busy, wake, told>>,
         agent' \in AgentRecord, agent'.seen <= rev,
         mine /\ Wake!Waits' => Wake!Waits /\ agent'.seen = agent.seen,
         agent'.pc = "sleep" /\ ~agent'.notified => ~Wake!Due'
  PROVE  Wake!WakeInv'
<1>1. Wake!TypeOK'
  BY DEF Wake!WakeInv, Wake!TypeOK, AgentRecord
<1>2. Wake!AgentInv'
  BY DEF Wake!WakeInv, Wake!AgentInv
<1>3. ASSUME NEW t \in Tasks PROVE Wake!NewsInv(t)'
  BY DEF Wake!WakeInv, Wake!NewsInv, Wake!DecisionOnTheWay, Wake!DecisionRecorded, Wake!HasEnd
<1> QED
  BY <1>1, <1>2, <1>3 DEF Wake!WakeInv

LEMMA ReadStateKeeps ==
  ASSUME Wake!Assumption, Wake!WakeInv, Wake!ReadState
  PROVE  Wake!WakeInv'
<1>1. /\ UNCHANGED <<rev, mine, gone, events, lost, busy, wake, told>>
      /\ agent' = [pc |-> IF gone THEN "over" ELSE IF mine THEN "act" ELSE "look", seen |-> rev,
                   notified |-> FALSE]
  BY DEF Wake!ReadState
<1>2. rev \in 0 .. MaxRev /\ MaxRev \in Nat
  BY DEF Wake!WakeInv, Wake!TypeOK, Wake!Assumption
<1>3. agent' \in AgentRecord /\ agent'.seen <= rev
  BY <1>1, <1>2 DEF AgentRecord
<1>4. mine => ~Wake!Waits'
  BY <1>1 DEF Wake!Waits
<1>5. agent'.pc # "sleep"
  BY <1>1
<1> QED
  BY <1>1, <1>3, <1>4, <1>5, AgentStepKeeps

LEMMA WaitKeeps ==
  ASSUME Wake!Assumption, Wake!WakeInv, Wake!Look \/ Wake!Sleep \/ Wake!Timeout
  PROVE  Wake!WakeInv'
<1>1. /\ UNCHANGED <<rev, mine, gone, events, lost, busy, wake, told>>
      /\ Wake!Waits /\ \E pc \in {"read", "enabled", "sleep"} : agent' = [agent EXCEPT !.pc = pc]
  BY DEF Wake!Look, Wake!Sleep, Wake!Timeout, Wake!Goes, Wake!Waits
<1>2. agent \in AgentRecord /\ rev \in Nat /\ agent.seen <= rev
  BY DEF Wake!WakeInv, Wake!TypeOK, AgentRecord, Wake!AgentInv
<1>3. agent' \in AgentRecord /\ agent'.seen = agent.seen
  BY <1>1, <1>2 DEF AgentRecord
<1>4. agent'.pc = "sleep" => ~Wake!Due
  BY <1>2 DEF Wake!Look, Wake!Sleep, Wake!Timeout, Wake!Goes, AgentRecord
<1>5. agent'.pc = "sleep" => ~Wake!Due'
  BY <1>1, <1>3, <1>4 DEF Wake!Due
<1> QED
  BY <1>1, <1>2, <1>3, <1>5, AgentStepKeeps

LEMMA WakeKeeps ==
  ASSUME Wake!Assumption, Wake!WakeInv, Wake!Wake
  PROVE  Wake!WakeInv'
<1>1. /\ UNCHANGED <<rev, mine, gone, events, lost, busy, wake, told>> /\ Wake!Waits
      /\ agent' = [pc |-> "look", seen |-> agent.seen, notified |-> FALSE]
  BY DEF Wake!Wake, Wake!Waits
<1>2. agent.seen \in 0 .. (MaxRev + 1) /\ agent.seen <= rev
  BY DEF Wake!WakeInv, Wake!TypeOK, Wake!AgentInv
<1>3. agent' \in AgentRecord /\ agent'.seen = agent.seen /\ agent'.pc = "look"
  BY <1>1, <1>2 DEF AgentRecord
<1> QED
  BY <1>1, <1>2, <1>3, AgentStepKeeps

\* What is published reaches who is not lost, behind what it has still to receive.
LEMMA PublishIs ==
  ASSUME Wake!Assumption, Wake!TypeOK, NEW news \in Seq(Wake!Kinds), Wake!Publish(news)
  PROVE  /\ events' \in [Tasks -> Seq(Wake!Kinds)] /\ \A t \in Tasks : Len(events'[t]) <= Queue
         /\ lost' \subseteq Tasks /\ lost \subseteq lost'
         /\ \A t \in Tasks \ lost' : events'[t] = events[t] \o news
         /\ \A t \in Tasks : events'[t] # events[t] => t \notin lost'
<1> DEFINE Fits(t) == t \notin lost /\ Len(events[t]) + Len(news) <= Queue
<1>1. /\ events' = [t \in Tasks |-> IF Fits(t) THEN events[t] \o news ELSE events[t]]
      /\ lost' = {t \in Tasks : ~Fits(t)}
  BY DEF Wake!Publish
<1>2. \A t \in Tasks : /\ events[t] \in Seq(Wake!Kinds) /\ Len(events[t]) <= Queue
                       /\ events[t] \o news \in Seq(Wake!Kinds)
                       /\ Len(events[t] \o news) = Len(events[t]) + Len(news)
  BY ConcatProperties DEF Wake!TypeOK
<1>3. lost \subseteq Tasks
  BY DEF Wake!TypeOK
<1> QED
  BY <1>1, <1>2, <1>3

\* A queue with one or two more events.
LEMMA BehindIs ==
  ASSUME NEW s \in Seq(Wake!Kinds), NEW news \in Seq(Wake!Kinds)
  PROVE  /\ Len(s \o news) = Len(s) + Len(news)
         /\ \A k \in 1 .. Len(s) : (s \o news)[k] = s[k]
         /\ \A k \in 1 .. Len(news) : (s \o news)[Len(s) + k] = news[k]
BY ConcatProperties

\* The news of one event.
LEMMA OneMoreIs ==
  ASSUME NEW s \in Seq(Wake!Kinds), NEW kind \in Wake!Kinds, NEW r, r = s \o <<kind>>
  PROVE  /\ Len(r) = Len(s) + 1 /\ r[Len(s) + 1] = kind
         /\ \A k \in 1 .. Len(s) : r[k] = s[k]
<1>1. <<kind>> \in Seq(Wake!Kinds) /\ Len(<<kind>>) = 1 /\ <<kind>>[1] = kind
  OBVIOUS
<1> QED
  BY <1>1, BehindIs

LEMMA RoomChangesKeeps ==
  ASSUME Wake!Assumption, Wake!WakeInv, Wake!RoomChanges
  PROVE  Wake!WakeInv'
<1>1. /\ ~gone /\ rev < MaxRev /\ rev' = rev + 1 /\ Wake!Publish(<<"other">>)
      /\ UNCHANGED <<mine, gone, busy, wake, agent, told>>
  BY DEF Wake!RoomChanges
<1>2. "other" \in Wake!Kinds /\ <<"other">> \in Seq(Wake!Kinds)
  BY DEF Wake!Kinds
<1>3. /\ events' \in [Tasks -> Seq(Wake!Kinds)] /\ \A t \in Tasks : Len(events'[t]) <= Queue
      /\ lost' \subseteq Tasks /\ lost \subseteq lost'
      /\ \A t \in Tasks \ lost' : events'[t] = events[t] \o <<"other">>
      /\ \A t \in Tasks : events'[t] # events[t] => t \notin lost'
  BY <1>1, <1>2, PublishIs DEF Wake!WakeInv
<1>4. Wake!TypeOK'
  <2>1. rev' \in 0 .. MaxRev
    BY <1>1 DEF Wake!WakeInv, Wake!TypeOK, Wake!Assumption
  <2> QED
    BY <1>1, <1>3, <2>1 DEF Wake!WakeInv, Wake!TypeOK
<1>5. Wake!AgentInv'
  BY <1>1 DEF Wake!WakeInv, Wake!AgentInv, Wake!TypeOK, Wake!Assumption, Wake!Waits, Wake!Due
<1>6. ASSUME NEW t \in Tasks PROVE Wake!NewsInv(t)'
  <2>1. Wake!NewsInv(t) /\ events[t] \in Seq(Wake!Kinds) /\ Len(events[t]) \in Nat
    BY DEF Wake!WakeInv, Wake!TypeOK
  <2>2. CASE t \in lost'
    <3>1. events'[t] = events[t]
      BY <1>3, <2>2
    <3> QED
      BY <1>1, <2>1, <2>2, <3>1 DEF Wake!NewsInv, Wake!HasEnd
  <2>3. CASE t \notin lost'
    <3>1. /\ Len(events'[t]) = Len(events[t]) + 1 /\ events'[t][Len(events[t]) + 1] = "other"
          /\ \A k \in 1 .. Len(events[t]) : events'[t][k] = events[t][k]
      BY <1>2, <1>3, <2>1, <2>3, OneMoreIs
    <3>2. Wake!HasEnd(t)' <=> Wake!HasEnd(t)
      BY SMTT(30), <1>1, <2>1, <3>1 DEF Wake!HasEnd
    <3>3. Wake!DecisionOnTheWay(t) => Wake!DecisionOnTheWay(t)'
      <4> DEFINE Last(k) == /\ events[t][k] = "my_decision"
                            /\ \A j \in (k + 1) .. Len(events[t]) : events[t][j] = "other"
      <4>1. ASSUME NEW k \in 1 .. Len(events[t]), Last(k) PROVE Wake!DecisionOnTheWay(t)'
        <5>1. k \in 1 .. Len(events'[t]) /\ events'[t][k] = "my_decision"
          BY <2>1, <3>1, <4>1
        <5>2. \A j \in (k + 1) .. Len(events'[t]) : events'[t][j] = "other"
          BY <2>1, <3>1, <4>1
        <5> QED
          BY <5>1, <5>2 DEF Wake!DecisionOnTheWay
      <4>2. ASSUME busy[t] = "my_decision", \A j \in 1 .. Len(events[t]) : events[t][j] = "other"
            PROVE  Wake!DecisionOnTheWay(t)'
        <5>1. \A j \in 1 .. Len(events'[t]) : events'[t][j] = "other"
          BY <2>1, <3>1, <4>2
        <5> QED
          BY <1>1, <4>2, <5>1 DEF Wake!DecisionOnTheWay
      <4> QED
        BY <4>1, <4>2 DEF Wake!DecisionOnTheWay
    <3>4. Wake!DecisionRecorded(t) => Wake!DecisionRecorded(t)'
      BY <1>1, <2>1, <3>1 DEF Wake!DecisionRecorded, Wake!Waits
    <3> QED
      BY <1>1, <1>3, <2>1, <2>3, <3>2, <3>3, <3>4 DEF Wake!NewsInv
  <2> QED
    BY <2>2, <2>3
<1> QED
  BY <1>4, <1>5, <1>6 DEF Wake!WakeInv

LEMMA RoomEndsKeeps ==
  ASSUME Wake!Assumption, Wake!WakeInv, Wake!RoomEnds
  PROVE  Wake!WakeInv'
<1>1. /\ ~gone /\ gone' = TRUE /\ mine' = FALSE /\ Wake!Publish(<<"end">>)
      /\ UNCHANGED <<rev, busy, wake, agent, told>>
  BY DEF Wake!RoomEnds
<1>2. "end" \in Wake!Kinds /\ <<"end">> \in Seq(Wake!Kinds)
  BY DEF Wake!Kinds
<1>3. /\ events' \in [Tasks -> Seq(Wake!Kinds)] /\ \A t \in Tasks : Len(events'[t]) <= Queue
      /\ lost' \subseteq Tasks /\ lost \subseteq lost'
      /\ \A t \in Tasks \ lost' : events'[t] = events[t] \o <<"end">>
  BY <1>1, <1>2, PublishIs DEF Wake!WakeInv
<1>4. Wake!TypeOK'
  BY <1>1, <1>3 DEF Wake!WakeInv, Wake!TypeOK
<1>5. Wake!AgentInv'
  BY <1>1 DEF Wake!WakeInv, Wake!AgentInv, Wake!Waits, Wake!Due
<1>6. ASSUME NEW t \in Tasks PROVE Wake!NewsInv(t)'
  <2>1. events[t] \in Seq(Wake!Kinds) /\ Len(events[t]) \in Nat
    BY DEF Wake!WakeInv, Wake!TypeOK
  <2>2. t \notin lost' => Wake!HasEnd(t)'
    <3> SUFFICES ASSUME t \notin lost' PROVE Wake!HasEnd(t)'
      OBVIOUS
    <3>1. Len(events'[t]) = Len(events[t]) + 1 /\ events'[t][Len(events[t]) + 1] = "end"
      BY <1>2, <1>3, <2>1, OneMoreIs
    <3> QED
      BY <2>1, <3>1 DEF Wake!HasEnd
  <2> QED
    BY <1>1, <2>2 DEF Wake!NewsInv
<1> QED
  BY <1>4, <1>5, <1>6 DEF Wake!WakeInv

\* An action is resolved; the next Decision, if it is the agent's, is the last news.
LEMMA ResolvedKeeps ==
  ASSUME Wake!Assumption, Wake!WakeInv, NEW reason \in Wake!Kinds \ {"end"}, Wake!Resolved(reason),
         agent' \in AgentRecord, agent'.seen = agent.seen,
         agent' = agent \/ agent'.pc = "read"
  PROVE  Wake!WakeInv'
<1>1. PICK next \in BOOLEAN :
        /\ ~gone /\ rev < MaxRev /\ rev' = rev + 1 /\ mine' = next /\ told' = FALSE
        /\ Wake!Publish(<<reason>> \o IF next THEN <<"my_decision">> ELSE <<>>)
        /\ UNCHANGED <<gone, busy, wake>>
  BY DEF Wake!Resolved
<1> DEFINE news == <<reason>> \o IF next THEN <<"my_decision">> ELSE <<>>
<1>2. /\ news \in Seq(Wake!Kinds) /\ Len(news) \in Nat
      /\ \A k \in 1 .. Len(news) : news[k] # "end"
      /\ next => news[Len(news)] = "my_decision" /\ Len(news) > 0
  <2>1. CASE next
    <3>1. news = <<reason>> \o <<"my_decision">>
      BY <2>1
    <3>2. /\ <<reason>> \in Seq(Wake!Kinds) /\ Len(<<reason>>) = 1 /\ <<reason>>[1] = reason
          /\ "my_decision" \in Wake!Kinds
      BY DEF Wake!Kinds, Wake!Reasons
    <3>3. <<"my_decision">> \in Seq(Wake!Kinds) /\ news \in Seq(Wake!Kinds)
      BY <3>1, <3>2, ConcatProperties
    <3> HIDE DEF news
    <3>4. Len(news) = 2 /\ news[2] = "my_decision" /\ news[1] = reason
      BY <3>1, <3>2, OneMoreIs
    <3> QED
      BY <3>3, <3>4
  <2>2. CASE ~next
    <3>1. news = <<reason>> \o <<>>
      BY <2>2
    <3>2. <<reason>> \o <<>> = <<reason>>
      OBVIOUS
    <3>3. news = <<reason>>
      BY <3>1, <3>2
    <3> QED
      BY <2>2, <3>3 DEF Wake!Kinds
  <2> QED
    BY <2>1, <2>2
<1> HIDE DEF news
<1>3. /\ events' \in [Tasks -> Seq(Wake!Kinds)] /\ \A t \in Tasks : Len(events'[t]) <= Queue
      /\ lost' \subseteq Tasks /\ lost \subseteq lost'
      /\ \A t \in Tasks \ lost' : events'[t] = events[t] \o news
      /\ \A t \in Tasks : events'[t] # events[t] => t \notin lost'
  <2>1. Wake!Publish(news)
    BY <1>1 DEF news
  <2> QED
    BY <1>2, <2>1, PublishIs DEF Wake!WakeInv
<1>4. Wake!TypeOK'
  <2>1. rev' \in 0 .. MaxRev
    BY <1>1 DEF Wake!WakeInv, Wake!TypeOK, Wake!Assumption
  <2> QED
    BY <1>1, <1>3, <2>1 DEF Wake!WakeInv, Wake!TypeOK, AgentRecord
<1>5. Wake!AgentInv'
  <2>1. agent.seen \in Nat /\ rev \in Nat
    BY DEF Wake!WakeInv, Wake!TypeOK, Wake!Assumption
  <2>2. agent'.seen < rev' /\ (~wake.terminal => wake.rev <= rev')
    BY <1>1, <2>1 DEF Wake!WakeInv, Wake!AgentInv, Wake!TypeOK, Wake!Assumption
  <2>3. agent'.pc = "sleep" /\ ~agent'.notified => ~Wake!Due'
    BY <1>1 DEF Wake!WakeInv, Wake!AgentInv, Wake!Due
  <2> QED
    BY <1>1, <2>1, <2>2, <2>3 DEF Wake!WakeInv, Wake!AgentInv
<1>6. ASSUME NEW t \in Tasks PROVE Wake!NewsInv(t)'
  <2>1. Wake!NewsInv(t) /\ events[t] \in Seq(Wake!Kinds) /\ Len(events[t]) \in Nat
    BY DEF Wake!WakeInv, Wake!TypeOK
  <2>2. CASE t \in lost'
    <3>1. events'[t] = events[t]
      BY <1>3, <2>2
    <3> QED
      BY <1>1, <2>1, <2>2, <3>1 DEF Wake!NewsInv, Wake!HasEnd
  <2>3. CASE t \notin lost'
    <3> DEFINE s == events[t]
    <3>1. events'[t] = s \o news
      BY <1>3, <2>3
    <3>2. /\ Len(s \o news) = Len(s) + Len(news)
          /\ \A k \in 1 .. Len(s) : (s \o news)[k] = s[k]
          /\ \A k \in 1 .. Len(news) : (s \o news)[Len(s) + k] = news[k]
      BY <1>2, <2>1, BehindIs
    <3>3. \A k \in 1 .. Len(events'[t]) : events'[t][k] = "end" => k \in 1 .. Len(s) /\ s[k] = "end"
      <4> SUFFICES ASSUME NEW k \in 1 .. Len(events'[t]), events'[t][k] = "end"
                   PROVE  k \in 1 .. Len(s) /\ s[k] = "end"
        OBVIOUS
      <4>1. CASE k <= Len(s)
        BY <1>2, <2>1, <3>1, <3>2, <4>1
      <4>2. CASE k > Len(s)
        <5>1. k - Len(s) \in 1 .. Len(news) /\ Len(s) + (k - Len(s)) = k
          BY <1>2, <2>1, <3>1, <3>2, <4>2
        <5> QED
          BY <1>2, <3>1, <3>2, <5>1
      <4> QED
        BY <2>1, <3>1, <3>2, <4>1, <4>2, <1>2
    <3>4. ~Wake!HasEnd(t)'
      BY <1>1, <2>1, <3>3 DEF Wake!NewsInv, Wake!HasEnd
    <3>5. mine' => Wake!DecisionOnTheWay(t)'
      <4> SUFFICES ASSUME mine' PROVE Wake!DecisionOnTheWay(t)'
        OBVIOUS
      <4>1. Len(news) \in 1 .. Len(news) /\ news[Len(news)] = "my_decision"
        BY <1>1, <1>2
      <4>2. /\ Len(events'[t]) \in 1 .. Len(events'[t])
            /\ events'[t][Len(events'[t])] = "my_decision"
        BY <1>2, <2>1, <3>1, <3>2, <4>1
      <4> QED
        BY <4>2 DEF Wake!DecisionOnTheWay
    <3> QED
      BY <1>1, <3>4, <3>5 DEF Wake!NewsInv
  <2> QED
    BY <2>2, <2>3
<1> QED
  BY <1>4, <1>5, <1>6 DEF Wake!WakeInv

LEMMA RoomResolvesKeeps ==
  ASSUME Wake!Assumption, Wake!WakeInv, Wake!RoomResolves
  PROVE  Wake!WakeInv'
<1>1. PICK reason \in Wake!Kinds \ {"my_decision", "end", "nothing"} : Wake!Resolved(reason)
  BY DEF Wake!RoomResolves
<1>2. agent' = agent /\ agent \in AgentRecord
  BY DEF Wake!RoomResolves, Wake!WakeInv, Wake!TypeOK, AgentRecord
<1> QED
  BY <1>1, <1>2, ResolvedKeeps

LEMMA ActKeeps ==
  ASSUME Wake!Assumption, Wake!WakeInv, Wake!Act
  PROVE  Wake!WakeInv'
<1>1. agent.pc = "act" /\ agent' = [agent EXCEPT !.pc = "read"]
  BY DEF Wake!Act, Wake!Goes
<1>2. agent \in AgentRecord /\ rev \in Nat /\ agent.seen <= rev
  BY DEF Wake!WakeInv, Wake!TypeOK, AgentRecord, Wake!AgentInv
<1>3. agent' \in AgentRecord /\ agent'.seen = agent.seen /\ agent'.pc = "read"
  BY <1>1, <1>2 DEF AgentRecord
<1>4. CASE mine /\ \E reason \in {"other", "round"} : Wake!Resolved(reason)
  <2>1. PICK reason \in {"other", "round"} : Wake!Resolved(reason)
    BY <1>4
  <2>2. reason \in Wake!Kinds \ {"end"}
    BY DEF Wake!Kinds, Wake!Reasons
  <2> QED
    BY <1>3, <2>1, <2>2, ResolvedKeeps
<1>5. CASE UNCHANGED <<rev, mine, gone, events, lost, busy, wake, told>> /\ ~mine
  BY <1>2, <1>3, <1>5, AgentStepKeeps
<1> QED
  BY <1>4, <1>5 DEF Wake!Act

\* The rest of a queue.
LEMMA RestIs ==
  ASSUME NEW s \in Seq(Wake!Kinds), s # <<>>
  PROVE  /\ Head(s) = s[1] /\ Head(s) \in Wake!Kinds /\ Tail(s) \in Seq(Wake!Kinds)
         /\ Len(s) \in Nat /\ Len(s) > 0 /\ Len(Tail(s)) = Len(s) - 1
         /\ \A k \in 1 .. (Len(s) - 1) : Tail(s)[k] = s[k + 1]
BY HeadTailProperties

LEMMA ReceiveKeeps ==
  ASSUME Wake!Assumption, Wake!WakeInv, NEW t \in Tasks, Wake!Receive(t)
  PROVE  Wake!WakeInv'
<1> DEFINE s == events[t]
           r == Tail(events[t])
<1>1. /\ busy[t] = "nothing" /\ s # <<>>
      /\ busy' = [busy EXCEPT ![t] = Head(s)]
      /\ events' = [events EXCEPT ![t] = r]
      /\ UNCHANGED <<rev, mine, gone, lost, wake, agent, told>>
  BY DEF Wake!Receive
<1>2. s \in Seq(Wake!Kinds) /\ Len(s) <= Queue /\ Queue \in Nat
  BY DEF Wake!WakeInv, Wake!TypeOK, Wake!Assumption
<1>3. /\ Head(s) = s[1] /\ Head(s) \in Wake!Kinds /\ r \in Seq(Wake!Kinds)
      /\ Len(s) \in Nat /\ Len(s) > 0 /\ Len(r) = Len(s) - 1
      /\ \A k \in 1 .. (Len(s) - 1) : r[k] = s[k + 1]
  BY <1>1, <1>2, RestIs
<1>4. busy'[t] = s[1] /\ events'[t] = r
  BY <1>1, <1>3 DEF Wake!WakeInv, Wake!TypeOK
<1> HIDE DEF r
<1>5. Wake!TypeOK'
  BY <1>1, <1>2, <1>3 DEF Wake!WakeInv, Wake!TypeOK
<1>6. Wake!AgentInv'
  BY <1>1 DEF Wake!WakeInv, Wake!AgentInv, Wake!Waits, Wake!Due
<1>7. ASSUME NEW q \in Tasks \ {t} PROVE Wake!NewsInv(q)'
  <2>1. busy'[q] = busy[q] /\ events'[q] = events[q]
    BY <1>1 DEF Wake!WakeInv, Wake!TypeOK
  <2> QED
    BY <1>1, <2>1 DEF Wake!WakeInv, Wake!NewsInv, Wake!DecisionOnTheWay, Wake!DecisionRecorded,
                      Wake!HasEnd, Wake!Waits
<1>8. Wake!NewsInv(t)'
  <2>1. Wake!HasEnd(t)' <=> Wake!HasEnd(t)
    <3>1. ASSUME NEW k \in 1 .. Len(s), s[k] = "end" PROVE Wake!HasEnd(t)'
      <4>1. CASE k = 1
        BY <1>4, <3>1, <4>1 DEF Wake!HasEnd
      <4>2. CASE k # 1
        <5>1. k - 1 \in 1 .. Len(r) /\ r[k - 1] = "end"
          BY <1>3, <3>1, <4>2
        <5> QED
          BY <1>4, <5>1 DEF Wake!HasEnd
      <4> QED
        BY <4>1, <4>2
    <3>2. ASSUME Wake!HasEnd(t)' PROVE Wake!HasEnd(t)
      <4>1. CASE s[1] = "end"
        BY <1>3, <4>1 DEF Wake!HasEnd
      <4>2. CASE s[1] # "end"
        <5>1. PICK k \in 1 .. Len(r) : r[k] = "end"
          BY <1>4, <3>2, <4>2 DEF Wake!HasEnd
        <5>2. k + 1 \in 1 .. Len(s) /\ s[k + 1] = "end"
          BY <1>3, <5>1
        <5> QED
          BY <5>2 DEF Wake!HasEnd
      <4> QED
        BY <4>1, <4>2
    <3> QED
      BY <1>1, <3>1, <3>2 DEF Wake!HasEnd
  <2>2. Wake!DecisionOnTheWay(t) => Wake!DecisionOnTheWay(t)'
    <3> SUFFICES ASSUME NEW k \in 1 .. Len(s), s[k] = "my_decision",
                        \A j \in (k + 1) .. Len(s) : s[j] = "other"
                 PROVE  Wake!DecisionOnTheWay(t)'
      BY <1>1 DEF Wake!DecisionOnTheWay
    <3>1. CASE k = 1
      <4>1. \A j \in 1 .. Len(r) : r[j] = "other"
        BY <1>3, <3>1
      <4> QED
        BY <1>4, <3>1, <4>1 DEF Wake!DecisionOnTheWay
    <3>2. CASE k # 1
      <4>1. k - 1 \in 1 .. Len(r) /\ r[k - 1] = "my_decision"
        BY <1>3, <3>2
      <4>2. \A j \in ((k - 1) + 1) .. Len(r) : r[j] = "other"
        BY <1>3, <3>2
      <4> QED
        BY <1>4, <4>1, <4>2 DEF Wake!DecisionOnTheWay
    <3> QED
      BY <3>1, <3>2
  <2>3. Wake!DecisionRecorded(t) => Wake!DecisionRecorded(t)'
    <3> SUFFICES ASSUME Wake!DecisionRecorded(t) PROVE Wake!DecisionRecorded(t)'
      OBVIOUS
    <3>1. s[1] = "other" /\ \A j \in 1 .. Len(r) : r[j] = "other"
      BY <1>3 DEF Wake!DecisionRecorded
    <3> QED
      BY <1>1, <1>4, <3>1 DEF Wake!DecisionRecorded, Wake!Waits
  <2> QED
    BY <1>1, <2>1, <2>2, <2>3 DEF Wake!WakeInv, Wake!NewsInv
<1> QED
  BY <1>5, <1>6, <1>7, <1>8 DEF Wake!WakeInv

\* What the agent holds after a notification.
LEMMA NotifyIs ==
  ASSUME Wake!TypeOK, Wake!Notify
  PROVE  /\ agent' \in AgentRecord /\ agent'.pc = agent.pc /\ agent'.seen = agent.seen
         /\ agent.pc = "sleep" => agent'.notified
<1> DEFINE b == agent.notified \/ agent.pc \in {"enabled", "sleep"}
<1>1. agent' = [agent EXCEPT !.notified = b] /\ agent \in AgentRecord /\ b \in BOOLEAN
  BY DEF Wake!TypeOK, Wake!Notify, AgentRecord
<1>2. agent.pc = "sleep" => b = TRUE
  OBVIOUS
<1> HIDE DEF b
<1> QED
  BY <1>1, <1>2 DEF AgentRecord

LEMMA RecordKeeps ==
  ASSUME Wake!Assumption, Wake!WakeInv, NEW t \in Tasks, Wake!Record(t)
  PROVE  Wake!WakeInv'
<1> DEFINE b == busy[t]
<1>1. /\ b \in Wake!Reasons \cup {"other"} /\ busy' = [busy EXCEPT ![t] = "nothing"]
      /\ UNCHANGED <<rev, mine, gone, events, lost>>
  BY DEF Wake!Record
<1>2. CASE ~gone /\ Wake!Records(b)
  <2>1. /\ ~wake.terminal /\ b \in Wake!Reasons
        /\ rev > wake.rev \/ (rev = wake.rev /\ b = "my_decision")
        /\ wake' = [rev |-> rev, reason |-> b, terminal |-> FALSE]
        /\ told' = (told \/ (t = "listener" /\ b = "my_decision")) /\ Wake!Notify
    BY <1>2 DEF Wake!Record, Wake!Records
  <2>2. /\ agent' \in AgentRecord /\ agent'.pc = agent.pc /\ agent'.seen = agent.seen
        /\ agent.pc = "sleep" => agent'.notified
    BY <2>1, NotifyIs DEF Wake!WakeInv
  <2>3. wake'.rev = rev /\ wake'.reason = b /\ wake'.terminal = FALSE
    BY <2>1
  <2>4. Wake!TypeOK'
    <3>1. rev \in 0 .. (MaxRev + 1) /\ told' \in BOOLEAN /\ busy' \in [Tasks -> Wake!Kinds]
      BY <1>1, <2>1 DEF Wake!WakeInv, Wake!TypeOK, Wake!Assumption, Wake!Kinds
    <3>2. wake' \in [rev : 0..(MaxRev + 1), reason : Wake!Reasons \cup {"timeout", "end"},
                     terminal : BOOLEAN]
      BY <2>1, <3>1
    <3> QED
      BY <1>1, <2>2, <3>1, <3>2 DEF Wake!WakeInv, Wake!TypeOK, AgentRecord
  <2>5. Wake!AgentInv'
    <3>1. rev \in Nat
      BY DEF Wake!WakeInv, Wake!TypeOK, Wake!Assumption
    <3> QED
      BY <1>1, <1>2, <2>2, <2>3, <3>1 DEF Wake!WakeInv, Wake!AgentInv, Wake!Waits, Wake!Due
  <2>6. mine /\ Wake!Waits' => wake'.rev > agent'.seen
    <3>1. rev \in Nat /\ agent.seen \in 0 .. (MaxRev + 1)
      BY DEF Wake!WakeInv, Wake!TypeOK, Wake!Assumption
    <3> QED
      BY <2>2, <2>3, <3>1 DEF Wake!WakeInv, Wake!AgentInv, Wake!Waits
  <2>7. ASSUME NEW q \in Tasks \ {t} PROVE Wake!NewsInv(q)'
    <3>1. busy'[q] = busy[q] /\ events'[q] = events[q] /\ Tasks # {q}
      BY <1>1 DEF Wake!WakeInv, Wake!TypeOK
    <3>2. Wake!HasEnd(q)' <=> Wake!HasEnd(q)
      BY <3>1 DEF Wake!HasEnd
    <3>3. Wake!DecisionOnTheWay(q) => Wake!DecisionOnTheWay(q)'
      BY <3>1 DEF Wake!DecisionOnTheWay
    <3>4. mine /\ Wake!DecisionRecorded(q) => Wake!DecisionRecorded(q)'
      BY <2>6, <3>1 DEF Wake!DecisionRecorded
    <3> QED
      BY <1>1, <1>2, <3>2, <3>3, <3>4 DEF Wake!WakeInv, Wake!NewsInv
  <2>8. Wake!NewsInv(t)'
    <3>1. busy'[t] = "nothing" /\ events'[t] = events[t]
      BY <1>1 DEF Wake!WakeInv, Wake!TypeOK
    <3>2. b # "end"
      BY <2>1 DEF Wake!Reasons
    <3>3. Wake!HasEnd(t)' => Wake!HasEnd(t)
      BY <3>1 DEF Wake!HasEnd
    <3>4. mine /\ Wake!DecisionOnTheWay(t) => Wake!DecisionOnTheWay(t)' \/ Wake!DecisionRecorded(t)'
      <4>1. ASSUME \E k \in 1 .. Len(events[t]) :
                     /\ events[t][k] = "my_decision"
                     /\ \A j \in (k + 1) .. Len(events[t]) : events[t][j] = "other"
            PROVE  Wake!DecisionOnTheWay(t)'
        BY <3>1, <4>1 DEF Wake!DecisionOnTheWay
      <4>2. ASSUME mine, b = "my_decision", \A j \in 1 .. Len(events[t]) : events[t][j] = "other"
            PROVE  Wake!DecisionRecorded(t)'
        BY <2>3, <2>6, <3>1, <4>2 DEF Wake!DecisionRecorded
      <4> QED
        BY <4>1, <4>2 DEF Wake!DecisionOnTheWay
    <3>5. ~Wake!DecisionRecorded(t)
      BY <2>1 DEF Wake!DecisionRecorded, Wake!Reasons
    <3> QED
      BY <1>1, <1>2, <3>3, <3>4, <3>5 DEF Wake!WakeInv, Wake!NewsInv
  <2> QED
    BY <2>4, <2>5, <2>7, <2>8 DEF Wake!WakeInv
<1>3. CASE ~(~gone /\ Wake!Records(b))
  <2>1. UNCHANGED <<wake, told, agent>>
    BY <1>3 DEF Wake!Record
  <2>2. Wake!TypeOK'
    BY <1>1, <2>1 DEF Wake!WakeInv, Wake!TypeOK, Wake!Kinds
  <2>3. Wake!AgentInv'
    BY <1>1, <2>1 DEF Wake!WakeInv, Wake!AgentInv, Wake!Waits, Wake!Due
  <2>4. ASSUME NEW q \in Tasks \ {t} PROVE Wake!NewsInv(q)'
    <3>1. busy'[q] = busy[q] /\ events'[q] = events[q]
      BY <1>1 DEF Wake!WakeInv, Wake!TypeOK
    <3> QED
      BY <1>1, <2>1, <3>1 DEF Wake!WakeInv, Wake!NewsInv, Wake!DecisionOnTheWay,
                              Wake!DecisionRecorded, Wake!HasEnd, Wake!Waits
  <2>5. Wake!NewsInv(t)'
    <3>1. busy'[t] = "nothing" /\ events'[t] = events[t] /\ b # "end"
      BY <1>1 DEF Wake!WakeInv, Wake!TypeOK, Wake!Reasons
    <3>2. Wake!HasEnd(t)' <=> Wake!HasEnd(t)
      BY <3>1 DEF Wake!HasEnd
    <3>3. Wake!DecisionRecorded(t) => Wake!DecisionRecorded(t)'
      BY <1>1, <2>1, <3>1 DEF Wake!DecisionRecorded, Wake!Waits
    <3>4. mine /\ Wake!DecisionOnTheWay(t) => Wake!DecisionOnTheWay(t)' \/ Wake!DecisionRecorded(t)'
      <4>1. ASSUME \E k \in 1 .. Len(events[t]) :
                     /\ events[t][k] = "my_decision"
                     /\ \A j \in (k + 1) .. Len(events[t]) : events[t][j] = "other"
            PROVE  Wake!DecisionOnTheWay(t)'
        BY <3>1, <4>1 DEF Wake!DecisionOnTheWay
      <4>2. ASSUME mine, b = "my_decision", \A j \in 1 .. Len(events[t]) : events[t][j] = "other"
            PROVE  Wake!DecisionRecorded(t)'
        <5>1. ~gone /\ ~wake.terminal /\ wake.rev <= rev /\ b \in Wake!Reasons
          BY <4>2 DEF Wake!WakeInv, Wake!AgentInv, Wake!Reasons
        <5>2. wake.rev \in 0 .. (MaxRev + 1) /\ rev \in Nat /\ agent.seen \in 0 .. (MaxRev + 1)
          BY DEF Wake!WakeInv, Wake!TypeOK, Wake!Assumption
        <5>3. wake.rev = rev /\ wake.reason = "my_decision"
          BY <1>3, <4>2, <5>1, <5>2 DEF Wake!Records, Wake!Assumption
        <5>4. Wake!Waits => wake.rev > agent.seen
          BY <4>2, <5>2, <5>3 DEF Wake!WakeInv, Wake!AgentInv, Wake!Assumption
        <5> QED
          BY <1>1, <2>1, <3>1, <4>2, <5>3, <5>4 DEF Wake!DecisionRecorded, Wake!Waits
      <4> QED
        BY <4>1, <4>2 DEF Wake!DecisionOnTheWay
    <3> QED
      BY <1>1, <2>1, <3>2, <3>3, <3>4 DEF Wake!WakeInv, Wake!NewsInv
  <2> QED
    BY <2>2, <2>3, <2>4, <2>5 DEF Wake!WakeInv
<1> QED
  BY <1>2, <1>3

LEMMA RecordEndKeeps ==
  ASSUME Wake!Assumption, Wake!WakeInv, NEW t \in Tasks, Wake!RecordEnd(t)
  PROVE  Wake!WakeInv'
<1>1. /\ busy[t] = "end" /\ busy' = [busy EXCEPT ![t] = "nothing"]
      /\ UNCHANGED <<rev, mine, gone, events, lost, told>>
      /\ \/ wake.terminal /\ UNCHANGED <<wake, agent>>
         \/ /\ ~wake.terminal /\ Wake!Notify
            /\ wake' = [rev |-> wake.rev + 1, reason |-> "end", terminal |-> TRUE]
  BY DEF Wake!RecordEnd
<1>2. gone /\ ~mine
  BY <1>1 DEF Wake!WakeInv, Wake!NewsInv, Wake!HasEnd, Wake!AgentInv
<1>3. wake'.terminal
  BY <1>1
<1>4. wake' \in [rev : 0..(MaxRev + 1), reason : Wake!Reasons \cup {"timeout", "end"},
                 terminal : BOOLEAN]
  <2>1. CASE wake.terminal
    BY <1>1, <2>1 DEF Wake!WakeInv, Wake!TypeOK
  <2>2. CASE ~wake.terminal
    <3>1. wake.rev + 1 \in 0 .. (MaxRev + 1)
      BY <2>2 DEF Wake!WakeInv, Wake!TypeOK, Wake!AgentInv, Wake!Assumption
    <3>2. wake' = [rev |-> wake.rev + 1, reason |-> "end", terminal |-> TRUE]
      BY <1>1, <2>2
    <3> QED
      BY <3>1, <3>2
  <2> QED
    BY <2>1, <2>2
<1>5. /\ agent' \in AgentRecord /\ agent'.pc = agent.pc /\ agent'.seen = agent.seen
      /\ agent'.pc = "sleep" /\ ~agent'.notified => wake.terminal /\ agent' = agent
  <2>1. CASE wake.terminal
    BY <1>1, <2>1 DEF Wake!WakeInv, Wake!TypeOK, AgentRecord
  <2>2. CASE ~wake.terminal
    BY <1>1, <2>2, NotifyIs DEF Wake!WakeInv
  <2> QED
    BY <2>1, <2>2
<1>6. Wake!TypeOK'
  BY <1>1, <1>4, <1>5 DEF Wake!WakeInv, Wake!TypeOK, AgentRecord, Wake!Kinds
<1>7. Wake!AgentInv'
  <2>1. ~(agent'.pc = "sleep" /\ ~agent'.notified)
    BY <1>1, <1>5 DEF Wake!WakeInv, Wake!AgentInv, Wake!Due
  <2> QED
    BY <1>1, <1>2, <1>3, <1>5, <2>1 DEF Wake!WakeInv, Wake!AgentInv
<1>8. ASSUME NEW q \in Tasks PROVE Wake!NewsInv(q)'
  BY <1>1, <1>2, <1>3 DEF Wake!NewsInv
<1> QED
  BY <1>6, <1>7, <1>8 DEF Wake!WakeInv

LEMMA WakeStarts == ASSUME Wake!Assumption, Wake!Init PROVE Wake!WakeInv
<1>1. /\ rev = 0 /\ mine = FALSE /\ gone = FALSE /\ lost = {} /\ told = FALSE
      /\ events = [t \in Tasks |-> <<>>] /\ busy = [t \in Tasks |-> "nothing"]
      /\ wake = [rev |-> 0, reason |-> "timeout", terminal |-> FALSE]
      /\ agent = [pc |-> "read", seen |-> 0, notified |-> FALSE]
  BY DEF Wake!Init
<1>2. 0 \in 0 .. MaxRev /\ 0 \in 0 .. (MaxRev + 1) /\ 0 <= Queue
  BY DEF Wake!Assumption
<1>3. Wake!TypeOK
  <2>1. agent \in [pc : {"read", "act", "look", "enabled", "sleep", "over"},
                   seen : 0..(MaxRev + 1), notified : BOOLEAN]
    BY <1>1, <1>2
  <2>2. wake \in [rev : 0..(MaxRev + 1), reason : Wake!Reasons \cup {"timeout", "end"},
                  terminal : BOOLEAN]
    BY <1>1, <1>2
  <2>3. events \in [Tasks -> Seq(Wake!Kinds)] /\ \A t \in Tasks : Len(events[t]) <= Queue
    BY <1>1, <1>2
  <2> QED
    BY <1>1, <1>2, <2>1, <2>2, <2>3 DEF Wake!TypeOK, Wake!Kinds
<1>4. Wake!AgentInv
  BY <1>1 DEF Wake!AgentInv, Wake!Due, Wake!Waits
<1>5. ASSUME NEW t \in Tasks PROVE Wake!NewsInv(t)
  BY <1>1 DEF Wake!NewsInv, Wake!HasEnd
<1> QED
  BY <1>3, <1>4, <1>5 DEF Wake!WakeInv

\* An agent does not sleep through its Decision or the end of the Room, and hears last
\* that it has a Decision (mcp.rs wait_until, record, attach_watcher).
THEOREM NobodySleepsThrough ==
  ASSUME Wake!Assumption
  PROVE  Wake!Spec => []Wake!AgentsAreWoken
<1>1. Wake!Init => Wake!WakeInv
  BY WakeStarts
<1>2. Wake!WakeInv /\ [Wake!Next]_Wake!vars => Wake!WakeInv'
  <2> SUFFICES ASSUME Wake!WakeInv, [Wake!Next]_Wake!vars PROVE Wake!WakeInv'
    OBVIOUS
  <2>1. CASE Wake!RoomResolves \/ Wake!RoomChanges \/ Wake!RoomEnds
    BY <2>1, RoomResolvesKeeps, RoomChangesKeeps, RoomEndsKeeps
  <2>2. ASSUME NEW t \in Tasks, Wake!Receive(t) \/ Wake!Record(t) \/ Wake!RecordEnd(t)
        PROVE  Wake!WakeInv'
    BY <2>2, ReceiveKeeps, RecordKeeps, RecordEndKeeps
  <2>3. CASE Wake!ReadState \/ Wake!Act \/ Wake!Wake
    BY <2>3, ReadStateKeeps, ActKeeps, WakeKeeps
  <2>4. CASE Wake!Look \/ Wake!Sleep \/ Wake!Timeout
    BY <2>4, WaitKeeps
  <2>5. CASE UNCHANGED Wake!vars
    BY <2>5 DEF Wake!vars, Wake!WakeInv, Wake!TypeOK, Wake!AgentInv, Wake!NewsInv,
                Wake!DecisionOnTheWay, Wake!DecisionRecorded, Wake!HasEnd, Wake!Waits, Wake!Due
  <2> QED
    BY <2>1, <2>2, <2>3, <2>4, <2>5 DEF Wake!Next
<1>3. Wake!WakeInv => Wake!AgentsAreWoken
  <2> SUFFICES ASSUME Wake!WakeInv PROVE Wake!AgentsAreWoken
    OBVIOUS
  <2>1. "watcher" \in Tasks /\ Wake!NewsInv("watcher")
    BY DEF Wake!WakeInv, Wake!Assumption
  <2>2. Wake!Served("watcher") => ~Wake!HasEnd("watcher") /\ ~Wake!DecisionOnTheWay("watcher")
    BY DEF Wake!Served, Wake!HasEnd, Wake!DecisionOnTheWay
  <2>3. Wake!SleeperHasNothingToDo
    BY <2>1, <2>2 DEF Wake!SleeperHasNothingToDo, Wake!WakeInv, Wake!AgentInv, Wake!NewsInv,
                      Wake!DecisionRecorded, Wake!Waits, Wake!Due, Wake!Served
  <2>4. Wake!DecisionIsTheReason
    BY <2>1, <2>2 DEF Wake!DecisionIsTheReason, Wake!NewsInv, Wake!DecisionRecorded, Wake!Served
  <2> QED
    BY <2>3, <2>4 DEF Wake!AgentsAreWoken
<1> QED
  BY <1>1, <1>2, <1>3, PTL DEF Wake!Spec

-----------------------------------------------------------------------------
(* Sessions and Participants *)

CONSTANTS S, Id, Token, IdOf, TokenOf, Stateless, MaxJoins

VARIABLES known, live, entry, bound, pair, retired, banned, good, notices, asked, join, leaving,
          cleanup, closing, room

Mcp == INSTANCE McpSessions

\* The instance counts as the library does.
LEMMA CountingIs == \A X : Mcp!Cardinality(X) = Cardinality(X)
BY DEF Cardinality, Mcp!Cardinality

LEMMA NoneIs == ASSUME Mcp!Assumption PROVE Mcp!None \notin Mcp!P
BY DEF Mcp!Assumption, Mcp!None, Mcp!P

LEMMA PIs == ASSUME NEW p \in Mcp!P PROVE Mcp!Owner(p) \in Id
BY DEF Mcp!P, Mcp!Owner

\* Whether a join is under way.
LEMMA JoinIs ==
  ASSUME Mcp!Assumption, Mcp!TypeOK
  PROVE  /\ join = Mcp!Free <=> join.pc = "free"
         /\ join = Mcp!Free => join.p = Mcp!None /\ join.s \notin S
         /\ join # Mcp!Free => /\ join.s \in S /\ IdOf[join.s] \in Id
                               /\ join.p \in Mcp!P \cup {Mcp!None}
                               /\ join.pc \in {"look", "reconnect", "enter", "bind", "attach"}
BY DEF Mcp!Assumption, Mcp!TypeOK, Mcp!Free

\* Participants go and sessions end, and no join is touched.
LEMMA SessionsEndSafely ==
  ASSUME Mcp!Assumption, Mcp!SessionInv, Mcp!TypeOK', Mcp!NoGhostAgents',
         UNCHANGED <<join, pair, banned, leaving, good, notices>>,
         \A s \in S : entry'[s] \in {entry[s], Mcp!None},
         \A s \in S : entry'[s] # Mcp!None => s \in live',
         \A s \in live' : s \in live \/ ~Mcp!Revoked(s),
         \A s \in asked' : s \in asked \/ Mcp!Quiet(s),
         \A p \in Mcp!P : Mcp!InSnapshot(p)' => Mcp!InSnapshot(p),
         \A p \in Mcp!P : room[p] \in {"gone", "auto"} => room'[p] \in {"gone", "auto"}
  PROVE  Mcp!SessionInv'
<1>1. Mcp!JoinInv'
  <2> SUFFICES ASSUME join # Mcp!Free PROVE Mcp!JoinInv'
    BY DEF Mcp!JoinInv
  <2>1. join.s \in S /\ Mcp!JoinInv
    BY JoinIs DEF Mcp!SessionInv
  <2>2. join.s \notin asked'
    BY <2>1 DEF Mcp!JoinInv, Mcp!Quiet
  <2> QED
    BY <2>1, <2>2 DEF Mcp!JoinInv, Mcp!Revoked
<1>2. Mcp!PairInv'
  BY DEF Mcp!SessionInv, Mcp!PairInv
<1>3. Mcp!EntryInv'
  <2>1. \A s \in S : leaving[s] # Mcp!None => leaving[s] \in Mcp!P
    BY DEF Mcp!SessionInv, Mcp!TypeOK
  <2>2. \A s \in S : leaving[s] # Mcp!None => s \notin asked'
    BY DEF Mcp!SessionInv, Mcp!EntryInv, Mcp!Quiet
  <2>3. \A s \in S, r \in S : s # r /\ entry'[s] # Mcp!None => entry'[s] # entry'[r]
    BY DEF Mcp!SessionInv, Mcp!EntryInv
  <2> QED
    BY <2>1, <2>2, <2>3 DEF Mcp!SessionInv, Mcp!EntryInv
<1>4. Mcp!BannedInv'
  BY DEF Mcp!SessionInv, Mcp!BannedInv, Mcp!Revoked
<1> QED
  BY <1>1, <1>2, <1>3, <1>4 DEF Mcp!SessionInv

LEMMA CreateKeeps ==
  ASSUME Mcp!Assumption, Mcp!SessionInv, NEW s \in S,
         Mcp!Create(s) \/ Mcp!Register(s) \/ Mcp!Close(s)
  PROVE  Mcp!SessionInv'
<1>1. /\ UNCHANGED <<entry, bound, pair, retired, banned, good, notices, asked, join, leaving,
                     cleanup, room>>
      /\ live' = live \/ (live' = live \cup {s} /\ ~Mcp!Revoked(s))
      /\ known' \subseteq S \ Stateless /\ closing' \subseteq closing
  BY DEF Mcp!Create, Mcp!Register, Mcp!Close, Mcp!tables, Mcp!tokens, Mcp!tasks, Mcp!SessionInv,
         Mcp!TypeOK
<1>2. Mcp!TypeOK'
  BY <1>1 DEF Mcp!SessionInv, Mcp!TypeOK
<1>3. Mcp!NoGhostAgents'
  BY <1>1 DEF Mcp!SessionInv, Mcp!NoGhostAgents, Mcp!Held
<1>4. \A r \in S : entry[r] # Mcp!None => r \in live'
  BY <1>1 DEF Mcp!SessionInv, Mcp!EntryInv
<1> QED
  BY <1>1, <1>2, <1>3, <1>4, SessionsEndSafely DEF Mcp!InSnapshot

\* What is taken from the tables is left to be disconnected.
LEMMA TakenIs ==
  ASSUME Mcp!Assumption, Mcp!TypeOK, Mcp!EntryInv, NEW out \in SUBSET S, Mcp!Taken(out)
  PROVE  /\ live' = live \ out /\ bound' \subseteq bound
         /\ entry' \in [S -> Mcp!P \cup {Mcp!None}]
         /\ \A s \in out : entry'[s] = Mcp!None
         /\ \A s \in S \ out : entry'[s] = entry[s]
         /\ \A s \in S : entry'[s] # Mcp!None => s \in live'
         /\ cleanup' \subseteq [s : S, p : Mcp!P] /\ cleanup \subseteq cleanup'
         /\ \A p \in Mcp!P, s \in S : entry[s] = p => entry'[s] = p \/ \E c \in cleanup' : c.p = p
         /\ closing' \subseteq S
<1> DEFINE more == {[s |-> s, p |-> entry[s]] : s \in {x \in out : entry[x] # Mcp!None}}
<1>1. /\ live' = live \ out /\ bound' = bound \ out
      /\ entry' = [s \in S |-> IF s \in out THEN Mcp!None ELSE entry[s]]
      /\ cleanup' = cleanup \cup more
      /\ closing' = closing \cup (out \cap known)
  BY DEF Mcp!Taken
<1>2. more \subseteq [s : S, p : Mcp!P]
  BY DEF Mcp!TypeOK
<1>3. \A s \in out : entry[s] # Mcp!None => \E c \in more : c.p = entry[s]
  <2> SUFFICES ASSUME NEW s \in out, entry[s] # Mcp!None PROVE \E c \in more : c.p = entry[s]
    OBVIOUS
  <2>1. [s |-> s, p |-> entry[s]] \in more /\ [s |-> s, p |-> entry[s]].p = entry[s]
    OBVIOUS
  <2> QED
    BY <2>1
<1> HIDE DEF more
<1>4. \A p \in Mcp!P, s \in S : entry[s] = p => entry'[s] = p \/ \E c \in cleanup' : c.p = p
  BY <1>1, <1>3, NoneIs
<1> QED
  BY <1>1, <1>2, <1>4 DEF Mcp!TypeOK, Mcp!EntryInv

LEMMA ExpireKeeps ==
  ASSUME Mcp!Assumption, Mcp!SessionInv, NEW s \in S, Mcp!Expire(s)
  PROVE  Mcp!SessionInv'
<1>1. /\ Mcp!Taken({s})
      /\ UNCHANGED <<known, pair, retired, banned, good, notices, asked, join, leaving, room>>
  BY DEF Mcp!Expire, Mcp!tokens
<1>2. /\ live' \subseteq live /\ bound' \subseteq bound
      /\ entry' \in [S -> Mcp!P \cup {Mcp!None}]
      /\ \A r \in S : entry'[r] \in {entry[r], Mcp!None}
      /\ \A r \in S : entry'[r] # Mcp!None => r \in live'
      /\ cleanup' \subseteq [s : S, p : Mcp!P] /\ cleanup \subseteq cleanup'
      /\ \A p \in Mcp!P, r \in S : entry[r] = p => entry'[r] = p \/ \E c \in cleanup' : c.p = p
      /\ closing' \subseteq S
  BY <1>1, TakenIs DEF Mcp!SessionInv
<1>3. Mcp!TypeOK'
  BY <1>1, <1>2 DEF Mcp!SessionInv, Mcp!TypeOK
<1>4. Mcp!NoGhostAgents'
  BY <1>1, <1>2 DEF Mcp!SessionInv, Mcp!NoGhostAgents, Mcp!Held
<1> QED
  BY <1>1, <1>2, <1>3, <1>4, SessionsEndSafely DEF Mcp!InSnapshot

LEMMA DeleteKeeps ==
  ASSUME Mcp!Assumption, Mcp!SessionInv, NEW s \in S, Mcp!Delete(s)
  PROVE  Mcp!SessionInv'
<1> DEFINE c == [s |-> s, p |-> entry[s]]
<1>1. /\ known' = known \ {s} /\ live' = live \ {s} /\ bound' = bound \ {s}
      /\ entry' = [entry EXCEPT ![s] = Mcp!None]
      /\ cleanup' = IF entry[s] = Mcp!None THEN cleanup ELSE cleanup \cup {c}
      /\ UNCHANGED <<pair, retired, banned, good, notices, asked, join, leaving, closing, room>>
  BY DEF Mcp!Delete, Mcp!tokens
<1>2. entry[s] # Mcp!None => c \in [s : S, p : Mcp!P]
  BY DEF Mcp!SessionInv, Mcp!TypeOK
<1>3. c.p = entry[s]
  OBVIOUS
<1> HIDE DEF c
<1>4. /\ cleanup' \subseteq [s : S, p : Mcp!P] /\ cleanup \subseteq cleanup'
      /\ entry[s] # Mcp!None => c \in cleanup'
  BY <1>1, <1>2 DEF Mcp!SessionInv, Mcp!TypeOK
<1>5. /\ entry' \in [S -> Mcp!P \cup {Mcp!None}] /\ entry'[s] = Mcp!None
      /\ \A r \in S \ {s} : entry'[r] = entry[r]
  BY <1>1 DEF Mcp!SessionInv, Mcp!TypeOK
<1>6. Mcp!TypeOK'
  BY <1>1, <1>4, <1>5 DEF Mcp!SessionInv, Mcp!TypeOK
<1>7. Mcp!NoGhostAgents'
  BY <1>1, <1>3, <1>4, <1>5, NoneIs DEF Mcp!SessionInv, Mcp!NoGhostAgents, Mcp!Held
<1>8. \A r \in S : entry'[r] # Mcp!None => r \in live'
  BY <1>1, <1>5 DEF Mcp!SessionInv, Mcp!EntryInv
<1> QED
  BY <1>1, <1>5, <1>6, <1>7, <1>8, SessionsEndSafely DEF Mcp!InSnapshot

LEMMA SendDisconnectKeeps ==
  ASSUME Mcp!Assumption, Mcp!SessionInv, NEW c \in cleanup, Mcp!SendDisconnect(c)
  PROVE  Mcp!SessionInv'
<1>1. PICK as \in {"away", "stuck"} :
        room' = [room EXCEPT ![c.p] = IF @ \in {"here", "stuck"} THEN as ELSE @]
  BY DEF Mcp!SendDisconnect, Mcp!Disconnected, Mcp!Connected
<1>2. /\ cleanup' = cleanup \ {c}
      /\ UNCHANGED <<known, live, entry, bound, pair, retired, banned, good, notices, asked, join,
                     leaving, closing>>
      /\ c.p \in Mcp!P
  BY DEF Mcp!SendDisconnect, Mcp!tables, Mcp!tokens, Mcp!SessionInv, Mcp!TypeOK
<1>3. /\ room' \in [Mcp!P -> Mcp!Presence] /\ room'[c.p] # "here"
      /\ \A p \in Mcp!P \ {c.p} : room'[p] = room[p]
      /\ room[c.p] \notin {"here", "stuck"} => room'[c.p] = room[c.p]
  BY <1>1, <1>2 DEF Mcp!SessionInv, Mcp!TypeOK, Mcp!Presence
<1>4. Mcp!TypeOK'
  BY <1>2, <1>3 DEF Mcp!SessionInv, Mcp!TypeOK
<1>5. Mcp!NoGhostAgents'
  BY <1>2, <1>3 DEF Mcp!SessionInv, Mcp!NoGhostAgents, Mcp!Held
<1>6. \A p \in Mcp!P : Mcp!InSnapshot(p)' => Mcp!InSnapshot(p)
  BY <1>3 DEF Mcp!InSnapshot, Mcp!Connected
<1>7. \A p \in Mcp!P : room[p] \in {"gone", "auto"} => room'[p] \in {"gone", "auto"}
  BY <1>3
<1>8. \A s \in S : entry'[s] # Mcp!None => s \in live'
  BY <1>2 DEF Mcp!SessionInv, Mcp!EntryInv
<1> QED
  BY <1>2, <1>4, <1>5, <1>6, <1>7, <1>8, SessionsEndSafely

LEMMA AskJoinKeeps ==
  ASSUME Mcp!Assumption, Mcp!SessionInv, NEW s \in S, Mcp!AskJoin(s)
  PROVE  Mcp!SessionInv'
<1>1. /\ Mcp!Quiet(s) /\ asked' = asked \cup {s}
      /\ UNCHANGED <<known, live, entry, bound, pair, retired, banned, good, notices, join, leaving,
                     cleanup, closing, room>>
  BY DEF Mcp!AskJoin, Mcp!tables, Mcp!tokens, Mcp!tasks
<1>2. Mcp!TypeOK' /\ Mcp!NoGhostAgents'
  BY <1>1 DEF Mcp!SessionInv, Mcp!TypeOK, Mcp!NoGhostAgents, Mcp!Held
<1>3. \A r \in S : entry'[r] # Mcp!None => r \in live'
  BY <1>1 DEF Mcp!SessionInv, Mcp!EntryInv
<1> QED
  BY <1>1, <1>2, <1>3, SessionsEndSafely DEF Mcp!InSnapshot

LEMMA RoomDropsKeeps ==
  ASSUME Mcp!Assumption, Mcp!SessionInv, NEW p \in Mcp!P, Mcp!RoomDrops(p)
  PROVE  Mcp!SessionInv'
<1>1. PICK fate \in {"gone", "auto"} : room' = [room EXCEPT ![p] = fate]
  BY DEF Mcp!RoomDrops
<1>2. /\ Mcp!InSnapshot(p)
      /\ UNCHANGED <<known, live, entry, bound, pair, retired, banned, good, notices, asked, join,
                     leaving, cleanup, closing>>
  BY DEF Mcp!RoomDrops, Mcp!tables, Mcp!tokens, Mcp!tasks
<1>3. /\ room' \in [Mcp!P -> Mcp!Presence] /\ room'[p] \in {"gone", "auto"}
      /\ \A q \in Mcp!P \ {p} : room'[q] = room[q]
  BY <1>1 DEF Mcp!SessionInv, Mcp!TypeOK, Mcp!Presence
<1>4. Mcp!TypeOK'
  BY <1>2, <1>3 DEF Mcp!SessionInv, Mcp!TypeOK
<1>5. Mcp!NoGhostAgents'
  BY <1>2, <1>3 DEF Mcp!SessionInv, Mcp!NoGhostAgents, Mcp!Held
<1>6. \A q \in Mcp!P : Mcp!InSnapshot(q)' => Mcp!InSnapshot(q)
  BY <1>2, <1>3 DEF Mcp!InSnapshot
<1>7. \A s \in S : entry'[s] # Mcp!None => s \in live'
  BY <1>2 DEF Mcp!SessionInv, Mcp!EntryInv
<1> QED
  BY <1>2, <1>3, <1>4, <1>5, <1>6, <1>7, SessionsEndSafely

LEMMA LeaveRoomKeeps ==
  ASSUME Mcp!Assumption, Mcp!SessionInv, NEW s \in S, Mcp!LeaveRoom(s)
  PROVE  Mcp!SessionInv'
<1> DEFINE p == entry[s]
<1>1. PICK fate \in {"gone", "auto"} : room' = [room EXCEPT ![p] = fate]
  BY DEF Mcp!LeaveRoom
<1>2. /\ p # Mcp!None /\ Mcp!Quiet(s) /\ Mcp!InSnapshot(p)
      /\ leaving' = [leaving EXCEPT ![s] = p]
      /\ UNCHANGED <<known, live, entry, bound, pair, retired, banned, good, notices, asked, join,
                     cleanup, closing>>
  BY DEF Mcp!LeaveRoom, Mcp!tables, Mcp!tokens, Mcp!tasks
<1>3. p \in Mcp!P
  BY <1>2 DEF Mcp!SessionInv, Mcp!TypeOK
<1> HIDE DEF p
<1>4. /\ room' \in [Mcp!P -> Mcp!Presence] /\ room'[p] \in {"gone", "auto"}
      /\ \A q \in Mcp!P \ {p} : room'[q] = room[q]
  BY <1>1, <1>3 DEF Mcp!SessionInv, Mcp!TypeOK, Mcp!Presence
<1>5. /\ leaving' \in [S -> Mcp!P \cup {Mcp!None}] /\ leaving'[s] = p
      /\ \A r \in S \ {s} : leaving'[r] = leaving[r]
  BY <1>2, <1>3 DEF Mcp!SessionInv, Mcp!TypeOK
<1>6. Mcp!TypeOK'
  BY <1>2, <1>4, <1>5 DEF Mcp!SessionInv, Mcp!TypeOK
<1>7. Mcp!NoGhostAgents'
  BY <1>2, <1>4 DEF Mcp!SessionInv, Mcp!NoGhostAgents, Mcp!Held
<1>8. \A q \in Mcp!P : Mcp!InSnapshot(q)' => Mcp!InSnapshot(q)
  BY <1>2, <1>4 DEF Mcp!InSnapshot
<1>9. Mcp!JoinInv'
  BY <1>2, <1>8 DEF Mcp!SessionInv, Mcp!JoinInv, Mcp!Revoked
<1>10. Mcp!PairInv'
  BY <1>2, <1>8 DEF Mcp!SessionInv, Mcp!PairInv
<1>11. Mcp!EntryInv'
  <2>1. ASSUME NEW r \in S, leaving'[r] # Mcp!None
        PROVE  /\ r \notin asked' /\ join'.s # r /\ entry'[r] \in {Mcp!None, leaving'[r]}
               /\ room'[leaving'[r]] \in {"gone", "auto"}
    <3>1. CASE r = s
      BY <1>2, <1>4, <1>5, <3>1 DEF Mcp!Quiet, p
    <3>2. CASE r # s
      <4>1. leaving'[r] = leaving[r] /\ leaving[r] \in Mcp!P
        BY <1>5, <2>1, <3>2 DEF Mcp!SessionInv, Mcp!TypeOK
      <4> QED
        BY <1>2, <1>4, <2>1, <4>1 DEF Mcp!SessionInv, Mcp!EntryInv
    <3> QED
      BY <3>1, <3>2
  <2> QED
    BY <1>2, <2>1 DEF Mcp!SessionInv, Mcp!EntryInv
<1>12. Mcp!BannedInv'
  BY <1>2 DEF Mcp!SessionInv, Mcp!BannedInv, Mcp!Revoked
<1> QED
  BY <1>6, <1>7, <1>9, <1>10, <1>11, <1>12 DEF Mcp!SessionInv

LEMMA RemoveBindingKeeps ==
  ASSUME Mcp!Assumption, Mcp!SessionInv, NEW s \in S, Mcp!RemoveBinding(s)
  PROVE  Mcp!SessionInv'
<1>1. /\ leaving[s] # Mcp!None
      /\ leaving' = [leaving EXCEPT ![s] = Mcp!None] /\ entry' = [entry EXCEPT ![s] = Mcp!None]
      /\ retired' = IF entry[s] = Mcp!None THEN retired ELSE retired \cup {IdOf[s]}
      /\ UNCHANGED <<known, live, bound, pair, banned, good, notices, asked, join, cleanup,
                     closing, room>>
  BY DEF Mcp!RemoveBinding, Mcp!tokens, Mcp!tasks
<1>2. /\ leaving' \in [S -> Mcp!P \cup {Mcp!None}] /\ leaving'[s] = Mcp!None
      /\ \A r \in S \ {s} : leaving'[r] = leaving[r]
      /\ entry' \in [S -> Mcp!P \cup {Mcp!None}] /\ entry'[s] = Mcp!None
      /\ \A r \in S \ {s} : entry'[r] = entry[r]
      /\ retired' \subseteq Id
  BY <1>1 DEF Mcp!SessionInv, Mcp!TypeOK, Mcp!Assumption
<1>3. Mcp!TypeOK'
  BY <1>1, <1>2 DEF Mcp!SessionInv, Mcp!TypeOK
<1>4. /\ leaving[s] \in Mcp!P /\ entry[s] \in {Mcp!None, leaving[s]}
      /\ room[leaving[s]] \in {"gone", "auto"}
  BY <1>1 DEF Mcp!SessionInv, Mcp!TypeOK, Mcp!EntryInv
<1>5. Mcp!NoGhostAgents'
  BY <1>1, <1>2, <1>4, NoneIs DEF Mcp!SessionInv, Mcp!NoGhostAgents, Mcp!Held
<1>6. Mcp!JoinInv'
  <2>1. join # Mcp!Free => join.s \in S
    BY JoinIs DEF Mcp!SessionInv
  <2> QED
    BY <1>1, <1>2, <2>1 DEF Mcp!SessionInv, Mcp!JoinInv, Mcp!Revoked, Mcp!InSnapshot
<1>7. Mcp!PairInv'
  BY <1>1 DEF Mcp!SessionInv, Mcp!PairInv, Mcp!InSnapshot
<1>8. Mcp!EntryInv'
  BY <1>1, <1>2 DEF Mcp!SessionInv, Mcp!EntryInv
<1>9. Mcp!BannedInv'
  BY <1>1, <1>2 DEF Mcp!SessionInv, Mcp!BannedInv, Mcp!Revoked
<1> QED
  BY <1>3, <1>5, <1>6, <1>7, <1>8, <1>9 DEF Mcp!SessionInv

LEMMA RevokeKeeps ==
  ASSUME Mcp!Assumption, Mcp!SessionInv, NEW t \in Token, Mcp!Revoke(t)
  PROVE  Mcp!SessionInv'
<1>1. /\ good' = good \ {t} /\ notices' = notices \cup {<<t, "rooms">>, <<t, "mcp">>}
      /\ UNCHANGED <<known, live, entry, bound, pair, retired, banned, asked, join, leaving, cleanup,
                     closing, room>>
  BY DEF Mcp!Revoke, Mcp!tables, Mcp!tasks
<1>2. Mcp!TypeOK'
  BY <1>1 DEF Mcp!SessionInv, Mcp!TypeOK
<1>3. Mcp!JoinInv' /\ Mcp!PairInv' /\ Mcp!EntryInv' /\ Mcp!NoGhostAgents'
  BY <1>1 DEF Mcp!SessionInv, Mcp!JoinInv, Mcp!PairInv, Mcp!EntryInv, Mcp!NoGhostAgents, Mcp!Held,
              Mcp!Revoked, Mcp!InSnapshot
<1>4. Mcp!BannedInv'
  BY <1>1 DEF Mcp!SessionInv, Mcp!BannedInv, Mcp!Revoked
<1> QED
  BY <1>2, <1>3, <1>4 DEF Mcp!SessionInv

LEMMA RoomsHearKeeps ==
  ASSUME Mcp!Assumption, Mcp!SessionInv, NEW t \in Token, Mcp!RoomsHear(t)
  PROVE  Mcp!SessionInv'
<1>1. PICK fate \in {"gone", "auto"} :
        room' = [p \in Mcp!P |-> IF p \in Mcp!OfToken(t) /\ Mcp!InSnapshot(p) THEN fate ELSE room[p]]
  BY DEF Mcp!RoomsHear
<1>2. /\ notices' = notices \ {<<t, "rooms">>}
      /\ UNCHANGED <<known, live, entry, bound, pair, retired, banned, good, asked, join, leaving,
                     cleanup, closing>>
  BY DEF Mcp!RoomsHear, Mcp!tables, Mcp!tasks
<1>3. /\ room' \in [Mcp!P -> Mcp!Presence]
      /\ \A p \in Mcp!P : /\ room'[p] = "here" => room[p] = "here"
                          /\ Mcp!InSnapshot(p)' => Mcp!InSnapshot(p)
                          /\ room[p] \in {"gone", "auto"} => room'[p] \in {"gone", "auto"}
  BY <1>1 DEF Mcp!SessionInv, Mcp!TypeOK, Mcp!Presence, Mcp!InSnapshot
<1>4. Mcp!TypeOK'
  BY <1>2, <1>3 DEF Mcp!SessionInv, Mcp!TypeOK
<1>5. Mcp!NoGhostAgents'
  BY <1>2, <1>3 DEF Mcp!SessionInv, Mcp!NoGhostAgents, Mcp!Held
<1>6. Mcp!JoinInv' /\ Mcp!PairInv'
  BY <1>2, <1>3 DEF Mcp!SessionInv, Mcp!JoinInv, Mcp!PairInv, Mcp!Revoked
<1>7. Mcp!EntryInv'
  <2>1. \A s \in S : leaving[s] # Mcp!None => leaving[s] \in Mcp!P
    BY DEF Mcp!SessionInv, Mcp!TypeOK
  <2> QED
    BY <1>2, <1>3, <2>1 DEF Mcp!SessionInv, Mcp!EntryInv
<1>8. Mcp!BannedInv'
  BY <1>2 DEF Mcp!SessionInv, Mcp!BannedInv, Mcp!Revoked
<1> QED
  BY <1>4, <1>5, <1>6, <1>7, <1>8 DEF Mcp!SessionInv

LEMMA McpHearsKeeps ==
  ASSUME Mcp!Assumption, Mcp!SessionInv, NEW t \in Token, Mcp!McpHears(t)
  PROVE  Mcp!SessionInv'
<1> DEFINE out == Mcp!SessionsOf(t) \cap live
<1>1. /\ join = Mcp!Free /\ notices' = notices \ {<<t, "mcp">>} /\ banned' = banned \cup {t}
      /\ Mcp!Taken(out)
      /\ pair' = [i \in Id |-> IF TokenOf[i] = t THEN Mcp!None ELSE pair[i]]
      /\ retired' = {i \in retired : TokenOf[i] # t}
      /\ UNCHANGED <<known, good, asked, join, leaving, room>>
  BY DEF Mcp!McpHears
<1>2. out \in SUBSET S
  BY DEF Mcp!SessionsOf
<1>3. /\ live' = live \ out /\ bound' \subseteq bound
      /\ entry' \in [S -> Mcp!P \cup {Mcp!None}]
      /\ \A s \in out : entry'[s] = Mcp!None
      /\ \A s \in S \ out : entry'[s] = entry[s]
      /\ \A s \in S : entry'[s] # Mcp!None => s \in live'
      /\ cleanup' \subseteq [s : S, p : Mcp!P] /\ cleanup \subseteq cleanup'
      /\ \A p \in Mcp!P, s \in S : entry[s] = p => entry'[s] = p \/ \E c \in cleanup' : c.p = p
      /\ closing' \subseteq S
  BY <1>1, <1>2, TakenIs DEF Mcp!SessionInv
<1> HIDE DEF out
<1>4. pair' \in [Id -> Mcp!P \cup {Mcp!None}] /\ retired' \subseteq Id
  BY <1>1 DEF Mcp!SessionInv, Mcp!TypeOK
<1>5. Mcp!TypeOK'
  BY <1>1, <1>3, <1>4 DEF Mcp!SessionInv, Mcp!TypeOK
<1>6. Mcp!NoGhostAgents'
  BY <1>1, <1>3 DEF Mcp!SessionInv, Mcp!NoGhostAgents, Mcp!Held
<1>7. Mcp!JoinInv'
  BY <1>1 DEF Mcp!JoinInv, Mcp!Free
<1>8. Mcp!PairInv'
  <2>1. \A p \in Mcp!P : TokenOf[Mcp!Owner(p)] \notin banned' =>
          TokenOf[Mcp!Owner(p)] \notin banned /\ pair'[Mcp!Owner(p)] = pair[Mcp!Owner(p)]
    BY <1>1, PIs
  <2>2. \A i \in Id : pair'[i] # Mcp!None => Mcp!Owner(pair'[i]) = i
    BY <1>1 DEF Mcp!SessionInv, Mcp!PairInv
  <2> QED
    BY <1>1, <2>1, <2>2 DEF Mcp!SessionInv, Mcp!PairInv, Mcp!InSnapshot
<1>9. Mcp!EntryInv'
  BY <1>1, <1>3 DEF Mcp!SessionInv, Mcp!EntryInv
<1>10. Mcp!BannedInv'
  <2>1. \A u \in Token : u \in good' \/ <<u, "mcp">> \in notices' \/ u \in banned'
    BY <1>1 DEF Mcp!SessionInv, Mcp!BannedInv
  <2>2. ASSUME NEW s \in S, Mcp!Revoked(s)' PROVE entry'[s] = Mcp!None /\ s \notin live'
    <3>1. CASE TokenOf[IdOf[s]] = t
      <4>1. s \in Mcp!SessionsOf(t)
        BY <3>1 DEF Mcp!SessionsOf
      <4>2. s \notin live'
        BY <1>3, <4>1 DEF out
      <4> QED
        BY <1>3, <4>2
    <3>2. CASE TokenOf[IdOf[s]] # t
      BY <1>1, <1>3, <2>2, <3>2 DEF Mcp!SessionInv, Mcp!BannedInv, Mcp!Revoked
    <3> QED
      BY <3>1, <3>2
  <2> QED
    BY <2>1, <2>2 DEF Mcp!BannedInv
<1> QED
  BY <1>5, <1>6, <1>7, <1>8, <1>9, <1>10 DEF Mcp!SessionInv

\* A step of a join that leaves the tables alone.
LEMMA JoinGoesOn ==
  ASSUME Mcp!Assumption, Mcp!SessionInv, Mcp!TypeOK', Mcp!JoinInv', Mcp!PairInv',
         Mcp!NoGhostAgents',
         UNCHANGED <<live, entry, pair, banned, leaving, good, notices>>,
         asked' \subseteq asked, join'.s \in {join.s, "none"} \cup asked,
         \A p \in Mcp!P : room[p] \in {"gone", "auto"} => room'[p] \in {"gone", "auto"}
  PROVE  Mcp!SessionInv'
<1>1. \A s \in S : leaving[s] # Mcp!None => leaving[s] \in Mcp!P /\ s # "none"
  BY DEF Mcp!SessionInv, Mcp!TypeOK, Mcp!Assumption
<1>2. Mcp!EntryInv'
  BY <1>1 DEF Mcp!SessionInv, Mcp!EntryInv
<1>3. Mcp!BannedInv'
  BY DEF Mcp!SessionInv, Mcp!BannedInv, Mcp!Revoked
<1> QED
  BY <1>2, <1>3 DEF Mcp!SessionInv

LEMMA LockJoinKeeps ==
  ASSUME Mcp!Assumption, Mcp!SessionInv, NEW s \in S, Mcp!LockJoin(s)
  PROVE  Mcp!SessionInv'
<1> DEFINE j == [pc |-> "look", s |-> s, p |-> pair[IdOf[s]]]
<1>1. /\ s \in asked /\ join = Mcp!Free /\ asked' = asked \ {s}
      /\ join' = Mcp!Free \/ (join' = j /\ ~Mcp!Revoked(s) /\ entry[s] = Mcp!None)
      /\ UNCHANGED <<known, live, entry, bound, pair, retired, banned, good, notices, leaving,
                     cleanup, closing, room>>
  BY DEF Mcp!LockJoin, Mcp!tables, Mcp!tokens, Mcp!tasks
<1>2. /\ j.pc = "look" /\ j.s = s /\ j.p = pair[IdOf[s]]
      /\ j \in [pc : {"look", "reconnect", "enter", "bind", "attach"}, s : S,
                p : Mcp!P \cup {Mcp!None}]
  BY DEF Mcp!SessionInv, Mcp!TypeOK, Mcp!Assumption
<1>3. join.pc = "free" /\ join.p = Mcp!None /\ Mcp!Free.s = "none" /\ Mcp!Free.pc = "free"
  BY <1>1 DEF Mcp!Free
<1> HIDE DEF j
<1>4. Mcp!TypeOK'
  BY <1>1, <1>2 DEF Mcp!SessionInv, Mcp!TypeOK
<1>5. Mcp!JoinInv'
  BY <1>1, <1>2 DEF Mcp!JoinInv, Mcp!Revoked
<1>6. Mcp!PairInv'
  BY <1>1, <1>3 DEF Mcp!SessionInv, Mcp!PairInv, Mcp!InSnapshot
<1>7. Mcp!NoGhostAgents'
  BY <1>1, <1>3, NoneIs DEF Mcp!SessionInv, Mcp!NoGhostAgents, Mcp!Held
<1>8. join'.s \in {join.s, "none"} \cup asked
  BY <1>1, <1>2, <1>3
<1> QED
  BY <1>1, <1>4, <1>5, <1>6, <1>7, <1>8, JoinGoesOn

LEMMA LookKeeps ==
  ASSUME Mcp!Assumption, Mcp!SessionInv, Mcp!Look
  PROVE  Mcp!SessionInv'
<1> DEFINE i == IdOf[join.s]
           j == [pc |-> "enter", s |-> join.s, p |-> Mcp!None]
<1>1. /\ join.pc = "look"
      /\ UNCHANGED <<known, live, entry, bound, pair, retired, banned, good, notices, asked, leaving,
                     cleanup, closing, room>>
  BY DEF Mcp!Look, Mcp!tables, Mcp!tokens, Mcp!tasks
<1>2. /\ join # Mcp!Free /\ join.s \in S /\ i \in Id /\ join.p \in Mcp!P \cup {Mcp!None}
      /\ join \in [pc : {"look", "reconnect", "enter", "bind", "attach"}, s : S,
                   p : Mcp!P \cup {Mcp!None}]
  BY <1>1, JoinIs DEF Mcp!SessionInv, Mcp!TypeOK
<1>3. /\ ~Mcp!Revoked(join.s) /\ join.s \notin asked /\ join.p = pair[i]
      /\ entry[join.s] = Mcp!None
  BY <1>1, <1>2 DEF Mcp!SessionInv, Mcp!JoinInv
<1>4. CASE /\ join.p # Mcp!None /\ Mcp!InSnapshot(join.p)
           /\ join' = [join EXCEPT !.pc = "reconnect"]
  <2>1. join' = [join EXCEPT !.pc = "reconnect"]
    BY <1>4
  <2>2. /\ join'.pc = "reconnect" /\ join'.s = join.s /\ join'.p = join.p /\ join' # Mcp!Free
        /\ join' \in [pc : {"look", "reconnect", "enter", "bind", "attach"}, s : S,
                      p : Mcp!P \cup {Mcp!None}]
    BY <1>2, <2>1 DEF Mcp!Free
  <2>3. Mcp!TypeOK'
    BY <1>1, <2>2 DEF Mcp!SessionInv, Mcp!TypeOK
  <2>4. Mcp!JoinInv'
    BY <1>1, <1>3, <1>4, <2>2 DEF Mcp!JoinInv, Mcp!Revoked
  <2>5. Mcp!PairInv' /\ Mcp!NoGhostAgents'
    BY <1>1, <2>2 DEF Mcp!SessionInv, Mcp!PairInv, Mcp!NoGhostAgents, Mcp!Held, Mcp!InSnapshot
  <2> QED
    BY <1>1, <2>2, <2>3, <2>4, <2>5, JoinGoesOn
<1>5. CASE \/ join' = Mcp!Free
           \/ join' = j /\ ~(join.p # Mcp!None /\ Mcp!InSnapshot(join.p))
  <2>1. join' = Mcp!Free \/ join' = j
    BY <1>5
  <2>2. /\ Mcp!Free.pc = "free" /\ Mcp!Free.s = "none"
        /\ j.pc = "enter" /\ j.s = join.s /\ j.p = Mcp!None
        /\ j \in [pc : {"look", "reconnect", "enter", "bind", "attach"}, s : S,
                  p : Mcp!P \cup {Mcp!None}]
    BY <1>2 DEF Mcp!Free
  <2> HIDE DEF j
  <2>3. Mcp!TypeOK'
    BY <1>1, <2>1, <2>2 DEF Mcp!SessionInv, Mcp!TypeOK
  <2>4. join' # Mcp!Free => \A p \in Mcp!P : Mcp!Owner(p) = i => ~Mcp!InSnapshot(p)
    BY <1>1, <1>3, <1>5, NoneIs DEF Mcp!SessionInv, Mcp!PairInv, Mcp!Revoked
  <2>5. Mcp!JoinInv'
    BY <1>1, <1>3, <2>1, <2>2, <2>4 DEF Mcp!JoinInv, Mcp!Revoked, Mcp!InSnapshot
  <2>6. Mcp!PairInv'
    BY <1>1, <2>1, <2>2 DEF Mcp!SessionInv, Mcp!PairInv, Mcp!InSnapshot
  <2>7. Mcp!NoGhostAgents'
    BY <1>1 DEF Mcp!SessionInv, Mcp!NoGhostAgents, Mcp!Held
  <2>8. join'.s \in {join.s, "none"}
    BY <2>1, <2>2
  <2> QED
    BY <1>1, <2>3, <2>5, <2>6, <2>7, <2>8, JoinGoesOn
<1> QED
  BY <1>4, <1>5 DEF Mcp!Look

LEMMA ReconnectKeeps ==
  ASSUME Mcp!Assumption, Mcp!SessionInv, Mcp!Reconnect
  PROVE  Mcp!SessionInv'
<1> DEFINE i == IdOf[join.s]
           p == join.p
<1>1. /\ join.pc = "reconnect"
      /\ UNCHANGED <<known, live, entry, bound, pair, retired, banned, good, notices, asked, leaving,
                     cleanup, closing>>
  BY DEF Mcp!Reconnect, Mcp!tables, Mcp!tokens, Mcp!tasks
<1>2. /\ join # Mcp!Free /\ join.s \in S /\ i \in Id
      /\ join \in [pc : {"look", "reconnect", "enter", "bind", "attach"}, s : S,
                   p : Mcp!P \cup {Mcp!None}]
  BY <1>1, JoinIs DEF Mcp!SessionInv, Mcp!TypeOK
<1>3. /\ ~Mcp!Revoked(join.s) /\ join.s \notin asked /\ p = pair[i] /\ p # Mcp!None
      /\ entry[join.s] = Mcp!None /\ p \in Mcp!P
  BY <1>1, <1>2 DEF Mcp!SessionInv, Mcp!JoinInv
<1>4. CASE /\ room[p] \in {"here", "stuck", "away"}
           /\ room' = [room EXCEPT ![p] = "here"] /\ join' = [join EXCEPT !.pc = "bind"]
  <2>1. room' = [room EXCEPT ![p] = "here"] /\ join' = [join EXCEPT !.pc = "bind"]
    BY <1>4
  <2>2. /\ join'.pc = "bind" /\ join'.s = join.s /\ join'.p = p /\ join' # Mcp!Free
        /\ join' \in [pc : {"look", "reconnect", "enter", "bind", "attach"}, s : S,
                      p : Mcp!P \cup {Mcp!None}]
    BY <1>2, <2>1 DEF Mcp!Free
  <2> HIDE DEF p
  <2>3. /\ room' \in [Mcp!P -> Mcp!Presence] /\ room'[p] = "here"
        /\ \A q \in Mcp!P \ {p} : room'[q] = room[q]
    BY <1>3, <2>1 DEF Mcp!SessionInv, Mcp!TypeOK, Mcp!Presence
  <2>4. Mcp!TypeOK'
    BY <1>1, <2>2, <2>3 DEF Mcp!SessionInv, Mcp!TypeOK
  <2>5. \A q \in Mcp!P : Mcp!InSnapshot(q)' <=> Mcp!InSnapshot(q)
    BY <1>4, <2>3 DEF Mcp!InSnapshot, Mcp!Connected
  <2>6. \A q \in Mcp!P : Mcp!Owner(q) = i /\ Mcp!InSnapshot(q) => q = p
    BY <1>1, <1>3 DEF Mcp!SessionInv, Mcp!PairInv, Mcp!Revoked
  <2>7. Mcp!Owner(p) = i
    BY <1>2, <1>3 DEF Mcp!SessionInv, Mcp!PairInv
  <2>8. Mcp!JoinInv'
    BY <1>1, <1>3, <2>2, <2>5, <2>6, <2>7 DEF Mcp!JoinInv, Mcp!Revoked
  <2>9. Mcp!PairInv'
    BY <1>1, <2>2, <2>5 DEF Mcp!SessionInv, Mcp!PairInv
  <2>10. Mcp!NoGhostAgents'
    BY <1>1, <2>2, <2>3 DEF Mcp!SessionInv, Mcp!NoGhostAgents, Mcp!Held, p
  <2> QED
    BY <1>1, <1>4, <2>2, <2>3, <2>4, <2>8, <2>9, <2>10, JoinGoesOn
<1>5. CASE join' = Mcp!Free /\ UNCHANGED room
  <2>1. join' = Mcp!Free /\ UNCHANGED room
    BY <1>5
  <2>2. Mcp!Free.pc = "free" /\ Mcp!Free.s = "none"
    BY DEF Mcp!Free
  <2>3. Mcp!TypeOK'
    BY <1>1, <2>1 DEF Mcp!SessionInv, Mcp!TypeOK
  <2>4. Mcp!JoinInv'
    BY <2>1 DEF Mcp!JoinInv
  <2>5. Mcp!PairInv'
    BY <1>1, <2>1 DEF Mcp!SessionInv, Mcp!PairInv, Mcp!InSnapshot
  <2>6. Mcp!NoGhostAgents'
    BY <1>1, <2>1 DEF Mcp!SessionInv, Mcp!NoGhostAgents, Mcp!Held
  <2> QED
    BY <1>1, <2>1, <2>2, <2>3, <2>4, <2>5, <2>6, JoinGoesOn
<1> QED
  BY <1>4, <1>5 DEF Mcp!Reconnect, Mcp!Connected

LEMMA EnterKeeps ==
  ASSUME Mcp!Assumption, Mcp!SessionInv, Mcp!Enter
  PROVE  Mcp!SessionInv'
<1> DEFINE i == IdOf[join.s]
<1>1. /\ join.pc = "enter"
      /\ UNCHANGED <<known, live, entry, bound, pair, retired, banned, good, notices, asked, leaving,
                     cleanup, closing>>
  BY DEF Mcp!Enter, Mcp!tables, Mcp!tokens, Mcp!tasks
<1>2. join # Mcp!Free /\ join.s \in S /\ i \in Id
  BY <1>1, JoinIs DEF Mcp!SessionInv
<1>3. /\ ~Mcp!Revoked(join.s) /\ join.s \notin asked /\ join.p = Mcp!None
      /\ entry[join.s] = Mcp!None
      /\ \A p \in Mcp!P : Mcp!Owner(p) = i => ~Mcp!InSnapshot(p)
  BY <1>1, <1>2 DEF Mcp!SessionInv, Mcp!JoinInv
<1>4. ASSUME NEW n \in 1 .. MaxJoins, room[<<i, n>>] = "unused",
             room' = [room EXCEPT ![<<i, n>>] = "here"],
             join' = [pc |-> "bind", s |-> join.s, p |-> <<i, n>>]
      PROVE  Mcp!SessionInv'
  <2> DEFINE p == <<i, n>>
  <2>1. p \in Mcp!P /\ Mcp!Owner(p) = i
    BY <1>2 DEF Mcp!P, Mcp!Owner
  <2>2. /\ join'.pc = "bind" /\ join'.s = join.s /\ join'.p = p /\ join' # Mcp!Free
        /\ join' \in [pc : {"look", "reconnect", "enter", "bind", "attach"}, s : S,
                      p : Mcp!P \cup {Mcp!None}]
    BY <1>2, <1>4, <2>1 DEF Mcp!Free
  <2>3. room[p] = "unused" /\ room' = [room EXCEPT ![p] = "here"]
    BY <1>4
  <2> HIDE DEF p
  <2>4. /\ room' \in [Mcp!P -> Mcp!Presence] /\ room'[p] = "here"
        /\ \A q \in Mcp!P \ {p} : room'[q] = room[q]
    BY <2>1, <2>3 DEF Mcp!SessionInv, Mcp!TypeOK, Mcp!Presence
  <2>5. Mcp!TypeOK'
    BY <1>1, <2>2, <2>4 DEF Mcp!SessionInv, Mcp!TypeOK
  <2>6. \A q \in Mcp!P \ {p} : Mcp!InSnapshot(q)' <=> Mcp!InSnapshot(q)
    BY <2>4 DEF Mcp!InSnapshot
  <2>7. \A q \in Mcp!P : Mcp!Owner(q) = i /\ Mcp!InSnapshot(q)' => q = p
    BY <1>3, <2>6
  <2>8. Mcp!JoinInv'
    BY <1>1, <1>3, <2>1, <2>2, <2>7, NoneIs DEF Mcp!JoinInv, Mcp!Revoked
  <2>9. Mcp!PairInv'
    <3>1. ASSUME NEW q \in Mcp!P, Mcp!InSnapshot(q)', TokenOf[Mcp!Owner(q)] \notin banned'
          PROVE  pair'[Mcp!Owner(q)] = q \/ (join'.pc = "bind" /\ IdOf[join'.s] = Mcp!Owner(q))
      <4>1. CASE q = p
        BY <2>1, <2>2, <4>1
      <4>2. CASE q # p
        BY <1>1, <2>6, <3>1, <4>2 DEF Mcp!SessionInv, Mcp!PairInv
      <4> QED
        BY <4>1, <4>2
    <3>2. ASSUME NEW q \in Mcp!P, NEW r \in Mcp!P, Mcp!InSnapshot(q)', Mcp!InSnapshot(r)',
                 Mcp!Owner(q) = Mcp!Owner(r)
          PROVE  q = r
      <4>1. CASE Mcp!Owner(q) = i
        BY <2>7, <3>2, <4>1
      <4>2. CASE Mcp!Owner(q) # i
        BY <2>1, <2>6, <3>2, <4>2 DEF Mcp!SessionInv, Mcp!PairInv
      <4> QED
        BY <4>1, <4>2
    <3> QED
      BY <1>1, <3>1, <3>2 DEF Mcp!SessionInv, Mcp!PairInv
  <2>10. Mcp!NoGhostAgents'
    BY <1>1, <1>3, <2>2, <2>4, NoneIs DEF Mcp!SessionInv, Mcp!NoGhostAgents, Mcp!Held
  <2> QED
    BY <1>1, <2>2, <2>3, <2>4, <2>5, <2>8, <2>9, <2>10, JoinGoesOn
<1>5. CASE join' = Mcp!Free /\ UNCHANGED room
  <2>1. Mcp!Free.pc = "free" /\ Mcp!Free.s = "none"
    BY DEF Mcp!Free
  <2>2. Mcp!TypeOK'
    BY <1>1, <1>5 DEF Mcp!SessionInv, Mcp!TypeOK
  <2>3. Mcp!JoinInv'
    BY <1>5 DEF Mcp!JoinInv
  <2>4. Mcp!PairInv'
    BY <1>1, <1>5 DEF Mcp!SessionInv, Mcp!PairInv, Mcp!InSnapshot
  <2>5. Mcp!NoGhostAgents'
    BY <1>1, <1>3, <1>5, NoneIs DEF Mcp!SessionInv, Mcp!NoGhostAgents, Mcp!Held
  <2> QED
    BY <1>1, <1>5, <2>1, <2>2, <2>3, <2>4, <2>5, JoinGoesOn
<1> QED
  BY <1>4, <1>5 DEF Mcp!Enter

LEMMA BindKeeps ==
  ASSUME Mcp!Assumption, Mcp!SessionInv, Mcp!Bind
  PROVE  Mcp!SessionInv'
<1> DEFINE i == IdOf[join.s]
           j == join.s
           p == join.p
<1>1. /\ join.pc = "bind"
      /\ live' = (live \ Mcp!Old) \cup {j} /\ bound' = (bound \ Mcp!Old) \cup {j}
      /\ entry' = [s \in S |-> IF s = j THEN p ELSE IF s \in Mcp!Old THEN Mcp!None ELSE entry[s]]
      /\ pair' = [pair EXCEPT ![i] = p]
      /\ known' = known \ Mcp!Old
      /\ join' = [join EXCEPT !.pc = "attach"]
      /\ UNCHANGED <<retired, banned, good, notices, asked, leaving, cleanup, closing, room>>
  BY DEF Mcp!Bind, Mcp!tokens, Mcp!tasks
<1>2. /\ join # Mcp!Free /\ j \in S /\ i \in Id
      /\ join \in [pc : {"look", "reconnect", "enter", "bind", "attach"}, s : S,
                   p : Mcp!P \cup {Mcp!None}]
  BY <1>1, JoinIs DEF Mcp!SessionInv, Mcp!TypeOK
<1>3. /\ ~Mcp!Revoked(j) /\ j \notin asked /\ p # Mcp!None /\ p \in Mcp!P
      /\ entry[j] = Mcp!None /\ Mcp!Owner(p) = i
      /\ \A q \in Mcp!P : Mcp!Owner(q) = i /\ Mcp!InSnapshot(q) => q = p
  BY <1>1, <1>2 DEF Mcp!SessionInv, Mcp!JoinInv
<1>4. /\ join'.pc = "attach" /\ join'.s = j /\ join'.p = p /\ join' # Mcp!Free
      /\ join' \in [pc : {"look", "reconnect", "enter", "bind", "attach"}, s : S,
                    p : Mcp!P \cup {Mcp!None}]
  BY <1>1, <1>2 DEF Mcp!Free
<1>5. \A s \in S : s \in Mcp!Old <=> s # j /\ entry[s] = p
  BY DEF Mcp!Old
<1>6. Mcp!Old \subseteq S
  BY DEF Mcp!Old
<1> HIDE DEF p
<1>7. /\ entry' \in [S -> Mcp!P \cup {Mcp!None}] /\ entry'[j] = p
      /\ \A s \in S \ {j} : entry'[s] = IF entry[s] = p THEN Mcp!None ELSE entry[s]
  BY <1>1, <1>2, <1>3, <1>5 DEF Mcp!SessionInv, Mcp!TypeOK
<1>8. /\ pair' \in [Id -> Mcp!P \cup {Mcp!None}] /\ pair'[i] = p
      /\ \A k \in Id \ {i} : pair'[k] = pair[k]
  BY <1>1, <1>2, <1>3 DEF Mcp!SessionInv, Mcp!TypeOK
<1>9. Mcp!TypeOK'
  BY <1>1, <1>2, <1>4, <1>6, <1>7, <1>8 DEF Mcp!SessionInv, Mcp!TypeOK
<1>10. Mcp!JoinInv'
  BY <1>1, <1>3, <1>4, <1>7 DEF Mcp!JoinInv, Mcp!Revoked
<1>11. Mcp!PairInv'
  <2>1. \A k \in Id : pair'[k] # Mcp!None => Mcp!Owner(pair'[k]) = k
    BY <1>3, <1>8 DEF Mcp!SessionInv, Mcp!PairInv
  <2>2. ASSUME NEW q \in Mcp!P, Mcp!InSnapshot(q), TokenOf[Mcp!Owner(q)] \notin banned
        PROVE  pair'[Mcp!Owner(q)] = q
    <3>1. CASE Mcp!Owner(q) = i
      BY <1>3, <1>8, <2>2, <3>1
    <3>2. CASE Mcp!Owner(q) # i
      BY <1>8, <2>2, <3>2, PIs DEF Mcp!SessionInv, Mcp!PairInv
    <3> QED
      BY <3>1, <3>2
  <2> QED
    BY <1>1, <2>1, <2>2 DEF Mcp!SessionInv, Mcp!PairInv, Mcp!InSnapshot
<1>12. Mcp!EntryInv'
  <2>1. \A s \in S, r \in S : s # r /\ entry'[s] # Mcp!None => entry'[s] # entry'[r]
    BY <1>3, <1>7 DEF Mcp!SessionInv, Mcp!EntryInv
  <2>2. \A s \in S : entry'[s] # Mcp!None => s \in live'
    BY <1>1, <1>5, <1>7 DEF Mcp!SessionInv, Mcp!EntryInv
  <2>3. ASSUME NEW s \in S, leaving'[s] # Mcp!None
        PROVE  /\ s \notin asked' /\ join'.s # s /\ entry'[s] \in {Mcp!None, leaving'[s]}
               /\ room'[leaving'[s]] \in {"gone", "auto"}
    BY <1>1, <1>4, <1>7, <2>3 DEF Mcp!SessionInv, Mcp!EntryInv
  <2> QED
    BY <2>1, <2>2, <2>3 DEF Mcp!EntryInv
<1>13. Mcp!NoGhostAgents'
  <2> SUFFICES ASSUME NEW q \in Mcp!P, room[q] = "here"
               PROVE  (\E s \in S : entry'[s] = q) \/ \E c \in cleanup' : c.p = q
    BY <1>1 DEF Mcp!NoGhostAgents, Mcp!Held
  <2>1. \/ \E s \in S : entry[s] = q
        \/ p = q
        \/ \E c \in cleanup : c.p = q
    BY DEF Mcp!SessionInv, Mcp!NoGhostAgents, Mcp!Held, p
  <2> QED
    BY <1>1, <1>3, <1>4, <1>7, <2>1, NoneIs
<1>14. Mcp!BannedInv'
  BY <1>1, <1>3, <1>7 DEF Mcp!SessionInv, Mcp!BannedInv, Mcp!Revoked
<1> QED
  BY <1>9, <1>10, <1>11, <1>12, <1>13, <1>14 DEF Mcp!SessionInv

LEMMA AttachKeeps ==
  ASSUME Mcp!Assumption, Mcp!SessionInv, Mcp!Attach
  PROVE  Mcp!SessionInv'
<1>1. /\ join.pc = "attach" /\ entry[join.s] = join.p /\ join' = Mcp!Free
      /\ UNCHANGED <<known, live, entry, bound, pair, retired, banned, good, notices, asked, leaving,
                     cleanup, closing, room>>
  BY DEF Mcp!Attach, Mcp!tables, Mcp!tokens, Mcp!tasks
<1>2. /\ Mcp!Free.pc = "free" /\ Mcp!Free.s = "none" /\ join.s \in S
  BY <1>1, JoinIs DEF Mcp!Free, Mcp!SessionInv
<1>3. Mcp!TypeOK'
  BY <1>1 DEF Mcp!SessionInv, Mcp!TypeOK
<1>4. Mcp!JoinInv'
  BY <1>1 DEF Mcp!JoinInv
<1>5. Mcp!PairInv'
  BY <1>1 DEF Mcp!SessionInv, Mcp!PairInv, Mcp!InSnapshot
<1>6. Mcp!NoGhostAgents'
  BY <1>1, <1>2 DEF Mcp!SessionInv, Mcp!NoGhostAgents, Mcp!Held
<1> QED
  BY <1>1, <1>2, <1>3, <1>4, <1>5, <1>6, JoinGoesOn

LEMMA AttachFailsKeeps ==
  ASSUME Mcp!Assumption, Mcp!SessionInv, Mcp!AttachFails
  PROVE  Mcp!SessionInv'
<1> DEFINE j == join.s
           c == [s |-> join.s, p |-> join.p]
<1>1. /\ join.pc = "attach" /\ join' = Mcp!Free
      /\ entry' = [entry EXCEPT ![j] = Mcp!None] /\ bound' = bound \ {j}
      /\ cleanup' = cleanup \cup {c}
      /\ UNCHANGED <<known, live, pair, retired, banned, good, notices, asked, leaving, closing, room>>
  BY DEF Mcp!AttachFails, Mcp!tokens
<1>2. join # Mcp!Free /\ j \in S /\ join.p \in Mcp!P \cup {Mcp!None}
  BY <1>1, JoinIs DEF Mcp!SessionInv
<1>3. join.p \in Mcp!P /\ entry[j] \in {Mcp!None, join.p}
  BY <1>1, <1>2 DEF Mcp!SessionInv, Mcp!JoinInv
<1>4. c \in [s : S, p : Mcp!P] /\ c.p = join.p
  BY <1>2, <1>3
<1>5. Mcp!Free.pc = "free" /\ Mcp!Free.s = "none"
  BY DEF Mcp!Free
<1> HIDE DEF c
<1>6. /\ entry' \in [S -> Mcp!P \cup {Mcp!None}] /\ entry'[j] = Mcp!None
      /\ \A s \in S \ {j} : entry'[s] = entry[s]
  BY <1>1, <1>2 DEF Mcp!SessionInv, Mcp!TypeOK
<1>7. Mcp!TypeOK'
  BY <1>1, <1>4, <1>6 DEF Mcp!SessionInv, Mcp!TypeOK
<1>8. Mcp!JoinInv'
  BY <1>1 DEF Mcp!JoinInv
<1>9. Mcp!PairInv'
  BY <1>1 DEF Mcp!SessionInv, Mcp!PairInv, Mcp!InSnapshot
<1>10. Mcp!EntryInv'
  <2>1. \A s \in S : s # "none"
    BY DEF Mcp!Assumption
  <2>2. \A s \in S, r \in S : s # r /\ entry'[s] # Mcp!None => entry'[s] # entry'[r]
    BY <1>6 DEF Mcp!SessionInv, Mcp!EntryInv
  <2>3. \A s \in S : entry'[s] # Mcp!None => s \in live'
    BY <1>1, <1>6 DEF Mcp!SessionInv, Mcp!EntryInv
  <2>4. ASSUME NEW s \in S, leaving'[s] # Mcp!None
        PROVE  /\ s \notin asked' /\ join'.s # s /\ entry'[s] \in {Mcp!None, leaving'[s]}
               /\ room'[leaving'[s]] \in {"gone", "auto"}
    BY <1>1, <1>5, <1>6, <2>1, <2>4 DEF Mcp!SessionInv, Mcp!EntryInv
  <2> QED
    BY <2>2, <2>3, <2>4 DEF Mcp!EntryInv
<1>11. Mcp!NoGhostAgents'
  <2> SUFFICES ASSUME NEW q \in Mcp!P, room[q] = "here"
               PROVE  (\E s \in S : entry'[s] = q) \/ \E d \in cleanup' : d.p = q
    BY <1>1 DEF Mcp!NoGhostAgents, Mcp!Held
  <2>1. \/ \E s \in S : entry[s] = q
        \/ join.p = q
        \/ \E d \in cleanup : d.p = q
    BY DEF Mcp!SessionInv, Mcp!NoGhostAgents, Mcp!Held
  <2> QED
    BY <1>1, <1>3, <1>4, <1>6, <2>1, NoneIs
<1>12. Mcp!BannedInv'
  BY <1>1, <1>6 DEF Mcp!SessionInv, Mcp!BannedInv, Mcp!Revoked
<1> QED
  BY <1>7, <1>8, <1>9, <1>10, <1>11, <1>12 DEF Mcp!SessionInv

LEMMA McpStarts == ASSUME Mcp!Assumption, Mcp!Init PROVE Mcp!SessionInv
<1>1. /\ known = {} /\ live = {} /\ bound = {} /\ retired = {} /\ banned = {}
      /\ entry = [s \in S |-> Mcp!None] /\ pair = [i \in Id |-> Mcp!None]
      /\ good = Token /\ notices = {} /\ asked = {} /\ join = Mcp!Free
      /\ leaving = [s \in S |-> Mcp!None] /\ cleanup = {} /\ closing = {}
      /\ room = [p \in Mcp!P |-> "unused"]
  BY DEF Mcp!Init
<1>2. Mcp!TypeOK
  BY <1>1 DEF Mcp!TypeOK, Mcp!Presence
<1>3. Mcp!JoinInv
  BY <1>1 DEF Mcp!JoinInv
<1>4. Mcp!PairInv
  BY <1>1 DEF Mcp!PairInv, Mcp!InSnapshot, Mcp!Connected
<1>5. Mcp!EntryInv
  BY <1>1 DEF Mcp!EntryInv
<1>6. Mcp!NoGhostAgents
  BY <1>1 DEF Mcp!NoGhostAgents, Mcp!Held
<1>7. Mcp!BannedInv
  BY <1>1 DEF Mcp!BannedInv, Mcp!Revoked
<1> QED
  BY <1>2, <1>3, <1>4, <1>5, <1>6, <1>7 DEF Mcp!SessionInv

LEMMA SessionsStay ==
  ASSUME Mcp!Assumption, Mcp!SessionInv, [Mcp!Next]_Mcp!vars
  PROVE  Mcp!SessionInv'
<1>1. ASSUME NEW s \in S, Mcp!Create(s) \/ Mcp!Register(s) \/ Mcp!Close(s)
      PROVE  Mcp!SessionInv'
  BY <1>1, CreateKeeps
<1>2. ASSUME NEW s \in S, Mcp!Expire(s) \/ Mcp!Delete(s) PROVE Mcp!SessionInv'
  BY <1>2, ExpireKeeps, DeleteKeeps
<1>3. ASSUME NEW s \in S, Mcp!AskJoin(s) \/ Mcp!LockJoin(s) PROVE Mcp!SessionInv'
  BY <1>3, AskJoinKeeps, LockJoinKeeps
<1>4. ASSUME NEW s \in S, Mcp!LeaveRoom(s) \/ Mcp!RemoveBinding(s) PROVE Mcp!SessionInv'
  BY <1>4, LeaveRoomKeeps, RemoveBindingKeeps
<1>5. ASSUME NEW c \in cleanup, Mcp!SendDisconnect(c) PROVE Mcp!SessionInv'
  BY <1>5, SendDisconnectKeeps
<1>6. CASE Mcp!Look \/ Mcp!Reconnect \/ Mcp!Enter
  BY <1>6, LookKeeps, ReconnectKeeps, EnterKeeps
<1>7. CASE Mcp!Bind \/ Mcp!Attach \/ Mcp!AttachFails
  BY <1>7, BindKeeps, AttachKeeps, AttachFailsKeeps
<1>8. ASSUME NEW t \in Token, Mcp!Revoke(t) \/ Mcp!RoomsHear(t) \/ Mcp!McpHears(t)
      PROVE  Mcp!SessionInv'
  BY <1>8, RevokeKeeps, RoomsHearKeeps, McpHearsKeeps
<1>9. ASSUME NEW p \in Mcp!P, Mcp!RoomDrops(p) PROVE Mcp!SessionInv'
  BY <1>9, RoomDropsKeeps
<1>10. CASE UNCHANGED Mcp!vars
  BY <1>10 DEF Mcp!vars, Mcp!SessionInv, Mcp!TypeOK, Mcp!JoinInv, Mcp!PairInv, Mcp!EntryInv,
               Mcp!NoGhostAgents, Mcp!Held, Mcp!BannedInv, Mcp!Revoked, Mcp!InSnapshot
<1> QED
  BY <1>1, <1>2, <1>3, <1>4, <1>5, <1>6, <1>7, <1>8, <1>9, <1>10 DEF Mcp!Next

\* At most one member, counted.
LEMMA OneAtMost ==
  ASSUME NEW X, \A x \in X, y \in X : x = y
  PROVE  Mcp!Cardinality(X) <= 1
<1>1. CASE X = {}
  BY <1>1, CountingIs, FS_EmptySet
<1>2. ASSUME NEW x \in X PROVE Mcp!Cardinality(X) <= 1
  <2>1. X = {x}
    OBVIOUS
  <2>2. Cardinality({x}) = 1
    BY FS_Singleton
  <2>3. Mcp!Cardinality({x}) = Cardinality({x})
    BY CountingIs
  <2>4. Mcp!Cardinality({x}) <= 1
    BY <2>2, <2>3
  <2> QED
    BY <2>1, <2>4
<1> QED
  BY <1>1, <1>2

\* Whatever sessions expire, are replaced, fail half-way or leave meanwhile, an identity
\* has one Participant, a Participant one session, and no agent stays connected without
\* one (mcp.rs join_room, bind, disconnect_entry, rollback_binding).
THEOREM OneAgentOneSession ==
  ASSUME Mcp!Assumption
  PROVE  Mcp!Spec => []Mcp!SessionsAreSound
<1>1. Mcp!Init => Mcp!SessionInv
  BY McpStarts
<1>2. Mcp!SessionInv /\ [Mcp!Next]_Mcp!vars => Mcp!SessionInv'
  BY SessionsStay
<1>3. Mcp!SessionInv => Mcp!SessionsAreSound
  <2> SUFFICES ASSUME Mcp!SessionInv PROVE Mcp!SessionsAreSound
    OBVIOUS
  <2>1. ASSUME NEW i \in Id
        PROVE  Mcp!Cardinality({p \in Mcp!P : Mcp!Owner(p) = i /\ Mcp!InSnapshot(p)}) <= 1
    <3>1. \A p, q \in {p \in Mcp!P : Mcp!Owner(p) = i /\ Mcp!InSnapshot(p)} : p = q
      BY DEF Mcp!SessionInv, Mcp!PairInv
    <3> QED
      BY <3>1, OneAtMost
  <2> QED
    BY <2>1 DEF Mcp!SessionsAreSound, Mcp!OneAgentPerToken, Mcp!SessionInv, Mcp!EntryInv
<1> QED
  BY <1>1, <1>2, <1>3, PTL DEF Mcp!Spec

\* Once the registry has heard of a revocation, no session of the token is bound or
\* registered again (mcp.rs revoke_token, join_room).
THEOREM RevokedSessionsEnd ==
  ASSUME Mcp!Assumption
  PROVE  Mcp!Spec => []Mcp!ExpelledAreOut
<1>1. Mcp!Init => Mcp!SessionInv
  BY McpStarts
<1>2. Mcp!SessionInv /\ [Mcp!Next]_Mcp!vars => Mcp!SessionInv'
  BY SessionsStay
<1>3. Mcp!SessionInv => Mcp!ExpelledAreOut
  BY DEF Mcp!SessionInv, Mcp!BannedInv, Mcp!Revoked, Mcp!ExpelledAreOut, Mcp!SessionsOf
<1> QED
  BY <1>1, <1>2, <1>3, PTL DEF Mcp!Spec

-----------------------------------------------------------------------------
(* The views of a Match *)

CONSTANTS N, Kyokus, Draws, Inbox, Watchers

VARIABLES engine, decision, log, held, history, aware, client

Sight == INSTANCE Views WITH Box <- Inbox, known <- aware

Seats == Sight!Seats
Audiences == Sight!Audiences
Evs == Sight!Events
Hids == Seq(Evs)

\* The events of two lists, one after the other, are those of both.
LEMMA ListsJoin ==
  ASSUME NEW s \in Hids, NEW t \in Hids
  PROVE  /\ s \o t \in Hids
         /\ \A i \in DOMAIN s : i \in DOMAIN (s \o t) /\ (s \o t)[i] = s[i]
         /\ \A i \in DOMAIN t : Len(s) + i \in DOMAIN (s \o t) /\ (s \o t)[Len(s) + i] = t[i]
         /\ \A i \in DOMAIN (s \o t) :
              \/ i \in DOMAIN s /\ (s \o t)[i] = s[i]
              \/ i - Len(s) \in DOMAIN t /\ (s \o t)[i] = t[i - Len(s)]
<1>1. /\ s \o t \in Seq(Evs) /\ Len(s \o t) = Len(s) + Len(t)
      /\ \A i \in 1 .. Len(s) + Len(t) :
           (s \o t)[i] = IF i <= Len(s) THEN s[i] ELSE t[i - Len(s)]
      /\ Len(s) \in Nat /\ Len(t) \in Nat
      /\ DOMAIN s = 1 .. Len(s) /\ DOMAIN t = 1 .. Len(t) /\ DOMAIN (s \o t) = 1 .. Len(s) + Len(t)
  BY ConcatProperties DEF Hids
<1> DEFINE u == s \o t
<1> HIDE DEF u
<1> QED
  <2>1. \A i \in DOMAIN s : i \in DOMAIN u /\ u[i] = s[i]
    BY <1>1 DEF u
  <2>2. \A i \in DOMAIN t : Len(s) + i \in DOMAIN u /\ u[Len(s) + i] = t[i]
    BY <1>1 DEF u
  <2>3. \A i \in DOMAIN u : (i \in DOMAIN s /\ u[i] = s[i])
                             \/ (i - Len(s) \in DOMAIN t /\ u[i] = t[i - Len(s)])
    BY <1>1 DEF u
  <2> QED
    BY <1>1, <2>1, <2>2, <2>3 DEF u, Hids

LEMMA ElementOf ==
  ASSUME NEW Z, NEW s \in Seq(Z), NEW i \in DOMAIN s
  PROVE  s[i] \in Z
OBVIOUS

LEMMA EventOf ==
  ASSUME NEW s \in Hids, NEW i \in DOMAIN s
  PROVE  s[i] \in Evs
BY DEF Hids

LEMMA TaughtJoin ==
  ASSUME NEW s \in Hids, NEW t \in Hids, NEW a
  PROVE  Sight!Taught(s \o t, a) = Sight!Taught(s, a) \cup Sight!Taught(t, a)
<1> DEFINE u == s \o t
<1>1. /\ \A i \in DOMAIN s : i \in DOMAIN u /\ u[i] = s[i]
      /\ \A i \in DOMAIN t : Len(s) + i \in DOMAIN u /\ u[Len(s) + i] = t[i]
      /\ \A i \in DOMAIN u : (i \in DOMAIN s /\ u[i] = s[i])
                             \/ (i - Len(s) \in DOMAIN t /\ u[i] = t[i - Len(s)])
  BY ListsJoin
<1> HIDE DEF u
<1>2. ASSUME NEW x \in Sight!Taught(u, a) PROVE x \in Sight!Taught(s, a) \cup Sight!Taught(t, a)
  BY <1>1 DEF Sight!Taught
<1>3. ASSUME NEW x \in Sight!Taught(s, a) PROVE x \in Sight!Taught(u, a)
  BY <1>1 DEF Sight!Taught
<1>4. ASSUME NEW x \in Sight!Taught(t, a) PROVE x \in Sight!Taught(u, a)
  BY <1>1 DEF Sight!Taught
<1> QED
  BY <1>2, <1>3, <1>4 DEF u

LEMMA GotJoin ==
  ASSUME NEW s \in Hids, NEW t \in Hids, NEW a
  PROVE  Sight!Got(s \o t, a) = Sight!Got(s, a) \cup Sight!Got(t, a)
<1> DEFINE u == s \o t
<1>1. /\ \A i \in DOMAIN s : i \in DOMAIN u /\ u[i] = s[i]
      /\ \A i \in DOMAIN t : Len(s) + i \in DOMAIN u /\ u[Len(s) + i] = t[i]
      /\ \A i \in DOMAIN u : (i \in DOMAIN s /\ u[i] = s[i])
                             \/ (i - Len(s) \in DOMAIN t /\ u[i] = t[i - Len(s)])
  BY ListsJoin
<1> HIDE DEF u
<1>2. ASSUME NEW x \in Sight!Got(u, a) PROVE x \in Sight!Got(s, a) \cup Sight!Got(t, a)
  BY <1>1 DEF Sight!Got
<1>3. ASSUME NEW x \in Sight!Got(s, a) PROVE x \in Sight!Got(u, a)
  BY <1>1 DEF Sight!Got
<1>4. ASSUME NEW x \in Sight!Got(t, a) PROVE x \in Sight!Got(u, a)
  BY <1>1 DEF Sight!Got
<1> QED
  BY <1>2, <1>3, <1>4 DEF u

LEMMA GoneJoin ==
  ASSUME NEW s \in Hids, NEW t \in Hids, NEW a
  PROVE  Sight!Gone(s \o t, a) = Sight!Gone(s, a) \cup Sight!Gone(t, a)
<1> DEFINE u == s \o t
<1>1. /\ \A i \in DOMAIN s : i \in DOMAIN u /\ u[i] = s[i]
      /\ \A i \in DOMAIN t : Len(s) + i \in DOMAIN u /\ u[Len(s) + i] = t[i]
      /\ \A i \in DOMAIN u : (i \in DOMAIN s /\ u[i] = s[i])
                             \/ (i - Len(s) \in DOMAIN t /\ u[i] = t[i - Len(s)])
  BY ListsJoin
<1> HIDE DEF u
<1>2. ASSUME NEW x \in Sight!Gone(u, a) PROVE x \in Sight!Gone(s, a) \cup Sight!Gone(t, a)
  BY <1>1 DEF Sight!Gone
<1>3. ASSUME NEW x \in Sight!Gone(s, a) PROVE x \in Sight!Gone(u, a)
  BY <1>1 DEF Sight!Gone
<1>4. ASSUME NEW x \in Sight!Gone(t, a) PROVE x \in Sight!Gone(u, a)
  BY <1>1 DEF Sight!Gone
<1> QED
  BY <1>2, <1>3, <1>4 DEF u

LEMMA StartsJoin ==
  ASSUME NEW s \in Hids, NEW t \in Hids, ~Sight!Starts(s), ~Sight!Starts(t)
  PROVE  ~Sight!Starts(s \o t)
BY ListsJoin DEF Sight!Starts

\* Lists of no and of one event
LEMMA NoEvents ==
  /\ <<>> \in Hids /\ ~Sight!Starts(<<>>) /\ Len(<<>>) = 0
  /\ \A a : /\ Sight!Taught(<<>>, a) = {} /\ Sight!Got(<<>>, a) = {}
            /\ Sight!Gone(<<>>, a) = {}
<1>1. DOMAIN <<>> = {} /\ <<>> \in Hids /\ Len(<<>>) = 0
  BY DEF Hids
<1> QED
  BY <1>1 DEF Sight!Starts, Sight!Taught, Sight!Got, Sight!Gone

LEMMA OneEvent ==
  ASSUME NEW ev \in Evs
  PROVE  /\ <<ev>> \in Hids /\ (Sight!Starts(<<ev>>) <=> ev.kind = "start")
         /\ \A a : /\ Sight!Taught(<<ev>>, a) = Sight!Teaches(ev, a)
                   /\ Sight!Got(<<ev>>, a) =
                        IF ev.kind = "start" THEN ev.hands[a]
                        ELSE IF ev.kind = "tsumo" /\ ev.actor = a THEN ev.tiles ELSE {}
                   /\ Sight!Gone(<<ev>>, a) =
                        IF ev.kind \in {"dahai", "call", "ankan"} /\ ev.actor = a
                        THEN ev.tiles ELSE {}
<1> DEFINE s == <<ev>>
<1>1. s \in Hids /\ DOMAIN s = {1} /\ s[1] = ev
  BY DEF Hids
<1> HIDE DEF s
<1>2. Sight!Starts(s) <=> ev.kind = "start"
  BY <1>1 DEF Sight!Starts
<1>3. ASSUME NEW a PROVE Sight!Taught(s, a) = Sight!Teaches(ev, a)
  BY <1>1 DEF Sight!Taught
<1>4. ASSUME NEW a
      PROVE  /\ Sight!Got(s, a) =
                  IF ev.kind = "start" THEN ev.hands[a]
                  ELSE IF ev.kind = "tsumo" /\ ev.actor = a THEN ev.tiles ELSE {}
             /\ Sight!Gone(s, a) =
                  IF ev.kind \in {"dahai", "call", "ankan"} /\ ev.actor = a THEN ev.tiles ELSE {}
  BY <1>1 DEF Sight!Got, Sight!Gone
<1> QED
  BY <1>1, <1>2, <1>3, <1>4 DEF s

LEMMA PlainIs ==
  ASSUME NEW kind \in {"tsumo", "dahai", "call", "ankan", "dora", "hora", "end", "over"},
         NEW actor \in Nat, NEW tiles \in SUBSET Nat
  PROVE  LET ev == Sight!Plain(kind, actor, tiles) IN
         /\ ev \in Evs /\ ev.kind = kind /\ ev.actor = actor /\ ev.tiles = tiles
         /\ \A s \in Seats : ev.hands[s] = {}
BY DEF Evs, Sight!Plain, Sight!Event, Sight!Events, Sight!Tiles, Seats, Sight!Seats

\* The history of events that start no Kyoku
LEMMA ContinuedIs ==
  ASSUME NEW was \in Sight!Histories, was.current # <<>>,
         NEW report \in Hids, ~Sight!Starts(report)
  PROVE  LET h == Sight!Recorded(was, report) IN
         /\ h \in Sight!Histories /\ h.current # <<>>
         /\ h.current = was.current \o report
         /\ h.previous = was.previous /\ h.seq = was.seq /\ h.done = was.done
<1> DEFINE cur == was.current \o report
           h == [was EXCEPT !.current = cur]
<1>1. was.current \in Hids
  BY DEF Sight!Histories, Hids, Evs
<1>2. cur \in Hids /\ cur # <<>>
  <2>1. cur \in Hids /\ \A i \in DOMAIN was.current : i \in DOMAIN cur
    BY <1>1, ListsJoin
  <2>2. 1 \in DOMAIN was.current
    BY <1>1, EmptySeq, LenProperties DEF Hids
  <2> QED
    BY <2>1, <2>2
<1>3. Sight!Recorded(was, report) = h
  BY DEF Sight!Recorded, Sight!Continued
<1> HIDE DEF cur
<1>4. h \in Sight!Histories /\ h.current = cur
      /\ h.previous = was.previous /\ h.seq = was.seq /\ h.done = was.done
  BY <1>2 DEF Sight!Histories, Hids, Evs
<1> QED
  BY <1>2, <1>3, <1>4 DEF cur

\* What is published of results
LEMMA PublishedIs ==
  ASSUME NEW h \in Sight!Holds
  PROVE  LET p == Sight!Published(h) IN
         /\ p.seq = h.seq /\ (p.settled <=> h.next > Len(h.wins))
         /\ p.settled \in BOOLEAN /\ p.wins \in Sight!AllWins
         /\ p = [seq |-> p.seq, wins |-> p.wins, settled |-> p.settled]
         /\ \A i \in DOMAIN p.wins : i \in 1 .. Len(h.wins) /\ i <= h.next /\ p.wins[i] = h.wins[i]
         /\ \A i \in 1 .. Len(h.wins) : i <= h.next => i \in DOMAIN p.wins
<1> DEFINE n == IF h.next > Len(h.wins) THEN Len(h.wins) ELSE h.next
           W == [seat : Sight!Seats, tiles : Sight!Tiles]
           w == SubSeq(h.wins, 1, n)
           all == h.next > Len(h.wins)
<1>1. /\ h.seq # 0 /\ h.next # 0 /\ h.next \in Nat /\ h.seq \in Nat
      /\ h.wins \in Seq(W) /\ Len(h.wins) \in Nat
  BY DEF Sight!Holds, Sight!AllWins
<1>2. n \in Nat /\ n <= Len(h.wins) /\ n <= h.next
      /\ \A i \in 1 .. Len(h.wins) : i <= h.next => i <= n
  BY <1>1
<1>3. Sight!Published(h) = [seq |-> h.seq, settled |-> all, wins |-> w]
  BY <1>1 DEF Sight!Published
<1>10. all \in BOOLEAN /\ (all <=> h.next > Len(h.wins))
  OBVIOUS
<1> HIDE DEF n, W, all
<1>4. w \in Seq(W) /\ DOMAIN w = 1 .. n /\ \A i \in 1 .. n : w[i] = h.wins[i]
  BY <1>1, <1>2, SubSeqProperties
<1>5. w \in Sight!AllWins
  BY <1>4 DEF W, Sight!AllWins
<1> HIDE DEF w
<1> DEFINE p == Sight!Published(h)
<1>11. p = [seq |-> h.seq, settled |-> all, wins |-> w]
  BY <1>3
<1> HIDE DEF p
<1>6. p.seq = h.seq /\ p.wins = w /\ p.settled = all
      /\ p = [seq |-> p.seq, wins |-> p.wins, settled |-> p.settled]
  BY <1>11
<1>7. DOMAIN p.wins = 1 .. n /\ \A i \in 1 .. n : p.wins[i] = h.wins[i]
  BY <1>4, <1>6
<1>8. p.settled \in BOOLEAN /\ (p.settled <=> h.next > Len(h.wins))
  BY <1>6, <1>10
<1>9. /\ \A i \in DOMAIN p.wins : i \in 1 .. Len(h.wins) /\ i <= h.next /\ p.wins[i] = h.wins[i]
      /\ \A i \in 1 .. Len(h.wins) : i <= h.next => i \in DOMAIN p.wins
  BY <1>1, <1>2, <1>7
<1> QED
  BY <1>5, <1>6, <1>8, <1>9 DEF p

LEMMA NothingPublished ==
  /\ Sight!Published(Sight!NoHold) = Sight!NoResults
  /\ Sight!ResultTiles(Sight!NoResults) = {}
  /\ Sight!NoResults \in [seq : Nat, wins : Sight!AllWins, settled : BOOLEAN]
  /\ Sight!NoResults.seq = 0 /\ ~Sight!NoResults.settled
<1>1. Sight!Published(Sight!NoHold) = Sight!NoResults
  BY DEF Sight!Published, Sight!NoHold
<1>2. Sight!NoResults.wins = <<>> /\ DOMAIN <<>> = {}
  BY DEF Sight!NoResults
<1>3. <<>> \in Sight!AllWins
  BY DEF Sight!AllWins
<1>4. Sight!ResultTiles(Sight!NoResults) = {}
  BY <1>2 DEF Sight!ResultTiles
<1> QED
  BY <1>1, <1>3, <1>4 DEF Sight!NoResults

\* Two tables that differ in the scores and the turn only show the same.
LEMMA ShownAlike ==
  ASSUME NEW e, NEW f, e.hand = f.hand, e.pond = f.pond, e.melds = f.melds, e.dora = f.dora,
         NEW a
  PROVE  Sight!Shown(e, a) = Sight!Shown(f, a)
BY DEF Sight!Shown

\* What is published is known.
LEMMA LearnIs ==
  ASSUME aware \in [Audiences -> SUBSET Nat], NEW report \in Hids, NEW wins \in Sight!AllWins,
         Sight!Learn(report, wins)
  PROVE  /\ aware' \in [Audiences -> SUBSET Nat]
         /\ \A a \in Audiences :
              /\ aware[a] \subseteq aware'[a] /\ Sight!Taught(report, a) \subseteq aware'[a]
              /\ \A i \in DOMAIN wins : wins[i].tiles \subseteq aware'[a]
<1>1. ASSUME NEW a \in Audiences, NEW i \in DOMAIN report
      PROVE  Sight!Teaches(report[i], a) \subseteq Nat
  <2>1. report[i] \in Evs
    BY EventOf
  <2> QED
    BY <2>1 DEF Sight!Teaches, Evs, Sight!Events, Sight!Tiles, Audiences, Sight!Audiences,
       Sight!Public
<1>2. \A i \in DOMAIN wins : wins[i].tiles \subseteq Nat
  <2>1. ASSUME NEW i \in DOMAIN wins PROVE wins[i] \in [seat : Sight!Seats, tiles : Sight!Tiles]
    BY ElementOf DEF Sight!AllWins
  <2> QED
    BY <2>1 DEF Sight!Tiles
<1>3. \A a \in Audiences : aware'[a] = aware[a] \cup UNION (
           {Sight!Teaches(report[i], a) : i \in DOMAIN report} \cup
           {wins[i].tiles : i \in DOMAIN wins})
  BY DEF Sight!Learn, Audiences
<1>4. aware' = [a \in Audiences |-> aware'[a]]
  BY DEF Sight!Learn, Audiences
<1>5. ASSUME NEW a \in Audiences PROVE aware'[a] \subseteq Nat
  <2>1. aware[a] \subseteq Nat
    OBVIOUS
  <2> QED
    BY <1>1, <1>2, <1>3, <2>1
<1>6. \A a \in Audiences : Sight!Taught(report, a) \subseteq aware'[a]
  BY <1>3 DEF Sight!Taught
<1>7. \A a \in Audiences : \A i \in DOMAIN wins : wins[i].tiles \subseteq aware'[a]
  BY <1>3
<1> QED
  BY <1>3, <1>4, <1>5, <1>6, <1>7

\* The socket, when something is published
Heard == [kind : {"step", "snapshot", "resolved"}, events : Seq(Evs)]

LEMMA PublishDoes ==
  ASSUME Sight!Assumption, Sight!TypeOK, NEW notes \in Seq(Heard), notes # <<>>,
         Sight!Publish(notes)
  PROVE  /\ client' = [on |-> client'.on, who |-> client'.who, queue |-> client'.queue,
                       state |-> client'.state, events |-> client'.events]
         /\ client'.on \in BOOLEAN /\ client'.queue \in Seq(Heard)
         /\ client'.who = client.who /\ client'.events = client.events
         /\ client'.on => client'.queue # <<>>
<1> DEFINE q == client.queue
           space == Inbox - Len(q)
           fit == IF Len(notes) > space THEN SubSeq(notes, 1, space) ELSE notes
           b == Len(notes) <= space
<1>1. /\ client = [on |-> client.on, who |-> client.who, queue |-> q,
                   state |-> client.state, events |-> client.events]
      /\ client.on \in BOOLEAN /\ q \in Seq(Heard) /\ Inbox \in Nat
  BY DEF Sight!TypeOK, Sight!Assumption, Heard, Evs
<1>2. CASE ~client.on
  BY <1>1, <1>2 DEF Sight!Publish
<1>3. CASE client.on
  <2>1. client' = [client EXCEPT !.queue = q \o fit, !.on = b]
    BY <1>3 DEF Sight!Publish
  <2>2. Len(q) \in Nat /\ Len(notes) \in Nat \ {0} /\ space \in Int
    BY <1>1, EmptySeq, LenProperties
  <2>3. b \in BOOLEAN /\ (b => ~(Len(notes) > space))
    BY <2>2
  <2>4. fit \in Seq(Heard) /\ (b => fit = notes)
    <3>1. CASE Len(notes) > space
      <4>1. \A i \in 1 .. space : notes[i] \in Heard
        BY <2>2, <3>1, ElementOf
      <4>2. SubSeq(notes, 1, space) \in Seq(Heard)
        BY <2>2, <4>1, SubSeqProperties
      <4> QED
        BY <3>1, <4>2, <2>3
    <3>2. CASE ~(Len(notes) > space)
      BY <3>2
    <3> QED
      BY <3>1, <3>2
  <2> HIDE DEF fit, b, space, q
  <2>5. q \o fit \in Seq(Heard) /\ Len(q \o fit) = Len(q) + Len(fit)
    BY <1>1, <2>4, ConcatProperties
  <2>6. b => q \o fit # <<>>
    BY <2>2, <2>4, <2>5, EmptySeq
  <2>7. client' = [on |-> b, who |-> client.who, queue |-> q \o fit, state |-> client.state,
                   events |-> client.events]
    BY <1>1, <2>1
  <2> QED
    BY <2>3, <2>5, <2>6, <2>7
<1> QED
  BY <1>2, <1>3

\* What the socket has stays known.
LEMMA ClientKeeps ==
  ASSUME Sight!Assumption, Sight!ViewsInv, NEW notes \in Seq(Heard), notes # <<>>,
         Sight!Publish(notes), \A a \in Audiences : aware[a] \subseteq aware'[a]
  PROVE  /\ client' = [on |-> client'.on, who |-> client'.who, queue |-> client'.queue,
                       state |-> client'.state, events |-> client'.events]
         /\ client'.on \in BOOLEAN /\ client'.queue \in Seq(Heard)
         /\ client'.who \in Audiences
         /\ Sight!EventsTiles(client'.events) \subseteq aware'[client'.who]
         /\ Sight!ClientIsCurrent'
<1>1. Sight!TypeOK /\ client.who \in Audiences
      /\ Sight!EventsTiles(client.events) \subseteq aware[client.who]
  BY DEF Sight!ViewsInv, Sight!TypeOK, Sight!KnownInv, Audiences
<1>2. /\ client' = [on |-> client'.on, who |-> client'.who, queue |-> client'.queue,
                    state |-> client'.state, events |-> client'.events]
      /\ client'.on \in BOOLEAN /\ client'.queue \in Seq(Heard)
      /\ client'.who = client.who /\ client'.events = client.events
      /\ client'.on => client'.queue # <<>>
  BY <1>1, PublishDoes
<1>3. Sight!ClientIsCurrent'
  BY <1>2 DEF Sight!ClientIsCurrent
<1> QED
  BY <1>1, <1>2, <1>3

\* The deal of a Kyoku
LEMMA DealtIs ==
  ASSUME Sight!Assumption, NEW b, b.kyoku \in Nat, b.score \in Nat
  PROVE  LET d == Sight!Dealt(b)
             e == Sight!Drawn(d, 1)
         IN  /\ d \in Sight!Tables /\ Sight!Fair(d) /\ e \in Sight!Tables /\ Sight!Fair(e)
             /\ e.kyoku = b.kyoku + 1 /\ e.score = b.score
             /\ e.dora = d.dora /\ e.pond = d.pond /\ e.melds = d.melds
             /\ \A s \in Seats : d.pond[s] = {} /\ d.melds[s] = {}
             /\ d.next \in Nat /\ e.next = d.next + 1
             /\ \A s \in Seats : e.hand[s] = IF s = 1 THEN d.hand[1] \cup {d.next} ELSE d.hand[s]
<1> DEFINE first == b.kyoku * (2 * N + 2 * Draws + 3) + 1
           d == Sight!Dealt(b)
           e == Sight!Drawn(d, 1)
<1>1. first \in Nat \ {0} /\ N \in Nat \ {0} /\ Draws \in Nat
  <2>1. 2 * N + 2 * Draws + 3 \in Nat /\ N \in Nat \ {0} /\ Draws \in Nat
    BY DEF Sight!Assumption
  <2>2. \A x, y \in Nat : x * y + 1 \in Nat \ {0}
    OBVIOUS
  <2> QED
    BY <2>1, <2>2
<1>2. d = [hand |-> [s \in Seats |-> {first + 2 * s - 2, first + 2 * s - 1}],
           pond |-> [s \in Seats |-> {}], melds |-> [s \in Seats |-> {}],
           dora |-> {first + 2 * N}, next |-> first + 2 * N + 1, left |-> Draws,
           last |-> 0, seat |-> 1, kyoku |-> b.kyoku + 1, score |-> b.score]
  BY DEF Sight!Dealt, Seats
<1>3. e = [[d EXCEPT !.hand[1] = @ \cup {d.next}] EXCEPT !.next = @ + 1]
  BY DEF Sight!Drawn
<1> HIDE DEF first, d, e
<1>4. d.hand = [s \in Seats |-> {first + 2 * s - 2, first + 2 * s - 1}]
  BY <1>2
<1>5. d.next = first + 2 * N + 1 /\ d.last = 0 /\ Seats = 1 .. N
  BY <1>2 DEF Seats, Sight!Seats
<1>6. d.hand \in [Seats -> SUBSET Nat]
      /\ \A s \in Seats : d.hand[s] = {first + 2 * s - 2, first + 2 * s - 1}
  BY <1>1, <1>4, <1>5
<1>7. d \in Sight!Tables
  BY <1>1, <1>2, <1>6, <1>5 DEF Sight!Tables, Sight!Tiles, Seats
<1>8. Sight!Fair(d)
  <2>1. d.last < d.next
    BY <1>1, <1>5
  <2>2. \A a \in Seats : \A t \in d.hand[a] : t < d.next
    BY <1>1, <1>5, <1>6
  <2>3. \A a, c \in Seats : a # c => d.hand[a] \cap d.hand[c] = {}
    BY <1>1, <1>5, <1>6
  <2> QED
    BY <2>1, <2>2, <2>3 DEF Sight!Fair, Seats
<1>9. e = [hand |-> [d.hand EXCEPT ![1] = @ \cup {d.next}], pond |-> d.pond,
           melds |-> d.melds, dora |-> d.dora, next |-> d.next + 1, left |-> d.left,
           last |-> d.last, seat |-> d.seat, kyoku |-> d.kyoku, score |-> d.score]
  BY <1>3, <1>7 DEF Sight!Tables
<1>10. /\ e.hand \in [Seats -> SUBSET Nat] /\ d.next \in Nat
       /\ \A s \in Seats : e.hand[s] = IF s = 1 THEN d.hand[1] \cup {d.next} ELSE d.hand[s]
  BY <1>1, <1>5, <1>6, <1>9
<1>11. e \in Sight!Tables
  BY <1>7, <1>9, <1>10 DEF Sight!Tables, Sight!Tiles, Seats
<1>12. Sight!Fair(e)
  <2>1. e.last < e.next /\ e.next = d.next + 1
    BY <1>8, <1>9, <1>10, <1>7 DEF Sight!Fair, Sight!Tables
  <2>2. \A a \in Seats : \A t \in e.hand[a] : t < e.next
    BY <1>8, <1>10, <2>1, <1>6 DEF Sight!Fair, Seats
  <2>3. \A a, c \in Seats : a # c => e.hand[a] \cap e.hand[c] = {}
    BY <1>8, <1>10 DEF Sight!Fair, Seats
  <2> QED
    BY <2>1, <2>2, <2>3 DEF Sight!Fair, Seats
<1>13. /\ e.kyoku = b.kyoku + 1 /\ e.score = b.score
       /\ e.dora = d.dora /\ e.pond = d.pond /\ e.melds = d.melds /\ e.next = d.next + 1
       /\ \A s \in Seats : d.pond[s] = {} /\ d.melds[s] = {}
  BY <1>2, <1>9
<1> QED
  BY <1>7, <1>8, <1>10, <1>11, <1>12, <1>13 DEF d, e

\* The table after some moves, and the events of these moves
Follows(e, report) ==
  /\ e \in Sight!Tables /\ report \in Hids /\ ~Sight!Starts(report)
  /\ e.kyoku = engine.kyoku /\ e.score = engine.score
  /\ engine.next <= e.next /\ e.last < e.next
  /\ \A a \in Audiences :
       Sight!Shown(e, a) \subseteq Sight!Shown(engine, a) \cup Sight!Taught(report, a)
  /\ \A a \in Seats :
       /\ e.hand[a] = (engine.hand[a] \ Sight!Gone(report, a)) \cup Sight!Got(report, a)
       /\ \A t \in Sight!Got(report, a) : engine.next <= t /\ t < e.next
       /\ \A t \in Sight!Gone(report, a) : t < engine.next
  /\ \A a, b \in Seats : a # b => Sight!Got(report, a) \cap Sight!Got(report, b) = {}

LEMMA FollowsFair ==
  ASSUME Sight!Fair(engine), engine.next \in Nat, NEW e, NEW report, Follows(e, report)
  PROVE  Sight!Fair(e)
<1>0. e.next \in Nat /\ engine.next <= e.next
  BY DEF Follows, Sight!Tables
<1>1. \A a \in Seats : \A t \in e.hand[a] : t < e.next
  <2>1. ASSUME NEW a \in Seats, NEW t \in e.hand[a] PROVE t < e.next
    <3>1. CASE t \in engine.hand[a]
      <4>1. t \in Nat /\ t < engine.next
        BY <2>1, <3>1 DEF Sight!Fair, Follows, Sight!Tables, Sight!Tiles, Seats
      <4> QED
        BY <4>1, <1>0
    <3>2. CASE t \in Sight!Got(report, a)
      BY <3>2 DEF Follows
    <3> QED
      BY <2>1, <3>1, <3>2 DEF Follows
  <2> QED
    BY <2>1
<1>2. ASSUME NEW a \in Seats, NEW b \in Seats, a # b, NEW t \in e.hand[a], t \in e.hand[b]
      PROVE  FALSE
  <2>1. \A c \in Seats : \A x \in engine.hand[c] : x < engine.next
    BY DEF Sight!Fair, Seats
  <2>2. \A c \in Seats : \A x \in Sight!Got(report, c) : engine.next <= x
    BY DEF Follows
  <2>3. t \in Nat
    BY <1>2 DEF Follows, Sight!Tables, Sight!Tiles, Seats
  <2>4. /\ t \in engine.hand[a] \/ t \in Sight!Got(report, a)
        /\ t \in engine.hand[b] \/ t \in Sight!Got(report, b)
    BY <1>2 DEF Follows
  <2>5. ~(t < engine.next /\ engine.next <= t)
    BY <2>3
  <2> QED
    BY <1>2, <2>1, <2>2, <2>4, <2>5 DEF Sight!Fair, Follows, Seats
<1> QED
  BY <1>1, <1>2 DEF Sight!Fair, Follows, Seats

\* What the history tells of the hands after these moves
LEMMA FollowsHand ==
  ASSUME Sight!HandInv, Sight!TypeOK, held.seq = 0, NEW e, NEW report, Follows(e, report),
         NEW cur, cur = history.current \o report
  PROVE  \A a \in Seats : /\ e.hand[a] = Sight!Got(cur, a) \ Sight!Gone(cur, a)
                          /\ \A t \in Sight!Gone(cur, a) : t < e.next
<1> SUFFICES ASSUME NEW a \in Seats
             PROVE  /\ e.hand[a] = Sight!Got(cur, a) \ Sight!Gone(cur, a)
                    /\ \A t \in Sight!Gone(cur, a) : t < e.next
  OBVIOUS
<1> DEFINE got == Sight!Got(history.current, a)
           shed == Sight!Gone(history.current, a)
<1>1. /\ Sight!Got(cur, a) = got \cup Sight!Got(report, a)
      /\ Sight!Gone(cur, a) = shed \cup Sight!Gone(report, a)
  <2>1. history.current \in Hids /\ report \in Hids
    BY DEF Sight!TypeOK, Sight!Histories, Hids, Evs, Follows
  <2> QED
    BY <2>1, GotJoin, GoneJoin
<1>2. engine.hand[a] = got \ shed /\ \A t \in shed : t < engine.next
  BY DEF Sight!HandInv, Sight!Table, Seats
<1>3. /\ e.hand[a] = (engine.hand[a] \ Sight!Gone(report, a)) \cup Sight!Got(report, a)
      /\ \A t \in Sight!Got(report, a) : engine.next <= t
      /\ \A t \in Sight!Gone(report, a) : t < engine.next
  BY DEF Follows
<1>4. engine.next \in Nat /\ e.next \in Nat /\ engine.next <= e.next
  BY DEF Follows, Sight!TypeOK, Sight!Tables
<1>5. \A t \in shed \cup Sight!Gone(report, a) : t \in Nat
  <2>1. ASSUME NEW s \in Hids PROVE \A t \in Sight!Gone(s, a) : t \in Nat
    <3>1. \A i \in DOMAIN s : s[i].tiles \in SUBSET Nat
      BY <2>1, EventOf DEF Evs, Sight!Events, Sight!Tiles
    <3> QED
      BY <3>1 DEF Sight!Gone
  <2> QED
    BY <2>1 DEF Sight!TypeOK, Sight!Histories, Hids, Evs, Follows
<1> HIDE DEF got, shed
<1>6. \A t \in Sight!Got(report, a) : t \notin shed /\ t \notin Sight!Gone(report, a)
  BY <1>2, <1>3, <1>4, <1>5
<1>7. \A t \in shed \cup Sight!Gone(report, a) : t < e.next
  BY <1>2, <1>3, <1>4, <1>5
<1> QED
  BY <1>1, <1>2, <1>3, <1>6, <1>7

\* A held Kyoku before or after its first result is shown
Holding == [seq : Nat \ {0}, table : Sight!Tables, wins : Sight!AllWins, next : Nat,
            terminal : Seq(Sight!Endings), future : Hids]

LEMMA EndingsAre ==
  ASSUME NEW s \in Seq(Sight!Endings)
  PROVE  /\ s \in Hids /\ ~Sight!Starts(s)
         /\ \A a : Sight!Got(s, a) = {} /\ Sight!Gone(s, a) = {}
         /\ \A i \in DOMAIN s : s[i].kind \in {"hora", "ryukyoku"}
<1>1. \A i \in DOMAIN s : s[i] \in Evs /\ s[i].kind \in {"hora", "ryukyoku"}
  BY ElementOf DEF Sight!Endings, Evs
<1>2. s \in Hids
  <2>1. Len(s) \in Nat /\ s = [i \in 1 .. Len(s) |-> s[i]] /\ DOMAIN s = 1 .. Len(s)
    BY LenProperties
  <2> QED
    BY <1>1, <2>1 DEF Hids
<1> QED
  BY <1>1, <1>2 DEF Sight!Starts, Sight!Got, Sight!Gone

LEMMA HoldFields ==
  ASSUME NEW seq, NEW table, NEW wins, NEW next, NEW terminal, NEW future, NEW g,
         g = [seq |-> seq, table |-> table, wins |-> wins, next |-> next,
              terminal |-> terminal, future |-> future]
  PROVE  /\ g.seq = seq /\ g.table = table /\ g.wins = wins /\ g.next = next
         /\ g.terminal = terminal /\ g.future = future
OBVIOUS

\* The hold itself, one result on
LEMMA HoldMoves ==
  ASSUME NEW h \in Holding, h.next <= Len(h.wins),
         NEW last \in BOOLEAN, last <=> h.next = Len(h.wins)
  PROVE  LET g == [h EXCEPT !.next = @ + 1,
                            !.table.score = IF last THEN @ + 1 ELSE @,
                            !.terminal = IF last THEN <<>> ELSE @] IN
         /\ g \in Sight!Holds /\ g.seq = h.seq /\ g.wins = h.wins /\ g.next = h.next + 1
         /\ g.future = h.future
         /\ g.table.hand = h.table.hand /\ g.table.pond = h.table.pond
         /\ g.table.melds = h.table.melds /\ g.table.dora = h.table.dora
         /\ g.table.next = h.table.next /\ g.table.last = h.table.last
         /\ g.table.kyoku = h.table.kyoku
         /\ g.table.score = h.table.score + (IF g.next > Len(g.wins) THEN 1 ELSE 0)
         /\ g.next <= Len(g.wins) => g.terminal = h.terminal
<1> DEFINE sc == IF last THEN h.table.score + 1 ELSE h.table.score
           te == IF last THEN <<>> ELSE h.terminal
           ta == [h.table EXCEPT !.score = sc]
           g == [h EXCEPT !.next = @ + 1,
                          !.table.score = IF last THEN @ + 1 ELSE @,
                          !.terminal = IF last THEN <<>> ELSE @]
<1>1. /\ h.table \in Sight!Tables /\ h.next \in Nat /\ Len(h.wins) \in Nat
      /\ h.terminal \in Seq(Sight!Endings)
  BY LenProperties DEF Holding, Sight!AllWins
<1>2. sc \in Nat /\ te \in Seq(Sight!Endings)
  <2>1. h.table.score \in Nat
    BY <1>1 DEF Sight!Tables
  <2>2. CASE last
    BY <2>1, <2>2
  <2>3. CASE ~last
    BY <1>1, <2>1, <2>3
  <2> QED
    BY <2>2, <2>3
<1>3. sc = h.table.score + (IF h.next + 1 > Len(h.wins) THEN 1 ELSE 0)
  <2>1. h.table.score \in Nat
    BY <1>1 DEF Sight!Tables
  <2> QED
    BY <1>1, <2>1
<1>4. h.next + 1 <= Len(h.wins) => te = h.terminal
  BY <1>1
<1>5. g = [[[h EXCEPT !.next = h.next + 1] EXCEPT !.table = ta] EXCEPT !.terminal = te]
  <2>1. g = [[[h EXCEPT !.next = @ + 1] EXCEPT !.table.score = IF last THEN @ + 1 ELSE @]
              EXCEPT !.terminal = IF last THEN <<>> ELSE @]
    BY Zenon
  <2> QED
    BY <2>1 DEF Holding
<1> HIDE DEF sc, te, g
<1>6. /\ ta \in Sight!Tables /\ ta.score = sc
      /\ ta.hand = h.table.hand /\ ta.pond = h.table.pond
      /\ ta.melds = h.table.melds /\ ta.dora = h.table.dora
      /\ ta.next = h.table.next /\ ta.last = h.table.last /\ ta.kyoku = h.table.kyoku
  BY <1>1, <1>2 DEF Sight!Tables
<1> HIDE DEF ta
<1>7. g = [seq |-> h.seq, table |-> ta, wins |-> h.wins, next |-> h.next + 1, terminal |-> te,
           future |-> h.future]
  BY <1>5 DEF Holding
<1>8. g \in Sight!Holds
  <2>1. h.seq \in Nat \ {0} /\ h.wins \in Sight!AllWins /\ h.next + 1 \in Nat \ {0}
        /\ h.future \in Seq(Sight!Events)
    BY <1>1 DEF Holding, Hids, Evs
  <2> QED
    BY <1>2, <1>6, <1>7, <2>1 DEF Sight!Holds
<1>9. /\ g.seq = h.seq /\ g.table = ta /\ g.wins = h.wins /\ g.next = h.next + 1
      /\ g.terminal = te /\ g.future = h.future
  BY <1>7, HoldFields
<1> QED
  BY <1>3, <1>4, <1>6, <1>8, <1>9 DEF g

LEMMA StepNotesAre == Sight!StepNotes \in Seq(Heard) /\ Sight!StepNotes # <<>>
BY NoEvents DEF Sight!StepNotes, Sight!Note, Heard, Hids

LEMMA ResolvedNotesAre ==
  ASSUME NEW report \in Hids
  PROVE  Sight!ResolvedNotes(report) \in Seq(Heard) /\ Sight!ResolvedNotes(report) # <<>>
BY NoEvents DEF Sight!ResolvedNotes, Sight!Note, Heard, Hids

LEMMA NotesJoin ==
  ASSUME NEW s \in Seq(Heard), NEW t \in Seq(Heard), s # <<>>
  PROVE  s \o t \in Seq(Heard) /\ s \o t # <<>>
BY ConcatProperties, EmptySeq, LenProperties

\* What one result more publishes
LEMMA StepPublishes ==
  ASSUME Sight!Assumption, Sight!ViewsInv, NEW h \in Holding, h.next <= Len(h.wins),
         h.terminal # <<>>, NEW published \in Hids, ~Sight!Starts(published),
         NEW notes \in Seq(Heard), Sight!PublishStep(h, published, notes)
  PROVE  \E all \in Hids :
           /\ ~Sight!Starts(all)
           /\ \A a : /\ Sight!Got(all, a) = Sight!Got(published, a)
                     /\ Sight!Gone(all, a) = Sight!Gone(published, a)
                     /\ Sight!Taught(published, a) \subseteq Sight!Taught(all, a)
           /\ log' = log \o all
           /\ history' = Sight!Recorded(history, all)
           /\ h.next = Len(h.wins) =>
                \E i \in DOMAIN all : all[i].kind \in {"hora", "ryukyoku"}
           /\ aware' \in [Audiences -> SUBSET Nat]
           /\ \A a \in Audiences : aware[a] \subseteq aware'[a] /\ Sight!Taught(all, a) \subseteq aware'[a]
           /\ h.next < Len(h.wins) =>
                \A a \in Audiences : h.wins[h.next + 1].tiles \subseteq aware'[a]
<1> DEFINE last == h.next = Len(h.wins)
           released == IF last THEN h.terminal ELSE <<>>
           win == IF last THEN <<>> ELSE <<h.wins[h.next + 1]>>
           all == published \o released
           W == [seat : Sight!Seats, tiles : Sight!Tiles]
<1>1. /\ log' = Sight!Logged(all) /\ history' = Sight!Recorded(history, all)
      /\ Sight!Learn(all, win)
  BY DEF Sight!PublishStep
<1>2. /\ h.terminal \in Seq(Sight!Endings) /\ h.wins \in Seq(W) /\ h.next \in Nat
      /\ Len(h.wins) \in Nat /\ DOMAIN h.wins = 1 .. Len(h.wins)
  BY LenProperties DEF Holding, Sight!AllWins
<1>3. /\ h.terminal \in Hids /\ ~Sight!Starts(h.terminal)
      /\ \A a : Sight!Got(h.terminal, a) = {} /\ Sight!Gone(h.terminal, a) = {}
      /\ \A i \in DOMAIN h.terminal : h.terminal[i].kind \in {"hora", "ryukyoku"}
      /\ 1 \in DOMAIN h.terminal
  <2>1. Len(h.terminal) \in Nat \ {0} /\ DOMAIN h.terminal = 1 .. Len(h.terminal)
    BY <1>2, EmptySeq, LenProperties
  <2> QED
    BY <1>2, <2>1, EndingsAre
<1>4. /\ released \in Hids /\ ~Sight!Starts(released)
      /\ \A a : Sight!Got(released, a) = {} /\ Sight!Gone(released, a) = {}
      /\ last => released = h.terminal
  BY <1>3, NoEvents
<1>5. win \in Sight!AllWins /\ (~last => win = <<h.wins[h.next + 1]>>)
  <2>1. CASE last
    BY <2>1 DEF Sight!AllWins
  <2>2. CASE ~last
    <3>0. h.next + 1 \in DOMAIN h.wins
      BY <1>2, <2>2
    <3>1. h.wins[h.next + 1] \in W
      BY <1>2, <3>0, ElementOf
    <3> QED
      BY <2>2, <3>1 DEF Sight!AllWins
  <2> QED
    BY <2>1, <2>2
<1> HIDE DEF released, win
<1>6. /\ all \in Hids /\ ~Sight!Starts(all)
      /\ \A a : /\ Sight!Got(all, a) = Sight!Got(published, a)
                /\ Sight!Gone(all, a) = Sight!Gone(published, a)
                /\ Sight!Taught(published, a) \subseteq Sight!Taught(all, a)
  <2>1. all \in Hids /\ ~Sight!Starts(all)
    BY <1>4, ListsJoin, StartsJoin
  <2>2. ASSUME NEW a
        PROVE  /\ Sight!Got(all, a) = Sight!Got(published, a)
               /\ Sight!Gone(all, a) = Sight!Gone(published, a)
    <3>1. /\ Sight!Got(all, a) = Sight!Got(published, a) \cup Sight!Got(released, a)
          /\ Sight!Gone(all, a) = Sight!Gone(published, a) \cup Sight!Gone(released, a)
      BY <1>4, GotJoin, GoneJoin
    <3> QED
      BY <1>4, <3>1
  <2>3. ASSUME NEW a PROVE Sight!Taught(published, a) \subseteq Sight!Taught(all, a)
    BY <1>4, TaughtJoin
  <2> QED
    BY <2>1, <2>2, <2>3
<1>7. last => \E i \in DOMAIN all : all[i].kind \in {"hora", "ryukyoku"}
  <2>1. last => Len(published) + 1 \in DOMAIN all /\ all[Len(published) + 1] = h.terminal[1]
    BY <1>3, <1>4, ListsJoin
  <2> QED
    BY <1>3, <2>1
<1> HIDE DEF all
<1>8. log' = log \o all
  BY <1>1, <1>6 DEF Sight!Logged
<1>9. aware \in [Audiences -> SUBSET Nat]
  BY DEF Sight!ViewsInv, Sight!TypeOK, Audiences, Sight!Tiles
<1>10. /\ aware' \in [Audiences -> SUBSET Nat]
       /\ \A a \in Audiences :
            /\ aware[a] \subseteq aware'[a] /\ Sight!Taught(all, a) \subseteq aware'[a]
            /\ \A i \in DOMAIN win : win[i].tiles \subseteq aware'[a]
  BY <1>1, <1>5, <1>6, <1>9, LearnIs
<1>11. h.next < Len(h.wins) => \A a \in Audiences : h.wins[h.next + 1].tiles \subseteq aware'[a]
  <2>1. ~last => 1 \in DOMAIN win /\ win[1] = h.wins[h.next + 1]
    BY <1>5
  <2> QED
    BY <1>2, <1>10, <2>1
<1> QED
  BY <1>1, <1>6, <1>7, <1>8, <1>10, <1>11

LEMMA DealtAlike ==
  ASSUME NEW x, NEW y, x.kyoku = y.kyoku, x.score = y.score
  PROVE  Sight!Dealt(x) = Sight!Dealt(y)
BY DEF Sight!Dealt

\* What the engine did when the Kyoku of h ended
Deals(h, e, d) ==
  \/ /\ d = Sight!NoDecision
     /\ e.hand = h.table.hand /\ e.next = h.table.next /\ e.kyoku = h.seq /\ e.score = h.seq
     /\ \A a \in Audiences : Sight!Shown(e, a) = Sight!Shown(h.table, a)
     /\ h.future = <<Sight!Plain("end", 0, {}), Sight!Plain("over", 0, {})>>
  \/ LET dealt == Sight!Dealt([h.table EXCEPT !.score = h.seq]) IN
     /\ e = Sight!Drawn(dealt, 1) /\ d = Sight!Turn(1)
     /\ h.future = <<Sight!Plain("end", 0, {})>> \o Sight!StartEvents(dealt)

LEMMA DealsStay ==
  ASSUME NEW h \in Holding, NEW g \in Sight!Holds, g.seq = h.seq, g.future = h.future,
         g.table.hand = h.table.hand, g.table.pond = h.table.pond,
         g.table.melds = h.table.melds, g.table.dora = h.table.dora,
         g.table.next = h.table.next, g.table.kyoku = h.table.kyoku,
         NEW e, NEW d, Deals(h, e, d)
  PROVE  Deals(g, e, d)
<1>1. \A a : Sight!Shown(h.table, a) = Sight!Shown(g.table, a)
  BY DEF Sight!Shown
<1>2. Sight!Dealt([h.table EXCEPT !.score = h.seq]) = Sight!Dealt([g.table EXCEPT !.score = g.seq])
  <2> DEFINE x == [h.table EXCEPT !.score = h.seq]
             y == [g.table EXCEPT !.score = g.seq]
  <2>1. h.table \in Sight!Tables /\ g.table \in Sight!Tables
    BY DEF Holding, Sight!Holds
  <2>2. x.kyoku = y.kyoku /\ x.score = y.score
    BY <2>1 DEF Sight!Tables
  <2> QED
    BY <2>2, DealtAlike
<1> QED
  BY <1>1, <1>2 DEF Deals

\* A result is shown: the first, when the Kyoku ends, or another.
LEMMA StepKeepsViews ==
  ASSUME Sight!Assumption, Sight!ViewsInv, NEW h \in Holding, h.next <= Len(h.wins),
         h.terminal # <<>>, NEW published \in Hids, ~Sight!Starts(published),
         NEW notes \in Seq(Heard), Sight!PublishStep(h, published, notes),
         h.seq = history.seq, h.table.kyoku = h.seq, h.table.score = h.seq - 1,
         ~history.done.settled, Sight!Fair(h.table),
         \A a \in Audiences :
           /\ Sight!Shown(h.table, a) \subseteq aware[a] \cup Sight!Taught(published, a)
           /\ \A i \in 1 .. Len(h.wins) : i <= h.next => h.wins[i].tiles \subseteq aware[a]
           /\ Sight!Shown(engine', a) \subseteq
                aware[a] \cup Sight!Taught(published, a) \cup Sight!Taught(h.future, a),
         \A cur : cur = history.current \o published =>
           \A a \in Seats : /\ h.table.hand[a] = Sight!Got(cur, a) \ Sight!Gone(cur, a)
                            /\ \A t \in Sight!Gone(cur, a) : t < h.table.next,
         engine' \in Sight!Tables, Sight!Fair(engine)', decision' \in Sight!Decisions,
         decision'.kind # "response", Deals(h, engine', decision')
  PROVE  Sight!ViewsInv'
<1> DEFINE g == [h EXCEPT !.next = @ + 1,
                          !.table.score = IF h.next = Len(h.wins) THEN @ + 1 ELSE @,
                          !.terminal = IF h.next = Len(h.wins) THEN <<>> ELSE @]
<1>0. held' = g /\ Sight!Publish(Sight!StepNotes \o notes)
  BY DEF Sight!PublishStep
<1>1. /\ g \in Sight!Holds /\ g.seq = h.seq /\ g.wins = h.wins /\ g.next = h.next + 1
      /\ g.future = h.future
      /\ g.table.hand = h.table.hand /\ g.table.pond = h.table.pond
      /\ g.table.melds = h.table.melds /\ g.table.dora = h.table.dora
      /\ g.table.next = h.table.next /\ g.table.last = h.table.last
      /\ g.table.kyoku = h.table.kyoku
      /\ g.table.score = h.table.score + (IF g.next > Len(g.wins) THEN 1 ELSE 0)
      /\ g.next <= Len(g.wins) => g.terminal = h.terminal
  <2> DEFINE last == h.next = Len(h.wins)
             f == [h EXCEPT !.next = @ + 1,
                            !.table.score = IF last THEN @ + 1 ELSE @,
                            !.terminal = IF last THEN <<>> ELSE @]
  <2>1. last \in BOOLEAN /\ (last <=> h.next = Len(h.wins))
    OBVIOUS
  <2>2. f = g
    OBVIOUS
  <2> HIDE DEF last
  <2>3. /\ f \in Sight!Holds /\ f.seq = h.seq /\ f.wins = h.wins /\ f.next = h.next + 1
        /\ f.future = h.future
        /\ f.table.hand = h.table.hand /\ f.table.pond = h.table.pond
        /\ f.table.melds = h.table.melds /\ f.table.dora = h.table.dora
        /\ f.table.next = h.table.next /\ f.table.last = h.table.last
        /\ f.table.kyoku = h.table.kyoku
        /\ f.table.score = h.table.score + (IF f.next > Len(f.wins) THEN 1 ELSE 0)
        /\ f.next <= Len(f.wins) => f.terminal = h.terminal
    BY <2>1, HoldMoves, ZenonT(60)
  <2> HIDE DEF f, g
  <2> QED
    BY <2>2, <2>3
<1> HIDE DEF g
<1>2. PICK all \in Hids :
        /\ ~Sight!Starts(all)
        /\ \A a : /\ Sight!Got(all, a) = Sight!Got(published, a)
                  /\ Sight!Gone(all, a) = Sight!Gone(published, a)
                  /\ Sight!Taught(published, a) \subseteq Sight!Taught(all, a)
        /\ log' = log \o all
        /\ history' = Sight!Recorded(history, all)
        /\ h.next = Len(h.wins) =>
             \E i \in DOMAIN all : all[i].kind \in {"hora", "ryukyoku"}
        /\ aware' \in [Audiences -> SUBSET Nat]
        /\ \A a \in Audiences : aware[a] \subseteq aware'[a] /\ Sight!Taught(all, a) \subseteq aware'[a]
        /\ h.next < Len(h.wins) =>
             \A a \in Audiences : h.wins[h.next + 1].tiles \subseteq aware'[a]
  BY StepPublishes
<1>3. /\ history \in Sight!Histories /\ history.current # <<>> /\ history.current \in Hids
      /\ log \in Hids
  BY DEF Sight!ViewsInv, Sight!TypeOK, Sight!Histories, Hids, Evs
<1>4. /\ history' \in Sight!Histories /\ history'.current # <<>>
      /\ history'.current = history.current \o all
      /\ history'.previous = history.previous /\ history'.seq = history.seq
      /\ history'.done = history.done
  BY <1>2, <1>3, ContinuedIs
<1>5. /\ client' = [on |-> client'.on, who |-> client'.who, queue |-> client'.queue,
                    state |-> client'.state, events |-> client'.events]
      /\ client'.on \in BOOLEAN /\ client'.queue \in Seq(Heard)
      /\ client'.who \in Audiences
      /\ Sight!EventsTiles(client'.events) \subseteq aware'[client'.who]
      /\ Sight!ClientIsCurrent'
  BY <1>0, <1>2, ClientKeeps, StepNotesAre, NotesJoin
<1>6. held'.seq # 0 /\ Sight!Table' = g.table
  BY <1>0, <1>1 DEF Sight!Holds, Sight!Table
<1>7. Sight!TypeOK'
  <2>1. log' \in Hids
    BY <1>2, <1>3, ListsJoin
  <2> QED
    BY <1>0, <1>1, <1>2, <1>4, <1>5, <2>1 DEF Sight!TypeOK, Hids, Evs, Heard, Audiences, Sight!Tiles
<1>8. Sight!KnownInv'
  <2>1. ASSUME NEW a \in Audiences
        PROVE  /\ Sight!Taught(log', a) \subseteq aware'[a]
               /\ Sight!Taught(history'.current, a) \subseteq aware'[a]
    <3>1. Sight!Taught(log, a) \subseteq aware[a] /\ Sight!Taught(history.current, a) \subseteq aware[a]
      BY DEF Sight!ViewsInv, Sight!KnownInv, Audiences
    <3> QED
      BY <1>2, <1>3, <1>4, <3>1, TaughtJoin
  <2>2. ASSUME NEW a \in Audiences
        PROVE  Sight!ResultTiles(history'.done) \subseteq aware'[a]
    BY <1>2, <1>4 DEF Sight!ViewsInv, Sight!KnownInv, Audiences
  <2>3. ASSUME NEW a \in Audiences
        PROVE  Sight!ResultTiles(Sight!Published(g)) \subseteq aware'[a]
    <3> DEFINE p == Sight!Published(g)
    <3>1. \A i \in DOMAIN p.wins : i \in 1 .. Len(g.wins) /\ i <= g.next /\ p.wins[i] = g.wins[i]
      BY <1>1, PublishedIs
    <3>2. h.next \in Nat /\ Len(h.wins) \in Nat
      BY LenProperties DEF Holding, Sight!AllWins
    <3> HIDE DEF p
    <3>3. ASSUME NEW i \in DOMAIN p.wins PROVE p.wins[i].tiles \subseteq aware'[a]
      <4>1. i \in 1 .. Len(h.wins) /\ (i <= h.next \/ i = h.next + 1) /\ p.wins[i] = h.wins[i]
        BY <1>1, <3>1, <3>2
      <4>2. CASE i <= h.next
        BY <1>2, <4>1, <4>2
      <4>3. CASE i = h.next + 1
        BY <1>2, <3>2, <4>1, <4>3
      <4> QED
        BY <4>1, <4>2, <4>3
    <3> QED
      BY <3>3 DEF Sight!ResultTiles, p
  <2>4. ASSUME NEW a \in Audiences
        PROVE  /\ Sight!Shown(g.table, a) \subseteq aware'[a]
               /\ Sight!Shown(engine', a) \subseteq aware'[a] \cup Sight!Taught(g.future, a)
    <3>1. Sight!Shown(g.table, a) = Sight!Shown(h.table, a)
      BY <1>1 DEF Sight!Shown
    <3> QED
      BY <1>1, <1>2, <3>1
  <2>5. \A a : Sight!Ahead(a)' = Sight!Taught(g.future, a)
    BY <1>0, <1>6 DEF Sight!Ahead, Sight!Taught, Sight!Teaches, Sight!Public
  <2> QED
    BY <1>0, <1>5, <1>6, <2>1, <2>2, <2>3, <2>4, <2>5 DEF Sight!KnownInv, Audiences
<1>9. Sight!HandInv'
  <2>1. Sight!Fair(g.table)
    BY <1>1 DEF Sight!Fair
  <2>2. ASSUME NEW a \in Seats
        PROVE  /\ g.table.hand[a] = Sight!Got(history'.current, a) \ Sight!Gone(history'.current, a)
               /\ \A t \in Sight!Gone(history'.current, a) : t < g.table.next
    <3> DEFINE cur == history.current \o published
    <3>1. /\ h.table.hand[a] = Sight!Got(cur, a) \ Sight!Gone(cur, a)
          /\ \A t \in Sight!Gone(cur, a) : t < h.table.next
      OBVIOUS
    <3>2. /\ Sight!Got(cur, a) = Sight!Got(history'.current, a)
          /\ Sight!Gone(cur, a) = Sight!Gone(history'.current, a)
      <4>1. /\ Sight!Got(cur, a) = Sight!Got(history.current, a) \cup Sight!Got(published, a)
            /\ Sight!Gone(cur, a) = Sight!Gone(history.current, a) \cup Sight!Gone(published, a)
        BY <1>3, GotJoin, GoneJoin
      <4>2. LET new == history.current \o all IN
            /\ Sight!Got(new, a) = Sight!Got(history.current, a) \cup Sight!Got(all, a)
            /\ Sight!Gone(new, a) = Sight!Gone(history.current, a) \cup Sight!Gone(all, a)
        BY <1>3, GotJoin, GoneJoin
      <4> QED
        BY <1>2, <1>4, <4>1, <4>2
    <3> QED
      BY <1>1, <3>1, <3>2
  <2>3. \A t : t = Sight!Table' => (Sight!Fair(Sight!Table)' <=> Sight!Fair(t))
    BY DEF Sight!Fair
  <2> QED
    BY <1>6, <2>1, <2>2, <2>3 DEF Sight!HandInv, Seats
<1>10. Sight!FiledInv'
  <2>1. /\ Len(history'.previous) = history'.seq - 1
        /\ \A i \in 1 .. Len(history'.previous) :
             history'.previous[i].seq = i /\ history'.previous[i].settled
    BY <1>4 DEF Sight!ViewsInv, Sight!FiledInv
  <2>2. g.table.score = g.seq - (IF g.next > Len(g.wins) THEN 0 ELSE 1)
    <3>1. h.table.score \in Nat /\ h.seq \in Nat
      BY DEF Holding, Sight!Tables
    <3> QED
      BY <1>1, <3>1
  <2>3. g.next > Len(g.wins) => Sight!Terminal(history'.current) # {}
    <3>1. SUFFICES ASSUME g.next > Len(g.wins) PROVE Sight!Terminal(history'.current) # {}
      OBVIOUS
    <3>2. h.next = Len(h.wins)
      <4>1. h.next \in Nat /\ Len(h.wins) \in Nat
        BY LenProperties DEF Holding, Sight!AllWins
      <4> QED
        BY <1>1, <3>1, <4>1
    <3>3. PICK i \in DOMAIN all : all[i].kind \in {"hora", "ryukyoku"}
      BY <1>2, <3>2
    <3>4. Len(history.current) + i \in DOMAIN history'.current
          /\ history'.current[Len(history.current) + i] = all[i]
      <4>1. LET new == history.current \o all IN
            Len(history.current) + i \in DOMAIN new /\ new[Len(history.current) + i] = all[i]
        BY <1>3, ListsJoin
      <4> QED
        BY <1>4, <4>1
    <3> QED
      BY <3>3, <3>4 DEF Sight!Terminal
  <2>4. g.next <= Len(g.wins) => g.terminal # <<>>
    BY <1>1
  <2>5. Sight!MatchOver' \/ Sight!NextDealt'
    <3>1. Deals(held', engine', decision')
      BY <1>0, <1>1, DealsStay
    <3>2. \A a, e, t : e = engine' /\ t = held'.table =>
            /\ Sight!Shown(engine, a)' = Sight!Shown(e, a)
            /\ Sight!Shown(held.table, a)' = Sight!Shown(t, a)
      BY DEF Sight!Shown
    <3>3. CASE Sight!NextDealt'
      BY <3>3
    <3>4. CASE ~Sight!NextDealt'
      <4>1. \A b, e : e = [held'.table EXCEPT !.score = held'.seq] /\ b = Sight!Dealt(e) =>
              (Sight!NextDealt' <=> /\ engine' = Sight!Drawn(b, 1) /\ decision' = Sight!Turn(1)
                                    /\ held'.future = <<Sight!Plain("end", 0, {})>> \o Sight!StartEvents(b))
        BY DEF Sight!NextDealt
      <4>2. /\ decision' = Sight!NoDecision
            /\ engine'.hand = held'.table.hand /\ engine'.next = held'.table.next
            /\ engine'.kyoku = held'.seq /\ engine'.score = held'.seq
            /\ \A a \in Audiences : Sight!Shown(engine', a) = Sight!Shown(held'.table, a)
            /\ held'.future = <<Sight!Plain("end", 0, {}), Sight!Plain("over", 0, {})>>
        BY <3>1, <3>4, <4>1 DEF Deals
      <4> QED
        BY <3>2, <4>2 DEF Sight!MatchOver, Audiences
    <3> QED
      BY <3>3, <3>4
  <2> QED
    BY <1>0, <1>1, <1>4, <1>6, <2>1, <2>2, <2>3, <2>4, <2>5 DEF Sight!FiledInv
<1> QED
  BY <1>5, <1>7, <1>8, <1>9, <1>10 DEF Sight!ViewsInv

\* Play goes on in the same Kyoku.
LEMMA GoesKeepsViews ==
  ASSUME Sight!Assumption, Sight!ViewsInv, Sight!Playing,
         NEW e, NEW report, NEW d \in Sight!Decisions, Follows(e, report),
         d.kind = "response" => \A a \in Seats : e.last \notin e.hand[a],
         Sight!Goes(e, report, d)
  PROVE  Sight!ViewsInv'
<1>1. /\ engine' = e /\ decision' = d /\ held' = held /\ held.seq = 0 /\ decision.kind # "none"
      /\ log' = Sight!Logged(report) /\ history' = Sight!Recorded(history, report)
      /\ Sight!Learn(report, <<>>) /\ Sight!Publish(Sight!ResolvedNotes(report))
  BY DEF Sight!Goes, Sight!Playing
<1>2. report \in Hids /\ ~Sight!Starts(report) /\ e \in Sight!Tables
  BY DEF Follows
<1>3. /\ history \in Sight!Histories /\ history.current # <<>> /\ history.current \in Hids
      /\ log \in Hids /\ aware \in [Audiences -> SUBSET Nat]
  BY DEF Sight!ViewsInv, Sight!TypeOK, Sight!Histories, Hids, Evs, Audiences, Sight!Tiles
<1>4. /\ history' \in Sight!Histories /\ history'.current # <<>>
      /\ history'.current = history.current \o report
      /\ history'.previous = history.previous /\ history'.seq = history.seq
      /\ history'.done = history.done
  BY <1>1, <1>2, <1>3, ContinuedIs
<1>5. log' = log \o report
  BY <1>1, <1>2 DEF Sight!Logged
<1>6. /\ aware' \in [Audiences -> SUBSET Nat]
      /\ \A a \in Audiences :
           aware[a] \subseteq aware'[a] /\ Sight!Taught(report, a) \subseteq aware'[a]
  <2>1. <<>> \in Sight!AllWins
    BY DEF Sight!AllWins
  <2> QED
    BY <1>1, <1>2, <1>3, <2>1, LearnIs
<1>7. /\ client' = [on |-> client'.on, who |-> client'.who, queue |-> client'.queue,
                    state |-> client'.state, events |-> client'.events]
      /\ client'.on \in BOOLEAN /\ client'.queue \in Seq(Heard)
      /\ client'.who \in Audiences
      /\ Sight!EventsTiles(client'.events) \subseteq aware'[client'.who]
      /\ Sight!ClientIsCurrent'
  BY <1>1, <1>2, <1>6, ClientKeeps, ResolvedNotesAre
<1>8. held'.seq = 0 /\ Sight!Table' = e /\ Sight!Table = engine
  BY <1>1 DEF Sight!Table
<1>9. Sight!TypeOK'
  <2>1. log' \in Hids
    BY <1>2, <1>3, <1>5, ListsJoin
  <2> QED
    BY <1>1, <1>2, <1>4, <1>6, <1>7, <2>1
    DEF Sight!ViewsInv, Sight!TypeOK, Hids, Evs, Heard, Audiences, Sight!Tiles
<1>10. Sight!KnownInv'
  <2>1. ASSUME NEW a \in Audiences
        PROVE  /\ Sight!Taught(log', a) \subseteq aware'[a]
               /\ Sight!Taught(history'.current, a) \subseteq aware'[a]
    <3>1. Sight!Taught(log, a) \subseteq aware[a] /\ Sight!Taught(history.current, a) \subseteq aware[a]
      BY DEF Sight!ViewsInv, Sight!KnownInv, Audiences
    <3> QED
      BY <1>2, <1>3, <1>4, <1>5, <1>6, <3>1, TaughtJoin
  <2>2. ASSUME NEW a \in Audiences
        PROVE  /\ Sight!ResultTiles(history'.done) \subseteq aware'[a]
               /\ Sight!ResultTiles(Sight!Published(held)) \subseteq aware'[a]
    BY <1>4, <1>6 DEF Sight!ViewsInv, Sight!KnownInv, Audiences
  <2>3. ASSUME NEW a \in Audiences PROVE Sight!Shown(e, a) \subseteq aware'[a]
    <3>1. Sight!Shown(engine, a) \subseteq aware[a]
      BY <1>8 DEF Sight!ViewsInv, Sight!KnownInv, Audiences
    <3>2. Sight!Shown(e, a) \subseteq Sight!Shown(engine, a) \cup Sight!Taught(report, a)
      BY DEF Follows
    <3> QED
      BY <1>6, <3>1, <3>2
  <2> QED
    BY <1>1, <1>7, <1>8, <2>1, <2>2, <2>3 DEF Sight!KnownInv, Audiences
<1>11. Sight!HandInv'
  <2>1. Sight!Fair(e)
    BY FollowsFair DEF Sight!ViewsInv, Sight!HandInv, Sight!TypeOK, Sight!Tables
  <2>2. \A a \in Seats :
          /\ e.hand[a] = Sight!Got(history'.current, a) \ Sight!Gone(history'.current, a)
          /\ \A t \in Sight!Gone(history'.current, a) : t < e.next
    BY <1>1, <1>4, FollowsHand DEF Sight!ViewsInv
  <2>3. \A t : t = Sight!Table' => (Sight!Fair(Sight!Table)' <=> Sight!Fair(t))
    BY DEF Sight!Fair
  <2>4. \A t : t = engine' => (Sight!Fair(engine)' <=> Sight!Fair(t))
    BY DEF Sight!Fair
  <2> QED
    BY <1>1, <1>8, <2>1, <2>2, <2>3, <2>4 DEF Sight!HandInv, Seats
<1>12. Sight!FiledInv'
  <2>1. ~history.done.settled
    BY <1>1 DEF Sight!ViewsInv, Sight!FiledInv, Sight!NoDecision
  <2>2. e.kyoku = engine.kyoku /\ e.score = engine.score
    BY DEF Follows
  <2> QED
    BY <1>1, <1>4, <1>8, <2>1, <2>2 DEF Sight!ViewsInv, Sight!FiledInv
<1> QED
  BY <1>7, <1>9, <1>10, <1>11, <1>12 DEF Sight!ViewsInv

LEMMA TwoEvents ==
  ASSUME NEW x \in Evs, NEW y \in Evs
  PROVE  <<x>> \o <<y>> = <<x, y>> /\ <<x, y>> \in Hids
<1>1. <<x>> \in Seq(Evs) /\ <<y>> \in Seq(Evs) /\ <<x, y>> \in Seq(Evs)
      /\ Len(<<x>>) = 1 /\ Len(<<y>>) = 1 /\ Len(<<x, y>>) = 2
      /\ <<x>>[1] = x /\ <<y>>[1] = y /\ <<x, y>>[1] = x /\ <<x, y>>[2] = y
  OBVIOUS
<1>2. /\ <<x>> \o <<y>> \in Seq(Evs) /\ Len(<<x>> \o <<y>>) = 2
      /\ (<<x>> \o <<y>>)[1] = x /\ (<<x>> \o <<y>>)[2] = y
  BY <1>1, ConcatProperties
<1>3. \A i \in 1 .. 2 : (<<x>> \o <<y>>)[i] = <<x, y>>[i]
  BY <1>1, <1>2
<1> QED
  BY <1>1, <1>2, <1>3, SeqEqual DEF Hids

\* The events of a deal show and tell just what was dealt.
LEMMA StartEventsAre ==
  ASSUME Sight!Assumption, NEW b, b.kyoku \in Nat, b.score \in Nat
  PROVE  LET d == Sight!Dealt(b)
             e == Sight!Drawn(d, 1)
             s == Sight!StartEvents(d)
         IN  /\ s \in Hids /\ Len(s) = 2 /\ s[1].kind = "start" /\ s[2].kind = "tsumo"
             /\ \A a \in Audiences : Sight!Shown(e, a) = Sight!Taught(s, a)
             /\ \A a \in Seats : Sight!Got(s, a) = e.hand[a] /\ Sight!Gone(s, a) = {}
<1> DEFINE d == Sight!Dealt(b)
           e == Sight!Drawn(d, 1)
           st == Sight!Event("start", 1, d.dora, d.hand)
           ts == Sight!Plain("tsumo", 1, {d.next})
           s == <<st, ts>>
<1>1. /\ d \in Sight!Tables /\ e.dora = d.dora /\ e.pond = d.pond /\ e.melds = d.melds
      /\ \A p \in Seats : d.pond[p] = {} /\ d.melds[p] = {}
      /\ \A p \in Seats : e.hand[p] = IF p = 1 THEN d.hand[1] \cup {d.next} ELSE d.hand[p]
      /\ d.next \in Nat
  BY DealtIs
<1>2. Sight!StartEvents(d) = s
  BY DEF Sight!StartEvents, Sight!DrawEvent
<1>3. st \in Evs /\ st.kind = "start" /\ st.tiles = d.dora /\ st.hands = d.hand
  BY <1>1 DEF Sight!Event, Sight!Events, Evs, Sight!Tables
<1>4. ts \in Evs /\ ts.kind = "tsumo" /\ ts.actor = 1 /\ ts.tiles = {d.next}
  BY <1>1, PlainIs
<1> HIDE DEF st, ts, d, e
<1>5. /\ s \in Hids /\ Len(s) = 2 /\ s[1] = st /\ s[2] = ts /\ s = <<st>> \o <<ts>>
      /\ <<st>> \in Hids /\ <<ts>> \in Hids
  <2>1. <<st>> \in Hids /\ <<ts>> \in Hids
    BY <1>3, <1>4, OneEvent
  <2>2. s = <<st>> \o <<ts>> /\ s \in Hids
    BY <1>3, <1>4, TwoEvents
  <2> QED
    BY <2>1, <2>2
<1>6. ASSUME NEW a \in Audiences PROVE Sight!Shown(e, a) = Sight!Taught(s, a)
  <2>1. Sight!Taught(s, a) = Sight!Teaches(st, a) \cup Sight!Teaches(ts, a)
    BY <1>3, <1>4, <1>5, OneEvent, TaughtJoin
  <2>2. Sight!Teaches(st, a) = d.dora \cup (IF a = 0 THEN {} ELSE d.hand[a])
    BY <1>3 DEF Sight!Teaches, Sight!Public
  <2>3. Sight!Teaches(ts, a) = IF a = 1 THEN {d.next} ELSE {}
    BY <1>4 DEF Sight!Teaches
  <2>4. Sight!Shown(e, a) = (IF a = 0 THEN {} ELSE e.hand[a]) \cup d.dora
    BY <1>1 DEF Sight!Shown, Sight!Public, Seats
  <2>5. a = 0 \/ a \in Seats
    BY DEF Audiences, Sight!Audiences, Seats, Sight!Public
  <2>6. CASE a = 0
    BY <2>1, <2>2, <2>3, <2>4, <2>6
  <2>7. CASE a # 0
    BY <1>1, <2>1, <2>2, <2>3, <2>4, <2>5, <2>7
  <2> QED
    BY <2>6, <2>7
<1>7. ASSUME NEW a \in Seats PROVE Sight!Got(s, a) = e.hand[a] /\ Sight!Gone(s, a) = {}
  <2>1. /\ Sight!Got(s, a) = Sight!Got(<<st>>, a) \cup Sight!Got(<<ts>>, a)
        /\ Sight!Gone(s, a) = Sight!Gone(<<st>>, a) \cup Sight!Gone(<<ts>>, a)
    <3>1. LET u == <<st>> \o <<ts>> IN
          /\ Sight!Got(u, a) = Sight!Got(<<st>>, a) \cup Sight!Got(<<ts>>, a)
          /\ Sight!Gone(u, a) = Sight!Gone(<<st>>, a) \cup Sight!Gone(<<ts>>, a)
      BY <1>5, GotJoin, GoneJoin
    <3> QED
      BY <1>5, <3>1
  <2>2. Sight!Got(<<st>>, a) = d.hand[a] /\ Sight!Gone(<<st>>, a) = {}
    BY <1>3, OneEvent
  <2>3. Sight!Got(<<ts>>, a) = (IF a = 1 THEN {d.next} ELSE {}) /\ Sight!Gone(<<ts>>, a) = {}
    BY <1>4, OneEvent
  <2> QED
    BY <1>1, <2>1, <2>2, <2>3
<1> QED
  BY <1>2, <1>3, <1>4, <1>5, <1>6, <1>7 DEF d, e

LEMMA EndEventsAre ==
  LET en == Sight!Plain("end", 0, {})
      ov == Sight!Plain("over", 0, {})
  IN  /\ en \in Evs /\ en.kind = "end" /\ <<en>> \in Hids /\ ~Sight!Starts(<<en>>)
      /\ <<en, ov>> \in Hids /\ ~Sight!Starts(<<en, ov>>)
      /\ \A a : /\ Sight!Got(<<en, ov>>, a) = {} /\ Sight!Gone(<<en, ov>>, a) = {}
                /\ Sight!Got(<<en>>, a) = {} /\ Sight!Gone(<<en>>, a) = {}
                /\ Sight!Taught(<<en>>, a) = {}
<1> DEFINE en == Sight!Plain("end", 0, {})
           ov == Sight!Plain("over", 0, {})
<1>1. /\ en \in Evs /\ en.kind = "end" /\ en.tiles = {}
      /\ ov \in Evs /\ ov.kind = "over" /\ ov.tiles = {}
  BY PlainIs
<1> HIDE DEF en, ov
<1>2. /\ <<en>> \in Hids /\ ~Sight!Starts(<<en>>) /\ <<ov>> \in Hids /\ ~Sight!Starts(<<ov>>)
      /\ \A a : /\ Sight!Got(<<en>>, a) = {} /\ Sight!Gone(<<en>>, a) = {}
                /\ Sight!Got(<<ov>>, a) = {} /\ Sight!Gone(<<ov>>, a) = {}
                /\ Sight!Taught(<<en>>, a) = {}
  BY <1>1, OneEvent DEF Sight!Teaches
<1>3. <<en, ov>> = <<en>> \o <<ov>>
  BY <1>1, TwoEvents
<1>4. <<en, ov>> \in Hids /\ ~Sight!Starts(<<en, ov>>)
      /\ \A a : Sight!Got(<<en, ov>>, a) = {} /\ Sight!Gone(<<en, ov>>, a) = {}
  <2>1. <<en>> \o <<ov>> \in Hids /\ ~Sight!Starts(<<en>> \o <<ov>>)
    BY <1>2, ListsJoin, StartsJoin
  <2>2. \A a : Sight!Got(<<en>> \o <<ov>>, a) = {} /\ Sight!Gone(<<en>> \o <<ov>>, a) = {}
    BY <1>2, GotJoin, GoneJoin
  <2> QED
    BY <1>3, <2>1, <2>2
<1> QED
  BY <1>1, <1>2, <1>4 DEF en, ov

\* What waits to be released when there is another Kyoku
LEMMA WaitingIs ==
  ASSUME NEW s \in Hids, Len(s) = 2, s[1].kind = "start", s[2].kind # "start",
         NEW en \in Evs, en.kind # "start"
  PROVE  LET w == <<en>> \o s IN
         /\ w \in Hids /\ Len(w) = 3 /\ Sight!Starts(w) /\ Sight!StartOf(w) = 2
         /\ SubSeq(w, 1, 1) = <<en>> /\ SubSeq(w, 2, 3) = s
         /\ Sight!Starts(s) /\ Sight!StartOf(s) = 1 /\ SubSeq(s, 1, 2) = s /\ SubSeq(s, 1, 0) = <<>>
<1> DEFINE x == <<en>>
           w == x \o s
<1>1. s \in Seq(Evs) /\ x \in Seq(Evs) /\ Len(x) = 1 /\ x[1] = en
  BY DEF Hids
<1> HIDE DEF x
<1>2. /\ w \in Seq(Evs) /\ Len(w) = 3
      /\ \A i \in 1 .. 3 : w[i] = IF i <= 1 THEN x[i] ELSE s[i - 1]
  BY <1>1, ConcatProperties
<1>3. w \in Seq(Evs) /\ Len(w) = 3 /\ DOMAIN w = 1 .. 3 /\ w[1] = en /\ w[2] = s[1] /\ w[3] = s[2]
  BY <1>1, <1>2
<1> HIDE DEF w
<1>4. SubSeq(w, 1, 1) = x /\ SubSeq(w, 2, 3) = s
  <2>1. \A i \in 1 .. 3 : w[i] \in Evs
    BY <1>3
  <2>2. /\ SubSeq(w, 1, 1) \in Seq(Evs) /\ Len(SubSeq(w, 1, 1)) = 1
        /\ \A i \in 1 .. 1 : SubSeq(w, 1, 1)[i] = w[1 + i - 1]
    BY <2>1, SubSeqProperties
  <2>3. /\ SubSeq(w, 2, 3) \in Seq(Evs) /\ Len(SubSeq(w, 2, 3)) = 2
        /\ \A i \in 1 .. 2 : SubSeq(w, 2, 3)[i] = w[2 + i - 1]
    BY <2>1, SubSeqProperties
  <2>4. \A i \in 1 .. 1 : SubSeq(w, 1, 1)[i] = x[i]
    BY <1>1, <1>3, <2>2
  <2>5. \A i \in 1 .. 2 : SubSeq(w, 2, 3)[i] = s[i]
    BY <1>3, <2>3
  <2>6. SubSeq(w, 1, 1) = x
    BY <1>1, <2>2, <2>4, SeqEqual
  <2>7. SubSeq(w, 2, 3) = s
    BY <1>1, <2>3, <2>5, SeqEqual
  <2> QED
    BY <2>6, <2>7
<1>5. SubSeq(s, 1, 2) = s /\ SubSeq(s, 1, 0) = <<>> /\ DOMAIN s = 1 .. 2
  <2>1. \A i \in 1 .. 2 : s[i] \in Evs
    BY <1>1
  <2>2. /\ SubSeq(s, 1, 2) \in Seq(Evs) /\ Len(SubSeq(s, 1, 2)) = 2
        /\ \A i \in 1 .. 2 : SubSeq(s, 1, 2)[i] = s[1 + i - 1]
    BY <2>1, SubSeqProperties
  <2>3. \A i \in 1 .. 2 : SubSeq(s, 1, 2)[i] = s[i]
    BY <2>2
  <2>4. SubSeq(s, 1, 2) = s
    BY <1>1, <2>2, <2>3, SeqEqual
  <2>5. SubSeq(s, 1, 0) = <<>>
    BY SubSeqEmpty
  <2> QED
    BY <1>1, <2>4, <2>5
<1>6. Sight!Starts(w) /\ Sight!StartOf(w) = 2
  <2>1. \A i \in DOMAIN w : w[i].kind = "start" <=> i = 2
    BY <1>3
  <2>2. 2 \in DOMAIN w
    BY <1>3
  <2> QED
    BY <2>1, <2>2 DEF Sight!Starts, Sight!StartOf
<1>7. Sight!Starts(s) /\ Sight!StartOf(s) = 1
  <2>1. \A i \in DOMAIN s : s[i].kind = "start" <=> i = 1
    BY <1>5
  <2>2. 1 \in DOMAIN s
    BY <1>5
  <2> QED
    BY <2>1, <2>2 DEF Sight!Starts, Sight!StartOf
<1> QED
  BY <1>3, <1>4, <1>5, <1>6, <1>7 DEF w, x, Hids

\* What may be said of the Kyoku that is played
LEMMA PlayingIs ==
  ASSUME Sight!ViewsInv, Sight!Playing
  PROVE  /\ held = Sight!NoHold /\ held.seq = 0 /\ Sight!Table = engine /\ engine \in Sight!Tables
         /\ history.seq = engine.kyoku /\ engine.kyoku \in Nat \ {0}
         /\ ~history.done.settled /\ engine.score = history.seq - 1
         /\ decision \in Sight!Decisions
         /\ \A a \in Audiences : Sight!Shown(engine, a) \subseteq aware[a]
         /\ Sight!Fair(engine)
<1>1. /\ held.seq = 0 /\ decision.kind # "none"
      /\ held = Sight!NoHold \/ held \in Sight!Holds
      /\ engine \in Sight!Tables /\ history \in Sight!Histories /\ decision \in Sight!Decisions
  BY DEF Sight!ViewsInv, Sight!TypeOK, Sight!Playing
<1>2. held = Sight!NoHold
  BY <1>1 DEF Sight!Holds
<1>3. Sight!Table = engine
  BY <1>1 DEF Sight!Table
<1>4. /\ history.seq = engine.kyoku /\ Len(history.previous) = history.seq - 1
      /\ ~history.done.settled /\ engine.score = history.seq - 1
  BY <1>1 DEF Sight!ViewsInv, Sight!FiledInv, Sight!NoDecision
<1>5. engine.kyoku \in Nat \ {0}
  <2>1. history.previous \in Seq([ends : Nat, seq : Nat, settled : BOOLEAN]) /\ history.seq \in Nat
    BY <1>1 DEF Sight!Histories
  <2>2. Len(history.previous) \in Nat
    BY <2>1, LenProperties
  <2> QED
    BY <1>4, <2>1, <2>2
<1>6. \A a \in Audiences : Sight!Shown(engine, a) \subseteq aware[a]
  BY <1>3 DEF Sight!ViewsInv, Sight!KnownInv, Audiences
<1> QED
  BY <1>1, <1>2, <1>3, <1>4, <1>5, <1>6 DEF Sight!ViewsInv, Sight!HandInv

\* The event of a win
LEMMA WinEvent ==
  ASSUME NEW s \in Nat, NEW tiles \in SUBSET Nat
  PROVE  Sight!Plain("hora", s, tiles) \in Sight!Endings
<1> DEFINE none == [t \in Seats |-> {}]
<1>1. none \in [Seats -> SUBSET Nat] /\ \A t \in Seats : none[t] = {}
  OBVIOUS
<1>2. Sight!Plain("hora", s, tiles)
        = [kind |-> "hora", actor |-> s, tiles |-> tiles, hands |-> none]
  BY DEF Sight!Plain, Sight!Event, Seats
<1> DEFINE ev == [kind |-> "hora", actor |-> s, tiles |-> tiles, hands |-> none]
<1> HIDE DEF none
<1>3. /\ ev \in [kind : {"start", "tsumo", "dahai", "call", "ankan", "dora", "hora", "ryukyoku",
                        "end", "over"},
                actor : Nat, tiles : SUBSET Nat, hands : [Seats -> SUBSET Nat]]
      /\ ev.kind = "hora" /\ \A t \in Seats : ev.hands[t] = {}
  BY <1>1
<1> HIDE DEF ev
<1>4. ev \in Sight!Events
  BY <1>3 DEF Sight!Events, Sight!Tiles, Seats
<1>5. ev \in Sight!Endings
  BY <1>3, <1>4 DEF Sight!Endings
<1> QED
  BY <1>2, <1>5 DEF ev

\* The events that end a Kyoku
LEMMA TerminalIs ==
  ASSUME NEW e \in Sight!Tables, NEW wins \in Sight!AllWins, NEW tiles \in SUBSET Nat,
         NEW showing \in SUBSET Seats
  PROVE  LET over == IF wins = <<>>
                     THEN <<Sight!Event("ryukyoku", 0, {},
                              [s \in Seats |-> IF s \in showing THEN e.hand[s] ELSE {}])>>
                     ELSE [i \in DOMAIN wins |-> Sight!Plain("hora", wins[i].seat, tiles)]
         IN over \in Seq(Sight!Endings) /\ over # <<>>
<1>1. CASE wins = <<>>
  <2> DEFINE ev == Sight!Event("ryukyoku", 0, {},
                     [s \in Seats |-> IF s \in showing THEN e.hand[s] ELSE {}])
  <2>1. e.hand \in [Seats -> SUBSET Nat]
    BY DEF Sight!Tables, Sight!Tiles, Seats
  <2>2. [s \in Seats |-> IF s \in showing THEN e.hand[s] ELSE {}] \in [Seats -> SUBSET Nat]
    BY <2>1
  <2>3. ev \in Sight!Endings
    BY <2>2 DEF Sight!Endings, Sight!Events, Sight!Event, Sight!Tiles, Seats
  <2> HIDE DEF ev
  <2>4. <<ev>> \in Seq(Sight!Endings) /\ <<ev>> # <<>>
    BY <2>3
  <2> QED
    BY <1>1, <2>4 DEF ev
<1>2. CASE wins # <<>>
  <2> DEFINE W == [seat : Sight!Seats, tiles : Sight!Tiles]
             over == [i \in DOMAIN wins |-> Sight!Plain("hora", wins[i].seat, tiles)]
  <2>1. Len(wins) \in Nat \ {0} /\ DOMAIN wins = 1 .. Len(wins)
    BY <1>2, EmptySeq, LenProperties DEF Sight!AllWins
  <2>2. \A i \in DOMAIN wins : wins[i] \in W
    BY ElementOf DEF Sight!AllWins
  <2>3. ASSUME NEW i \in DOMAIN wins PROVE over[i] \in Sight!Endings
    <3>1. wins[i].seat \in Nat
      BY <2>2 DEF Sight!Seats
    <3> QED
      BY <3>1, WinEvent
  <2>4. over \in [1 .. Len(wins) -> Sight!Endings]
    BY <2>1, <2>3
  <2> HIDE DEF over
  <2>5. over \in Seq(Sight!Endings) /\ DOMAIN over = 1 .. Len(wins)
    BY <2>1, <2>4
  <2>6. over # <<>>
    BY <2>1, <2>5
  <2> QED
    BY <1>2, <2>5, <2>6 DEF over
<1> QED
  BY <1>1, <1>2

LEMMA EndsKeepsViews ==
  ASSUME Sight!Assumption, Sight!ViewsInv, Sight!Playing,
         NEW e, NEW report, Follows(e, report), NEW wins \in Sight!AllWins,
         NEW tiles \in SUBSET Nat, NEW showing \in SUBSET Seats,
         Sight!Ends(e, report, wins, tiles, showing)
  PROVE  Sight!ViewsInv'
<1> DEFINE settled == [e EXCEPT !.score = @ + 1]
           more == e.kyoku < Kyokus
           dealt == Sight!Dealt(settled)
           en == Sight!Plain("end", 0, {})
           over == IF wins = <<>>
                   THEN <<Sight!Event("ryukyoku", 0, {},
                            [s \in Seats |-> IF s \in showing THEN e.hand[s] ELSE {}])>>
                   ELSE [i \in DOMAIN wins |-> Sight!Plain("hora", wins[i].seat, tiles)]
           future == <<en>> \o (IF more THEN Sight!StartEvents(dealt)
                                ELSE <<Sight!Plain("over", 0, {})>>)
           h == [seq |-> e.kyoku, table |-> e, wins |-> wins, next |-> 0, terminal |-> over,
                 future |-> future]
<1>1. /\ engine' = IF more THEN Sight!Drawn(dealt, 1) ELSE settled
      /\ decision' = IF more THEN Sight!Turn(1) ELSE Sight!NoDecision
      /\ Sight!PublishStep(h, report, Sight!ResolvedNotes(report))
  BY DEF Sight!Ends, Seats
<1>2. /\ e \in Sight!Tables /\ report \in Hids /\ ~Sight!Starts(report)
      /\ e.kyoku = engine.kyoku /\ e.score = engine.score
      /\ \A a \in Audiences :
           Sight!Shown(e, a) \subseteq Sight!Shown(engine, a) \cup Sight!Taught(report, a)
  BY DEF Follows
<1>3. /\ held.seq = 0 /\ engine.kyoku \in Nat \ {0} /\ history.seq = engine.kyoku
      /\ engine.score = history.seq - 1 /\ ~history.done.settled
      /\ \A a \in Audiences : Sight!Shown(engine, a) \subseteq aware[a]
      /\ engine \in Sight!Tables /\ Sight!Fair(engine)
  BY PlayingIs
<1>4. over \in Seq(Sight!Endings) /\ over # <<>>
  BY <1>2, TerminalIs
<1>5. /\ settled \in Sight!Tables /\ settled.kyoku = e.kyoku /\ settled.score = e.score + 1
      /\ settled.hand = e.hand /\ settled.pond = e.pond /\ settled.melds = e.melds
      /\ settled.dora = e.dora /\ settled.next = e.next /\ settled.last = e.last
  BY <1>2 DEF Sight!Tables
<1> HIDE DEF over, settled
<1>6. en \in Evs /\ <<en>> \in Hids /\ \A a : Sight!Taught(<<en>>, a) = {}
  BY EndEventsAre
<1>7. settled.kyoku \in Nat /\ settled.score \in Nat
  BY <1>5 DEF Sight!Tables
<1>8. future \in Hids
  <2>1. CASE more
    BY <1>6, <1>7, <2>1, StartEventsAre, ListsJoin
  <2>2. CASE ~more
    <3>1. Sight!Plain("over", 0, {}) \in Evs
      BY PlainIs
    <3> QED
      BY <1>6, <2>2, <3>1, OneEvent, ListsJoin
  <2> QED
    BY <2>1, <2>2
<1>9. ASSUME NEW a \in Audiences
      PROVE  Sight!Shown(engine', a) \subseteq
               aware[a] \cup Sight!Taught(report, a) \cup Sight!Taught(future, a)
  <2>1. CASE more
    <3>1. Sight!StartEvents(dealt) \in Hids
          /\ Sight!Shown(Sight!Drawn(dealt, 1), a) = Sight!Taught(Sight!StartEvents(dealt), a)
      BY <1>7, StartEventsAre
    <3>2. Sight!Taught(Sight!StartEvents(dealt), a) \subseteq Sight!Taught(future, a)
      BY <1>6, <2>1, <3>1, TaughtJoin
    <3> QED
      BY <1>1, <2>1, <3>1, <3>2
  <2>2. CASE ~more
    <3>1. Sight!Shown(settled, a) = Sight!Shown(e, a)
      BY <1>5 DEF Sight!Shown
    <3> QED
      BY <1>1, <1>2, <1>3, <2>2, <3>1
  <2> QED
    BY <2>1, <2>2
<1>10. engine' \in Sight!Tables /\ Sight!Fair(engine')
       /\ decision' \in Sight!Decisions /\ decision'.kind # "response"
  <2>1. Sight!Fair(settled)
    <3>1. Sight!Fair(e)
      BY <1>3, FollowsFair DEF Sight!Tables
    <3> QED
      BY <1>5, <3>1 DEF Sight!Fair
  <2>2. 1 \in Sight!Seats
    BY DEF Sight!Seats, Sight!Assumption
  <2>3. /\ Sight!Turn(1) \in Sight!Decisions /\ Sight!Turn(1).kind # "response"
        /\ Sight!NoDecision \in Sight!Decisions /\ Sight!NoDecision.kind # "response"
    BY <2>2 DEF Sight!Turn, Sight!NoDecision, Sight!Decisions
  <2>4. Sight!Drawn(dealt, 1) \in Sight!Tables /\ Sight!Fair(Sight!Drawn(dealt, 1))
    BY <1>7, DealtIs
  <2> QED
    BY <1>1, <1>5, <2>1, <2>3, <2>4
<1>11. Sight!Fair(engine)'
  BY <1>10 DEF Sight!Fair
<1>12. /\ h \in Holding /\ h.seq = e.kyoku /\ h.table = e /\ h.wins = wins /\ h.next = 0
       /\ h.terminal = over /\ h.future = future
  BY <1>2, <1>3, <1>4, <1>8 DEF Holding
<1>13. Deals(h, engine', decision')
  <2>1. CASE more
    <3>1. Sight!Dealt([h.table EXCEPT !.score = h.seq]) = dealt
      <4>1. /\ [e EXCEPT !.score = e.kyoku].kyoku = e.kyoku
            /\ [e EXCEPT !.score = e.kyoku].score = e.kyoku
        BY <1>2 DEF Sight!Tables
      <4>2. settled.score = e.kyoku
        BY <1>2, <1>3, <1>5
      <4> QED
        BY <1>5, <1>12, <4>1, <4>2, DealtAlike
    <3> QED
      BY <1>1, <1>12, <2>1, <3>1 DEF Deals
  <2>2. CASE ~more
    <3>1. future = <<en, Sight!Plain("over", 0, {})>>
      <4>1. Sight!Plain("over", 0, {}) \in Evs
        BY PlainIs
      <4> QED
        BY <1>6, <2>2, <4>1, TwoEvents
    <3>2. engine' = settled /\ decision' = Sight!NoDecision
      BY <1>1, <2>2
    <3>3. \A a : Sight!Shown(settled, a) = Sight!Shown(e, a)
      BY <1>5 DEF Sight!Shown
    <3>4. settled.kyoku = h.seq /\ settled.score = h.seq
      BY <1>2, <1>3, <1>5, <1>12
    <3> QED
      BY <1>5, <1>12, <3>1, <3>2, <3>3, <3>4 DEF Deals
  <2> QED
    BY <2>1, <2>2
<1> HIDE DEF h, future
<1>14. /\ Sight!Fair(e)
       /\ \A cur : cur = history.current \o report =>
            \A a \in Seats : /\ e.hand[a] = Sight!Got(cur, a) \ Sight!Gone(cur, a)
                             /\ \A t \in Sight!Gone(cur, a) : t < e.next
  <2>1. Sight!Fair(e)
    BY <1>3, FollowsFair DEF Sight!Tables
  <2>2. ASSUME NEW cur, cur = history.current \o report, NEW a \in Seats
        PROVE  /\ e.hand[a] = Sight!Got(cur, a) \ Sight!Gone(cur, a)
               /\ \A t \in Sight!Gone(cur, a) : t < e.next
    BY <1>3, <2>2, FollowsHand DEF Sight!ViewsInv
  <2> QED
    BY <2>1, <2>2
<1>15. h.next <= Len(h.wins) /\ \A i \in 1 .. Len(h.wins) : ~(i <= h.next)
  <2>1. Len(wins) \in Nat
    BY LenProperties DEF Sight!AllWins
  <2> QED
    BY <1>12, <2>1
<1>16. \A a \in Audiences : Sight!Shown(e, a) \subseteq aware[a] \cup Sight!Taught(report, a)
  BY <1>2, <1>3
<1>17. /\ h.seq = history.seq /\ h.table.kyoku = h.seq /\ h.table.score = h.seq - 1
       /\ h.terminal # <<>> /\ Sight!ResolvedNotes(report) \in Seq(Heard)
  BY <1>2, <1>3, <1>4, <1>12, ResolvedNotesAre
<1>18. \A a \in Audiences :
         /\ Sight!Shown(h.table, a) \subseteq aware[a] \cup Sight!Taught(report, a)
         /\ \A i \in 1 .. Len(h.wins) : i <= h.next => h.wins[i].tiles \subseteq aware[a]
         /\ Sight!Shown(engine', a) \subseteq
              aware[a] \cup Sight!Taught(report, a) \cup Sight!Taught(h.future, a)
  BY <1>9, <1>12, <1>15, <1>16
<1>19. /\ Sight!Fair(h.table)
       /\ \A cur : cur = history.current \o report =>
            \A a \in Seats : /\ h.table.hand[a] = Sight!Got(cur, a) \ Sight!Gone(cur, a)
                             /\ \A t \in Sight!Gone(cur, a) : t < h.table.next
  BY <1>12, <1>14
<1>20. h \in Holding /\ report \in Hids /\ ~Sight!Starts(report) /\ ~history.done.settled
       /\ Sight!PublishStep(h, report, Sight!ResolvedNotes(report))
  BY <1>1, <1>2, <1>3, <1>12
<1> QED
  BY <1>10, <1>11, <1>13, <1>15, <1>17, <1>18, <1>19, <1>20, StepKeepsViews

\* The next result, and the settlement
LEMMA NextStepKeepsViews ==
  ASSUME Sight!Assumption, Sight!ViewsInv, Sight!NextStep
  PROVE  Sight!ViewsInv'
<1>1. /\ held.seq # 0 /\ held.next <= Len(held.wins) /\ Sight!PublishStep(held, <<>>, <<>>)
      /\ engine' = engine /\ decision' = decision
  BY DEF Sight!NextStep
<1>2. held \in Sight!Holds /\ engine \in Sight!Tables /\ decision \in Sight!Decisions
      /\ history.current \in Hids
  BY <1>1 DEF Sight!ViewsInv, Sight!TypeOK, Sight!NoHold, Sight!Histories, Hids, Evs
<1>3. /\ held.seq = history.seq /\ held.table.kyoku = held.seq /\ held.table.score = held.seq - 1
      /\ held.terminal # <<>> /\ ~history.done.settled
      /\ Sight!MatchOver \/ Sight!NextDealt
  <2>1. held.next \in Nat /\ Len(held.wins) \in Nat
    BY <1>2, LenProperties DEF Sight!Holds, Sight!AllWins
  <2> QED
    BY <1>1, <2>1 DEF Sight!ViewsInv, Sight!FiledInv
<1>4. held \in Holding
  BY <1>2 DEF Holding, Sight!Holds, Hids, Evs
<1>5. Deals(held, engine, decision)
  BY <1>3 DEF Deals, Sight!MatchOver, Sight!NextDealt, Audiences
<1>6. decision.kind # "response"
  BY <1>3 DEF Sight!MatchOver, Sight!NoDecision, Sight!NextDealt, Sight!Turn
<1>7. /\ <<>> \in Hids /\ ~Sight!Starts(<<>>) /\ <<>> \in Seq(Heard)
      /\ \A a : Sight!Taught(<<>>, a) = {} /\ history.current \o <<>> = history.current
  BY <1>2, NoEvents, ConcatEmptySeq DEF Hids
<1>8. \A a \in Audiences :
        /\ Sight!Shown(held.table, a) \subseteq aware[a] \cup Sight!Taught(<<>>, a)
        /\ \A i \in 1 .. Len(held.wins) : i <= held.next => held.wins[i].tiles \subseteq aware[a]
        /\ Sight!Shown(engine', a) \subseteq
             aware[a] \cup Sight!Taught(<<>>, a) \cup Sight!Taught(held.future, a)
  <2> SUFFICES ASSUME NEW a \in Audiences
               PROVE  /\ Sight!Shown(held.table, a) \subseteq aware[a]
                      /\ \A i \in 1 .. Len(held.wins) : i <= held.next => held.wins[i].tiles \subseteq aware[a]
                      /\ Sight!Shown(engine, a) \subseteq aware[a] \cup Sight!Taught(held.future, a)
    BY <1>1, <1>7
  <2> DEFINE p == Sight!Published(held)
  <2>1. \A i \in 1 .. Len(held.wins) : i <= held.next => i \in DOMAIN p.wins /\ p.wins[i] = held.wins[i]
    BY <1>2, PublishedIs
  <2>2. /\ Sight!ResultTiles(p) \subseteq aware[a]
        /\ Sight!Shown(held.table, a) \subseteq aware[a]
        /\ Sight!Shown(engine, a) \subseteq aware[a] \cup Sight!Taught(held.future, a)
    BY <1>1 DEF Sight!ViewsInv, Sight!KnownInv, Audiences, Sight!Table, Sight!Ahead
  <2> HIDE DEF p
  <2> QED
    BY <2>1, <2>2 DEF Sight!ResultTiles
<1>9. /\ Sight!Fair(held.table)
      /\ \A cur : cur = history.current \o <<>> =>
           \A a \in Seats : /\ held.table.hand[a] = Sight!Got(cur, a) \ Sight!Gone(cur, a)
                            /\ \A t \in Sight!Gone(cur, a) : t < held.table.next
  <2>1. Sight!Table = held.table
    BY <1>1 DEF Sight!Table
  <2> QED
    BY <1>7, <2>1 DEF Sight!ViewsInv, Sight!HandInv, Seats
<1>10. engine' \in Sight!Tables /\ Sight!Fair(engine)' /\ decision' \in Sight!Decisions
       /\ decision'.kind # "response" /\ Deals(held, engine', decision')
  BY <1>1, <1>2, <1>5, <1>6 DEF Sight!ViewsInv, Sight!HandInv, Sight!Fair
<1> QED
  BY <1>1, <1>3, <1>4, <1>7, <1>8, <1>9, <1>10, StepKeepsViews

LEMMA HistoryWith ==
  ASSUME NEW was \in Sight!Histories, NEW cur
  PROVE  [was EXCEPT !.current = cur] =
           [current |-> cur, previous |-> was.previous, seq |-> was.seq, done |-> was.done]
<1> DEFINE P == Seq([ends : Nat, seq : Nat, settled : BOOLEAN])
           D == [seq : Nat, wins : Sight!AllWins, settled : BOOLEAN]
           C == Seq(Sight!Events)
<1>1. was \in [current : C, previous : P, seq : Nat, done : D]
  BY DEF Sight!Histories
<1> HIDE DEF P, D, C
<1> QED
  BY <1>1

\* A new Kyoku in the history: the old one is archived with its results.
LEMMA ArchivedIs ==
  ASSUME NEW was \in Sight!Histories, was.current # <<>>, Sight!Terminal(was.current) # {},
         NEW s \in Hids, Len(s) = 2, s[1].kind = "start", s[2].kind # "start",
         NEW en \in Evs, en.kind # "start"
  PROVE  LET h == Sight!Recorded(was, <<en>> \o s) IN
         /\ h \in Sight!Histories /\ h.current = s
         /\ h.seq = was.seq + 1 /\ h.done = Sight!NoResults
         /\ Len(h.previous) = Len(was.previous) + 1
         /\ \A i \in 1 .. Len(was.previous) : h.previous[i] = was.previous[i]
         /\ h.previous[Len(was.previous) + 1].seq = was.done.seq
         /\ h.previous[Len(was.previous) + 1].settled = was.done.settled
<1> DEFINE cur == was.current \o <<en>>
           n == Cardinality(Sight!Terminal(cur))
           p == [ends |-> n, seq |-> was.done.seq, settled |-> was.done.settled]
           P == [ends : Nat, seq : Nat, settled : BOOLEAN]
           w == <<en>> \o s
           h == Sight!Recorded(was, w)
<1>1. /\ w \in Hids /\ Len(w) = 3 /\ Sight!Starts(w) /\ Sight!StartOf(w) = 2
      /\ SubSeq(w, 1, 1) = <<en>> /\ SubSeq(w, 2, 3) = s
  BY WaitingIs
<1>2. was.current \in Hids /\ <<en>> \in Hids
  BY OneEvent DEF Sight!Histories, Hids, Evs
<1>3. cur \in Hids /\ Sight!Terminal(cur) # {}
  <2>1. /\ cur \in Hids
        /\ \A i \in DOMAIN was.current : i \in DOMAIN cur /\ cur[i] = was.current[i]
    BY <1>2, ListsJoin
  <2> HIDE DEF cur
  <2> QED
    BY <2>1 DEF Sight!Terminal
<1> HIDE DEF cur, w
<1>4. n \in Nat
  <2>1. IsFiniteSet(1 .. Len(cur))
    BY <1>3, FS_Interval, LenProperties DEF Hids
  <2>2. Sight!Terminal(cur) \subseteq 1 .. Len(cur)
    BY <1>3 DEF Sight!Terminal, Hids
  <2> QED
    BY <2>1, <2>2, FS_Subset, FS_CardinalityType
<1>5. n = Sight!Cardinality(Sight!Terminal(cur))
  BY DEF Sight!Cardinality, Cardinality
<1> HIDE DEF n
<1>6. /\ was.previous \in Seq(P) /\ was.seq \in Nat
      /\ was.done.seq \in Nat /\ was.done.settled \in BOOLEAN
      /\ was = [current |-> was.current, previous |-> was.previous, seq |-> was.seq,
                done |-> was.done]
  BY DEF Sight!Histories
<1>7. p \in P /\ p.seq = was.done.seq /\ p.settled = was.done.settled
  BY <1>4, <1>6
<1>8. h = [current |-> s, previous |-> Append(was.previous, p), seq |-> was.seq + 1,
           done |-> Sight!NoResults]
  <2>1. Sight!Continued(was, <<en>>) = [was EXCEPT !.current = cur]
    BY DEF Sight!Continued, cur
  <2>2. [was EXCEPT !.current = cur] = [current |-> cur, previous |-> was.previous,
                                        seq |-> was.seq, done |-> was.done]
    BY HistoryWith
  <2>3. Sight!FinishCurrent([current |-> cur, previous |-> was.previous, seq |-> was.seq,
                             done |-> was.done])
          = [current |-> cur, previous |-> Append(was.previous, p), seq |-> was.seq,
             done |-> was.done]
    BY <1>3, <1>5 DEF Sight!FinishCurrent
  <2>4. Sight!StartOf(w) - 1 = 1
    BY <1>1
  <2>5. h = [[current |-> cur, previous |-> Append(was.previous, p), seq |-> was.seq,
              done |-> was.done] EXCEPT !.current = s, !.seq = @ + 1, !.done = Sight!NoResults]
    <3>1. h = [Sight!FinishCurrent(Sight!Continued(was, SubSeq(w, 1, Sight!StartOf(w) - 1)))
                 EXCEPT !.current = SubSeq(w, Sight!StartOf(w), Len(w)), !.seq = @ + 1,
                        !.done = Sight!NoResults]
      BY <1>1 DEF Sight!Recorded
    <3>2. Sight!Continued(was, SubSeq(w, 1, Sight!StartOf(w) - 1)) =
            [current |-> cur, previous |-> was.previous, seq |-> was.seq, done |-> was.done]
      BY <1>1, <2>1, <2>2, <2>4
    <3> QED
      BY <1>1, <2>3, <3>1, <3>2
  <2> QED
    BY <2>5
<1> HIDE DEF p, h
<1>9. h.current = s /\ h.previous = Append(was.previous, p) /\ h.seq = was.seq + 1
      /\ h.done = Sight!NoResults
  BY <1>8
<1>10. /\ Append(was.previous, p) \in Seq(P) /\ Len(h.previous) = Len(was.previous) + 1
       /\ \A i \in 1 .. Len(was.previous) : h.previous[i] = was.previous[i]
       /\ h.previous[Len(was.previous) + 1] = p
  BY <1>6, <1>7, <1>9, AppendProperties
<1>11. h \in Sight!Histories
  BY <1>6, <1>8, <1>10, NothingPublished DEF Sight!Histories, Hids, Evs
<1> QED
  BY <1>7, <1>9, <1>10, <1>11 DEF h, w

\* What must be said of history, log and knowledge when the results are gone
Fits(h, l, k) ==
  /\ h \in Sight!Histories /\ h.current # <<>> /\ l \in Hids
  /\ \A a \in Audiences :
       /\ Sight!Taught(l, a) \cup Sight!Taught(h.current, a) \subseteq k[a]
       /\ Sight!ResultTiles(h.done) \subseteq k[a] /\ Sight!Shown(engine, a) \subseteq k[a]
  /\ \A a \in Seats :
       /\ engine.hand[a] = Sight!Got(h.current, a) \ Sight!Gone(h.current, a)
       /\ \A t \in Sight!Gone(h.current, a) : t < engine.next
  /\ Len(h.previous) = h.seq - 1
  /\ \A i \in 1 .. Len(h.previous) : h.previous[i].seq = i /\ h.previous[i].settled
  /\ h.seq = engine.kyoku /\ engine.score = h.seq - (IF h.done.settled THEN 0 ELSE 1)
  /\ h.done.settled => decision = Sight!NoDecision
  /\ decision.kind # "response"

\* The history with the results to be archived
LEMMA ReleasedIs ==
  ASSUME Sight!ViewsInv, held.seq # 0, held.next > Len(held.wins)
  PROVE  LET p == Sight!Published(held)
             was == [history EXCEPT !.done = p]
         IN  /\ held \in Sight!Holds /\ p.seq = held.seq /\ p.settled
             /\ was \in Sight!Histories /\ was.done = p
             /\ was.current = history.current /\ was.current # <<>> /\ was.current \in Hids
             /\ was.previous = history.previous /\ was.seq = history.seq
             /\ Sight!Terminal(was.current) # {}
             /\ history.seq = held.seq /\ held.table.kyoku = held.seq
             /\ Len(history.previous) = history.seq - 1 /\ history.seq \in Nat
             /\ Sight!MatchOver \/ Sight!NextDealt
             /\ Sight!Table = held.table
<1> DEFINE p == Sight!Published(held)
           was == [history EXCEPT !.done = p]
<1>1. held \in Sight!Holds /\ history \in Sight!Histories /\ history.current # <<>>
  BY DEF Sight!ViewsInv, Sight!TypeOK, Sight!NoHold
<1>2. /\ p.seq = held.seq /\ p.settled /\ p.settled \in BOOLEAN /\ p.wins \in Sight!AllWins
      /\ p = [seq |-> p.seq, wins |-> p.wins, settled |-> p.settled]
  BY <1>1, PublishedIs
<1>3. p.seq \in Nat
  BY <1>1, <1>2 DEF Sight!Holds
<1> HIDE DEF p
<1>4. p \in [seq : Nat, wins : Sight!AllWins, settled : BOOLEAN]
  <2> DEFINE x == p.seq
             y == p.wins
             z == p.settled
  <2>1. x \in Nat /\ y \in Sight!AllWins /\ z \in BOOLEAN /\ p = [seq |-> x, wins |-> y, settled |-> z]
    BY <1>2, <1>3
  <2> HIDE DEF x, y, z
  <2> QED
    BY <2>1
<1>5. /\ was \in Sight!Histories /\ was.done = p /\ was.current = history.current
      /\ was.previous = history.previous /\ was.seq = history.seq
  <2> DEFINE P == Seq([ends : Nat, seq : Nat, settled : BOOLEAN])
             D == [seq : Nat, wins : Sight!AllWins, settled : BOOLEAN]
             C == Seq(Sight!Events)
  <2>1. history \in [current : C, previous : P, seq : Nat, done : D] /\ p \in D
    BY <1>1, <1>4 DEF Sight!Histories
  <2> HIDE DEF P, D, C
  <2>2. /\ was \in [current : C, previous : P, seq : Nat, done : D]
        /\ was.done = p /\ was.current = history.current
        /\ was.previous = history.previous /\ was.seq = history.seq
    BY <2>1
  <2> QED
    BY <2>2 DEF P, D, C, Sight!Histories
<1> HIDE DEF was
<1>6. history.current \in Hids /\ history.seq \in Nat
  BY <1>1 DEF Sight!Histories, Hids, Evs
<1>7. /\ Sight!Terminal(history.current) # {}
      /\ history.seq = held.seq /\ held.table.kyoku = held.seq
      /\ Len(history.previous) = history.seq - 1
      /\ Sight!MatchOver \/ Sight!NextDealt
  BY DEF Sight!ViewsInv, Sight!FiledInv
<1> QED
  BY <1>1, <1>2, <1>5, <1>6, <1>7 DEF p, was, Sight!Table

LEMMA OverFits ==
  ASSUME Sight!ViewsInv, held.seq # 0, held.next > Len(held.wins), Sight!MatchOver, NEW k,
         \A a \in Audiences : aware[a] \subseteq k[a] /\ Sight!Taught(held.future, a) \subseteq k[a]
  PROVE  Fits(Sight!Recorded([history EXCEPT !.done = Sight!Published(held)], held.future),
              Sight!Logged(held.future), k)
<1> DEFINE p == Sight!Published(held)
           was == [history EXCEPT !.done = p]
           h == Sight!Recorded(was, held.future)
<1>1. /\ held \in Sight!Holds /\ p.seq = held.seq /\ p.settled
      /\ was \in Sight!Histories /\ was.done = p
      /\ was.current = history.current /\ was.current # <<>> /\ was.current \in Hids
      /\ was.previous = history.previous /\ was.seq = history.seq
      /\ history.seq = held.seq
      /\ Len(history.previous) = history.seq - 1 /\ history.seq \in Nat
      /\ Sight!Table = held.table
  BY ReleasedIs
<1> HIDE DEF p, was
<1>2. /\ decision = Sight!NoDecision
      /\ engine.hand = held.table.hand /\ engine.next = held.table.next
      /\ engine.kyoku = held.seq /\ engine.score = held.seq
      /\ \A a \in Audiences : Sight!Shown(engine, a) = Sight!Shown(held.table, a)
      /\ held.future = <<Sight!Plain("end", 0, {}), Sight!Plain("over", 0, {})>>
  BY DEF Sight!MatchOver, Audiences
<1>3. /\ held.future \in Hids /\ ~Sight!Starts(held.future)
      /\ \A a : Sight!Got(held.future, a) = {} /\ Sight!Gone(held.future, a) = {}
  BY <1>2, EndEventsAre
<1>4. /\ h \in Sight!Histories /\ h.current # <<>> /\ h.current = was.current \o held.future
      /\ h.previous = was.previous /\ h.seq = was.seq /\ h.done = was.done
  BY <1>1, <1>3, ContinuedIs
<1>5. log \in Hids /\ Sight!Logged(held.future) = log \o held.future
  BY <1>3 DEF Sight!Logged, Sight!ViewsInv, Sight!TypeOK, Hids, Evs
<1> HIDE DEF h
<1>6. log \o held.future \in Hids
  BY <1>3, <1>5, ListsJoin
<1>7. ASSUME NEW a \in Audiences
      PROVE  /\ Sight!Taught(log \o held.future, a) \subseteq k[a]
             /\ Sight!Taught(h.current, a) \subseteq k[a]
             /\ Sight!ResultTiles(h.done) \subseteq k[a] /\ Sight!Shown(engine, a) \subseteq k[a]
  <2>1. /\ Sight!Taught(log, a) \cup Sight!Taught(history.current, a) \subseteq aware[a]
        /\ Sight!ResultTiles(p) \subseteq aware[a] /\ Sight!Shown(held.table, a) \subseteq aware[a]
    BY <1>1 DEF Sight!ViewsInv, Sight!KnownInv, Audiences, p
  <2>2. /\ Sight!Taught(log \o held.future, a) = Sight!Taught(log, a) \cup Sight!Taught(held.future, a)
        /\ Sight!Taught(history.current \o held.future, a) =
             Sight!Taught(history.current, a) \cup Sight!Taught(held.future, a)
    BY <1>1, <1>3, <1>5, TaughtJoin
  <2>3. h.current = history.current \o held.future /\ h.done = p
    BY <1>1, <1>4
  <2> QED
    BY <1>2, <2>1, <2>2, <2>3
<1>8. ASSUME NEW a \in Seats
      PROVE  /\ engine.hand[a] = Sight!Got(h.current, a) \ Sight!Gone(h.current, a)
             /\ \A t \in Sight!Gone(h.current, a) : t < engine.next
  <2>1. /\ held.table.hand[a] = Sight!Got(history.current, a) \ Sight!Gone(history.current, a)
        /\ \A t \in Sight!Gone(history.current, a) : t < held.table.next
    BY <1>1 DEF Sight!ViewsInv, Sight!HandInv, Seats
  <2>2. /\ Sight!Got(history.current \o held.future, a) = Sight!Got(history.current, a)
        /\ Sight!Gone(history.current \o held.future, a) = Sight!Gone(history.current, a)
    <3>1. /\ Sight!Got(history.current \o held.future, a)
               = Sight!Got(history.current, a) \cup Sight!Got(held.future, a)
          /\ Sight!Gone(history.current \o held.future, a)
               = Sight!Gone(history.current, a) \cup Sight!Gone(held.future, a)
      BY <1>1, <1>3, GotJoin, GoneJoin
    <3> QED
      BY <1>3, <3>1
  <2>3. h.current = history.current \o held.future
    BY <1>1, <1>4
  <2> QED
    BY <1>2, <2>1, <2>2, <2>3
<1>9. /\ Len(h.previous) = h.seq - 1
      /\ \A i \in 1 .. Len(h.previous) : h.previous[i].seq = i /\ h.previous[i].settled
      /\ h.seq = engine.kyoku /\ engine.score = h.seq - (IF h.done.settled THEN 0 ELSE 1)
  <2>1. h.previous = history.previous /\ h.seq = history.seq /\ h.done.settled
    BY <1>1, <1>4
  <2> QED
    BY <1>1, <1>2, <2>1 DEF Sight!ViewsInv, Sight!FiledInv
<1>10. decision.kind # "response"
  BY <1>2 DEF Sight!NoDecision
<1>11. Fits(h, log \o held.future, k)
  BY <1>2, <1>4, <1>6, <1>7, <1>8, <1>9, <1>10 DEF Fits
<1> QED
  BY <1>5, <1>11 DEF h, was, p

LEMMA DealtFits ==
  ASSUME Sight!Assumption, Sight!ViewsInv, held.seq # 0, held.next > Len(held.wins),
         Sight!NextDealt, NEW k,
         \A a \in Audiences : aware[a] \subseteq k[a] /\ Sight!Taught(held.future, a) \subseteq k[a]
  PROVE  Fits(Sight!Recorded([history EXCEPT !.done = Sight!Published(held)], held.future),
              Sight!Logged(held.future), k)
<1> DEFINE p == Sight!Published(held)
           was == [history EXCEPT !.done = p]
           h == Sight!Recorded(was, held.future)
           b == [held.table EXCEPT !.score = held.seq]
           s == Sight!StartEvents(Sight!Dealt(b))
           en == Sight!Plain("end", 0, {})
<1>1. /\ held \in Sight!Holds /\ p.seq = held.seq /\ p.settled
      /\ was \in Sight!Histories /\ was.done = p
      /\ was.current = history.current /\ was.current # <<>> /\ was.current \in Hids
      /\ was.previous = history.previous /\ was.seq = history.seq
      /\ Sight!Terminal(was.current) # {}
      /\ history.seq = held.seq /\ held.table.kyoku = held.seq
      /\ Len(history.previous) = history.seq - 1 /\ history.seq \in Nat
  BY ReleasedIs
<1> HIDE DEF p, was
<1>2. b.kyoku = held.seq /\ b.score = held.seq /\ held.seq \in Nat
  BY <1>1 DEF Sight!Holds, Sight!Tables
<1>3. /\ engine = Sight!Drawn(Sight!Dealt(b), 1) /\ decision = Sight!Turn(1)
      /\ held.future = <<en>> \o s
  BY DEF Sight!NextDealt
<1> HIDE DEF b
<1>4. /\ s \in Hids /\ Len(s) = 2 /\ s[1].kind = "start" /\ s[2].kind = "tsumo"
      /\ \A a \in Audiences : Sight!Shown(engine, a) = Sight!Taught(s, a)
      /\ \A a \in Seats : Sight!Got(s, a) = engine.hand[a] /\ Sight!Gone(s, a) = {}
      /\ engine.kyoku = held.seq + 1 /\ engine.score = held.seq
  <2> DEFINE e == Sight!Drawn(Sight!Dealt(b), 1)
  <2>1. b.kyoku \in Nat /\ b.score \in Nat
    BY <1>2
  <2>2. /\ s \in Hids /\ Len(s) = 2 /\ s[1].kind = "start" /\ s[2].kind = "tsumo"
        /\ \A a \in Audiences : Sight!Shown(e, a) = Sight!Taught(s, a)
        /\ \A a \in Seats : Sight!Got(s, a) = e.hand[a] /\ Sight!Gone(s, a) = {}
    BY <2>1, StartEventsAre
  <2>3. e.kyoku = b.kyoku + 1 /\ e.score = b.score
    BY <2>1, DealtIs
  <2>4. e = engine
    BY <1>3
  <2> HIDE DEF s, e
  <2> QED
    BY <1>2, <2>2, <2>3, <2>4
<1>5. en \in Evs /\ en.kind = "end" /\ <<en>> \in Hids
  BY EndEventsAre
<1> HIDE DEF s, en
<1>6. /\ h \in Sight!Histories /\ h.current = s
      /\ h.seq = was.seq + 1 /\ h.done = Sight!NoResults
      /\ Len(h.previous) = Len(was.previous) + 1
      /\ \A i \in 1 .. Len(was.previous) : h.previous[i] = was.previous[i]
      /\ h.previous[Len(was.previous) + 1].seq = was.done.seq
      /\ h.previous[Len(was.previous) + 1].settled = was.done.settled
  <2>1. s[2].kind # "start" /\ en.kind # "start"
    BY <1>4, <1>5
  <2>2. LET r == Sight!Recorded(was, <<en>> \o s) IN
        /\ r \in Sight!Histories /\ r.current = s
        /\ r.seq = was.seq + 1 /\ r.done = Sight!NoResults
        /\ Len(r.previous) = Len(was.previous) + 1
        /\ \A i \in 1 .. Len(was.previous) : r.previous[i] = was.previous[i]
        /\ r.previous[Len(was.previous) + 1].seq = was.done.seq
        /\ r.previous[Len(was.previous) + 1].settled = was.done.settled
    BY <1>1, <1>4, <1>5, <2>1, ArchivedIs
  <2>3. h = Sight!Recorded(was, <<en>> \o s)
    BY <1>3
  <2> HIDE DEF h
  <2> QED
    BY <2>2, <2>3
<1>7. /\ Sight!Starts(held.future) /\ Sight!StartOf(held.future) = 2 /\ Len(held.future) = 3
      /\ SubSeq(held.future, 2, 3) = s
  <2>1. s[2].kind # "start" /\ en.kind # "start"
    BY <1>4, <1>5
  <2> QED
    BY <1>3, <1>4, <1>5, <2>1, WaitingIs
<1>8. Sight!Logged(held.future) = s
  BY <1>7 DEF Sight!Logged
<1> HIDE DEF h
<1>9. s # <<>>
  BY <1>4, EmptySeq DEF Hids
<1>10. ASSUME NEW a \in Audiences PROVE Sight!Taught(s, a) \subseteq k[a]
  <2>1. Sight!Taught(held.future, a) = Sight!Taught(<<en>>, a) \cup Sight!Taught(s, a)
    BY <1>3, <1>4, <1>5, TaughtJoin
  <2> QED
    BY <2>1
<1>11. /\ Len(h.previous) = h.seq - 1
       /\ \A i \in 1 .. Len(h.previous) : h.previous[i].seq = i /\ h.previous[i].settled
       /\ h.seq = engine.kyoku /\ engine.score = h.seq - (IF h.done.settled THEN 0 ELSE 1)
       /\ ~h.done.settled
  <2>1. \A i \in 1 .. Len(history.previous) :
          history.previous[i].seq = i /\ history.previous[i].settled
    BY DEF Sight!ViewsInv, Sight!FiledInv
  <2>2. Len(h.previous) = h.seq - 1 /\ h.seq = engine.kyoku /\ engine.score = h.seq - 1
    BY <1>1, <1>2, <1>4, <1>6
  <2>3. ASSUME NEW i \in 1 .. Len(h.previous) PROVE h.previous[i].seq = i /\ h.previous[i].settled
    <3>1. i \in 1 .. Len(history.previous) \/ i = Len(history.previous) + 1
      BY <1>1, <1>6, <2>3
    <3>2. CASE i \in 1 .. Len(history.previous)
      BY <1>1, <1>6, <2>1, <3>2
    <3>3. CASE i = Len(history.previous) + 1
      BY <1>1, <1>6, <3>3
    <3> QED
      BY <3>1, <3>2, <3>3
  <2>4. ~h.done.settled
    BY <1>6, NothingPublished
  <2> QED
    BY <2>2, <2>3, <2>4
<1>12. decision.kind # "response"
  BY <1>3 DEF Sight!Turn
<1>13. \A a : Sight!ResultTiles(h.done) \subseteq k[a]
  BY <1>6, NothingPublished
<1>14. Fits(h, s, k)
  BY <1>4, <1>6, <1>9, <1>10, <1>11, <1>12, <1>13 DEF Fits
<1> QED
  BY <1>8, <1>14 DEF h, was, p

\* The archive, and what waited for it
LEMMA ReleaseKeepsViews ==
  ASSUME Sight!Assumption, Sight!ViewsInv, Sight!Release
  PROVE  Sight!ViewsInv'
<1>1. /\ held.seq # 0 /\ held.next > Len(held.wins) /\ held' = Sight!NoHold
      /\ log' = Sight!Logged(held.future)
      /\ history' = Sight!Recorded([history EXCEPT !.done = Sight!Published(held)], held.future)
      /\ Sight!Learn(held.future, <<>>) /\ Sight!Publish(Sight!StepNotes)
      /\ engine' = engine /\ decision' = decision
  BY DEF Sight!Release
<1>2. /\ held \in Sight!Holds /\ held.future \in Hids
      /\ aware \in [Audiences -> SUBSET Nat]
  BY <1>1 DEF Sight!ViewsInv, Sight!TypeOK, Sight!NoHold, Sight!Holds, Hids, Evs, Audiences,
     Sight!Tiles
<1>3. /\ aware' \in [Audiences -> SUBSET Nat]
      /\ \A a \in Audiences :
           aware[a] \subseteq aware'[a] /\ Sight!Taught(held.future, a) \subseteq aware'[a]
  <2>1. <<>> \in Sight!AllWins
    BY DEF Sight!AllWins
  <2> QED
    BY <1>1, <1>2, <2>1, LearnIs
<1>4. Fits(history', log', aware')
  BY <1>1, <1>3, OverFits, DealtFits DEF Sight!ViewsInv, Sight!FiledInv
<1>5. /\ client' = [on |-> client'.on, who |-> client'.who, queue |-> client'.queue,
                    state |-> client'.state, events |-> client'.events]
      /\ client'.on \in BOOLEAN /\ client'.queue \in Seq(Heard)
      /\ client'.who \in Audiences
      /\ Sight!EventsTiles(client'.events) \subseteq aware'[client'.who]
      /\ Sight!ClientIsCurrent'
  BY <1>1, <1>3, ClientKeeps, StepNotesAre
<1>6. held'.seq = 0 /\ Sight!Table' = engine
  BY <1>1 DEF Sight!Table, Sight!NoHold
<1>7. Sight!TypeOK'
  BY <1>1, <1>3, <1>4, <1>5
  DEF Fits, Sight!ViewsInv, Sight!TypeOK, Hids, Evs, Heard, Audiences, Sight!Tiles
<1>8. Sight!KnownInv'
  <2>1. Sight!Published(held)' = Sight!NoResults /\ Sight!ResultTiles(Sight!NoResults) = {}
    BY <1>1, NothingPublished
  <2> QED
    BY <1>1, <1>4, <1>5, <1>6, <2>1 DEF Fits, Sight!KnownInv, Audiences
<1>9. Sight!HandInv'
  <2>1. Sight!Fair(engine)
    BY DEF Sight!ViewsInv, Sight!HandInv
  <2>2. \A t : t = Sight!Table' => (Sight!Fair(Sight!Table)' <=> Sight!Fair(t))
    BY DEF Sight!Fair
  <2>3. \A t : t = engine' => (Sight!Fair(engine)' <=> Sight!Fair(t))
    BY DEF Sight!Fair
  <2> QED
    BY <1>1, <1>4, <1>6, <2>1, <2>2, <2>3 DEF Fits, Sight!HandInv, Seats
<1>10. Sight!FiledInv'
  BY <1>1, <1>4, <1>6 DEF Fits, Sight!FiledInv
<1> QED
  BY <1>5, <1>7, <1>8, <1>9, <1>10 DEF Sight!ViewsInv

\* The last events of a list are events of it.
LEMMA SuffixIs ==
  ASSUME NEW s \in Hids, NEW t \in Hids, Sight!IsSuffix(s, t), NEW i \in DOMAIN s
  PROVE  \E j \in DOMAIN t : s[i] = t[j]
<1> DEFINE n == Len(s)
           m == Len(t)
           u == Sight!Reverse(s)
           v == Sight!Reverse(t)
           x == SubSeq(u, 1, Len(u))
           y == SubSeq(v, 1, Len(u))
<1>1. /\ s \in Seq(Evs) /\ t \in Seq(Evs) /\ n \in Nat /\ m \in Nat
      /\ DOMAIN s = 1 .. n /\ DOMAIN t = 1 .. m
      /\ \A k \in 1 .. n : s[k] \in Evs /\ \A l \in 1 .. m : t[l] \in Evs
  BY ElementOf DEF Hids
<1>2. Len(u) <= Len(v) /\ x = y
  BY DEF Sight!IsSuffix, Sight!IsPrefix
<1>3. /\ u \in Seq(Evs) /\ Len(u) = n /\ \A k \in 1 .. n : u[k] = s[n - k + 1]
      /\ v \in Seq(Evs) /\ Len(v) = m /\ \A k \in 1 .. m : v[k] = t[m - k + 1]
  <2>1. u = [k \in 1 .. n |-> s[n - k + 1]] /\ v = [k \in 1 .. m |-> t[m - k + 1]]
    BY DEF Sight!Reverse
  <2> HIDE DEF u, v
  <2>2. u \in [1 .. n -> Evs] /\ v \in [1 .. m -> Evs]
    BY <1>1, <2>1
  <2> QED
    BY <1>1, <2>1, <2>2
<1> HIDE DEF u, v, n, m, x, y
<1>4. n <= m
  BY <1>2, <1>3
<1>5. \A k \in 1 .. n : u[k] = v[k]
  <2>1. /\ \A k \in 1 .. n : u[k] \in Evs
        /\ \A k \in 1 .. n : v[k] \in Evs
    <3>1. \A k \in 1 .. m : v[k] \in Evs
      BY <1>3, ElementOf
    <3> QED
      BY <1>1, <1>3, <1>4, <3>1, ElementOf
  <2>2. \A k \in 1 .. n : x[k] = u[1 + k - 1]
    BY <1>1, <1>3, <2>1, SubSeqProperties DEF x
  <2>3. \A k \in 1 .. n : y[k] = v[1 + k - 1]
    BY <1>1, <1>3, <2>1, SubSeqProperties DEF y
  <2> QED
    BY <1>1, <1>2, <2>2, <2>3
<1>6. i \in 1 .. n
  BY <1>1
<1> DEFINE k == n - i + 1
           j == m - k + 1
<1>7. k \in 1 .. n /\ k \in 1 .. m /\ j \in 1 .. m /\ n - k + 1 = i
  BY <1>1, <1>4, <1>6
<1> HIDE DEF k
<1>8. s[i] = u[k] /\ u[k] = v[k] /\ v[k] = t[j]
  BY <1>3, <1>5, <1>7
<1> QED
  BY <1>1, <1>7, <1>8

\* What history and socket show of an event
LEMMA HistoryEventIs ==
  ASSUME NEW ev \in Evs, NEW a \in Audiences
  PROVE  LET x == Sight!HistoryEvent(ev, a) IN
         /\ x.kind = ev.kind /\ x.actor = ev.actor
         /\ x.tiles = IF ev.kind \in {"tsumo", "ankan"} /\ ev.actor # a THEN {} ELSE ev.tiles
         /\ ev.kind = "start" /\ a # 0 => x.hands[a] = ev.hands[a]
         /\ Sight!EventTiles(x) \subseteq Sight!Teaches(ev, a)
<1> DEFINE x == Sight!HistoryEvent(ev, a)
           T == IF ev.kind \in {"tsumo", "ankan"} /\ ev.actor # a THEN {} ELSE ev.tiles
           H == IF ev.kind = "start" /\ a # 0 THEN [s \in {a} |-> ev.hands[a]] ELSE <<>>
<1>1. x = [ev EXCEPT !.tiles = T, !.hands = H]
  BY DEF Sight!HistoryEvent, Sight!Public
<1>2. ev = [kind |-> ev.kind, actor |-> ev.actor, tiles |-> ev.tiles, hands |-> ev.hands]
  BY DEF Evs, Sight!Events
<1>3. x = [kind |-> ev.kind, actor |-> ev.actor, tiles |-> T, hands |-> H]
  <2> HIDE DEF T, H, x
  <2> QED
    BY <1>1 DEF Evs, Sight!Events
<1> HIDE DEF x
<1>4. x.kind = ev.kind /\ x.actor = ev.actor /\ x.tiles = T /\ x.hands = H
  BY <1>3
<1>5. ev.kind = "start" /\ a # 0 => DOMAIN H = {a} /\ H[a] = ev.hands[a]
  OBVIOUS
<1>6. ~(ev.kind = "start" /\ a # 0) => DOMAIN H = {}
  OBVIOUS
<1> HIDE DEF H
<1>7. Sight!EventTiles(x) = T \cup UNION {H[s] : s \in DOMAIN H}
  BY <1>4 DEF Sight!EventTiles
<1>8. Sight!EventTiles(x) \subseteq Sight!Teaches(ev, a)
  <2>1. CASE ev.kind = "start" /\ a # 0
    <3>1. UNION {H[s] : s \in DOMAIN H} = ev.hands[a] /\ T = ev.tiles
      BY <1>5, <2>1
    <3> HIDE DEF T
    <3>2. Sight!EventTiles(x) = ev.tiles \cup ev.hands[a]
      BY <1>7, <3>1
    <3> QED
      BY <2>1, <3>2 DEF Sight!Teaches, Sight!Public
  <2>2. CASE ~(ev.kind = "start" /\ a # 0)
    <3>1. UNION {H[s] : s \in DOMAIN H} = {}
      BY <1>6, <2>2
    <3>2. Sight!EventTiles(x) = T
      BY <1>7, <3>1
    <3> QED
      BY <2>2, <3>2 DEF Sight!Teaches, Sight!Public
  <2> QED
    BY <2>1, <2>2
<1>9. ev.kind = "start" /\ a # 0 => x.hands[a] = ev.hands[a]
  BY <1>4, <1>5
<1> QED
  BY <1>4, <1>8, <1>9 DEF x

\* Nothing changes but the answers and the socket.
LEMMA TableStays ==
  ASSUME Sight!ViewsInv, UNCHANGED <<engine, log, held, history, aware>>,
         decision' \in Sight!Decisions, decision'.kind = decision.kind,
         decision' = decision \/ Sight!Playing,
         client' = [on |-> client'.on, who |-> client'.who, queue |-> client'.queue,
                    state |-> client'.state, events |-> client'.events],
         client'.on \in BOOLEAN, client'.queue \in Seq(Heard), client'.who \in Audiences,
         Sight!EventsTiles(client'.events) \subseteq aware[client'.who],
         Sight!ClientIsCurrent'
  PROVE  Sight!ViewsInv'
<1>1. Sight!Table' = Sight!Table
  BY DEF Sight!Table
<1>2. Sight!TypeOK'
  BY DEF Sight!ViewsInv, Sight!TypeOK, Heard, Audiences, Evs
<1>3. Sight!KnownInv'
  <2>1. Sight!Published(held)' = Sight!Published(held) /\ \A a : Sight!Ahead(a)' = Sight!Ahead(a)
    BY DEF Sight!Published, Sight!Ahead, Sight!Taught, Sight!Teaches, Sight!Public
  <2> QED
    BY <1>1, <2>1 DEF Sight!ViewsInv, Sight!KnownInv
<1>4. Sight!HandInv'
  <2>1. \A t : t = Sight!Table' => (Sight!Fair(Sight!Table)' <=> Sight!Fair(t))
    BY DEF Sight!Fair
  <2>2. \A t : t = engine' => (Sight!Fair(engine)' <=> Sight!Fair(t))
    BY DEF Sight!Fair
  <2> QED
    BY <1>1, <2>1, <2>2 DEF Sight!ViewsInv, Sight!HandInv
<1>5. Sight!FiledInv'
  <2>1. CASE decision' = decision
    <3>1. (Sight!MatchOver' <=> Sight!MatchOver) /\ (Sight!NextDealt' <=> Sight!NextDealt)
      BY <2>1 DEF Sight!MatchOver, Sight!NextDealt
    <3> QED
      BY <2>1, <3>1 DEF Sight!ViewsInv, Sight!FiledInv
  <2>2. CASE Sight!Playing
    <3>1. held.seq = 0 /\ ~history.done.settled
      BY <2>2, PlayingIs
    <3> QED
      BY <3>1 DEF Sight!ViewsInv, Sight!FiledInv
  <2> QED
    BY <2>1, <2>2
<1> QED
  BY <1>2, <1>3, <1>4, <1>5 DEF Sight!ViewsInv

\* One answer of several
LEMMA SubmitKeepsViews ==
  ASSUME Sight!Assumption, Sight!ViewsInv, Sight!Submit
  PROVE  Sight!ViewsInv'
<1>1. PICK s \in decision.who : decision' = [decision EXCEPT !.done = @ \cup {s}]
  BY DEF Sight!Submit
<1>2. decision \in Sight!Decisions
  BY DEF Sight!ViewsInv, Sight!TypeOK
<1>3. decision' \in Sight!Decisions /\ decision'.kind = decision.kind
  BY <1>1, <1>2 DEF Sight!Decisions
<1>4. UNCHANGED <<engine, log, held, history, aware>>
      /\ Sight!Playing /\ Sight!Publish(Sight!ResolvedNotes(<<>>))
  BY DEF Sight!Submit
<1>5. /\ client' = [on |-> client'.on, who |-> client'.who, queue |-> client'.queue,
                    state |-> client'.state, events |-> client'.events]
      /\ client'.on \in BOOLEAN /\ client'.queue \in Seq(Heard)
      /\ client'.who \in Audiences
      /\ Sight!EventsTiles(client'.events) \subseteq aware'[client'.who]
      /\ Sight!ClientIsCurrent'
  BY <1>4, ClientKeeps, ResolvedNotesAre, NoEvents
<1> QED
  BY <1>3, <1>4, <1>5, TableStays

LEMMA ReconnectKeepsViews ==
  ASSUME Sight!ViewsInv, Sight!Reconnect
  PROVE  Sight!ViewsInv'
<1> DEFINE q == <<Sight!Note("snapshot", <<>>)>>
<1>1. /\ UNCHANGED <<engine, decision, log, held, history, aware>>
      /\ client' = [client EXCEPT !.on = TRUE, !.queue = q, !.events = <<>>]
  BY DEF Sight!Reconnect
<1>2. /\ client = [on |-> client.on, who |-> client.who, queue |-> client.queue,
                   state |-> client.state, events |-> client.events]
      /\ client.who \in Audiences /\ decision \in Sight!Decisions
  BY DEF Sight!ViewsInv, Sight!TypeOK, Audiences
<1>3. q \in Seq(Heard) /\ q # <<>>
  BY NoEvents DEF Sight!Note, Heard, Hids
<1> HIDE DEF q
<1>4. client' = [on |-> TRUE, who |-> client.who, queue |-> q, state |-> client.state,
                 events |-> <<>>]
  BY <1>1, <1>2
<1>5. /\ client' = [on |-> client'.on, who |-> client'.who, queue |-> client'.queue,
                    state |-> client'.state, events |-> client'.events]
      /\ client'.on \in BOOLEAN /\ client'.queue \in Seq(Heard) /\ client'.queue # <<>>
      /\ client'.who \in Audiences /\ client'.events = <<>>
  BY <1>2, <1>3, <1>4
<1>6. Sight!EventsTiles(client'.events) \subseteq aware[client'.who] /\ Sight!ClientIsCurrent'
  <2>1. Sight!EventsTiles(<<>>) = {}
    BY DEF Sight!EventsTiles
  <2> QED
    BY <1>5, <2>1 DEF Sight!ClientIsCurrent
<1> QED
  BY <1>1, <1>2, <1>5, <1>6, TableStays

\* The socket reads a notification.
LEMMA DeliverKeepsViews ==
  ASSUME Sight!ViewsInv, Sight!Deliver
  PROVE  Sight!ViewsInv'
<1> DEFINE a == client.who
           n == Head(client.queue)
           fresh == n.kind = "resolved" /\ n.events # <<>> /\ Sight!IsSuffix(n.events, log)
           seen == IF fresh THEN [i \in DOMAIN n.events |-> Sight!HumanEvent(n.events[i], a)]
                   ELSE <<>>
           q == Tail(client.queue)
<1>1. /\ UNCHANGED <<engine, decision, log, held, history, aware>>
      /\ client.queue # <<>>
      /\ client' = [client EXCEPT !.queue = q, !.state = Sight!View(a), !.events = seen]
  BY DEF Sight!Deliver
<1>2. /\ client = [on |-> client.on, who |-> a, queue |-> client.queue,
                   state |-> client.state, events |-> client.events]
      /\ client.on \in BOOLEAN /\ a \in Audiences /\ client.queue \in Seq(Heard)
      /\ decision \in Sight!Decisions /\ log \in Hids
  BY DEF Sight!ViewsInv, Sight!TypeOK, Audiences, Heard, Evs, Hids
<1>3. n \in Heard /\ q \in Seq(Heard)
  BY <1>1, <1>2, HeadTailProperties
<1>4. Sight!EventsTiles(seen) \subseteq aware[a]
  <2>1. CASE ~fresh
    <3>1. seen = <<>>
      BY <2>1
    <3> HIDE DEF seen
    <3> QED
      BY <3>1 DEF Sight!EventsTiles
  <2>2. CASE fresh
    <3>1. n.events \in Hids
      BY <1>3 DEF Heard, Hids
    <3>2. ASSUME NEW i \in DOMAIN n.events
          PROVE  Sight!EventTiles(Sight!HumanEvent(n.events[i], a)) \subseteq aware[a]
      <4>1. PICK j \in DOMAIN log : n.events[i] = log[j]
        BY <1>2, <2>2, <3>1, <3>2, SuffixIs
      <4>2. log[j] \in Evs
        BY <1>2, EventOf
      <4>3. Sight!EventTiles(Sight!HumanEvent(log[j], a)) \subseteq Sight!Teaches(log[j], a)
        BY <1>2, <4>2, HistoryEventIs DEF Sight!HumanEvent
      <4>4. Sight!Teaches(log[j], a) \subseteq Sight!Taught(log, a)
        BY DEF Sight!Taught
      <4>5. Sight!Taught(log, a) \subseteq aware[a]
        BY <1>2 DEF Sight!ViewsInv, Sight!KnownInv, Audiences
      <4> QED
        BY <4>1, <4>3, <4>4, <4>5
    <3>3. DOMAIN seen = DOMAIN n.events
          /\ \A i \in DOMAIN n.events : seen[i] = Sight!HumanEvent(n.events[i], a)
      BY <2>2
    <3> HIDE DEF seen
    <3> QED
      BY <3>2, <3>3 DEF Sight!EventsTiles
  <2> QED
    BY <2>1, <2>2
<1>5. \A b : Sight!View(b)' = Sight!View(b)
  BY <1>1 DEF Sight!View, Sight!VisibleDecision, Sight!Table, Sight!Published
<1> HIDE DEF q, seen, n
<1>6. client' = [on |-> client.on, who |-> a, queue |-> q, state |-> Sight!View(a),
                 events |-> seen]
  BY <1>1, <1>2
<1>7. /\ client' = [on |-> client'.on, who |-> client'.who, queue |-> client'.queue,
                    state |-> client'.state, events |-> client'.events]
      /\ client'.on \in BOOLEAN /\ client'.queue \in Seq(Heard)
      /\ client'.who = a /\ client'.events = seen /\ client'.state = Sight!View(a)
  BY <1>2, <1>3, <1>6
<1>8. Sight!ClientIsCurrent'
  BY <1>5, <1>7 DEF Sight!ClientIsCurrent
<1> QED
  BY <1>1, <1>2, <1>4, <1>7, <1>8, TableStays

\* A table shows no more than another one and what was taught.
LEMMA ShownGrows ==
  ASSUME NEW e, NEW f, NEW a, NEW K,
         a # 0 => f.hand[a] \subseteq e.hand[a] \cup K,
         f.dora \subseteq e.dora \cup K,
         \A s \in Seats : f.pond[s] \subseteq e.pond[s] \cup K,
         \A s \in Seats : \A m \in f.melds[s] :
           m \in e.melds[s] \/ Sight!VisibleMeld(m, s = a).tiles \subseteq K
  PROVE  Sight!Shown(f, a) \subseteq Sight!Shown(e, a) \cup K
<1> DEFINE Seen(g, s) == UNION {Sight!VisibleMeld(m, s = a).tiles : m \in g.melds[s]}
           Hand(g) == IF a = 0 THEN {} ELSE g.hand[a]
<1>1. \A g : Sight!Shown(g, a) = Hand(g) \cup g.dora \cup (UNION {g.pond[s] : s \in Seats})
                                   \cup UNION {Seen(g, s) : s \in Seats}
  BY DEF Sight!Shown, Sight!Public, Seats
<1>2. ASSUME NEW s \in Seats PROVE Seen(f, s) \subseteq Seen(e, s) \cup K
  OBVIOUS
<1>3. Hand(f) \subseteq Hand(e) \cup K
  OBVIOUS
<1> HIDE DEF Seen, Hand
<1>4. UNION {f.pond[s] : s \in Seats} \subseteq (UNION {e.pond[s] : s \in Seats}) \cup K
  OBVIOUS
<1>5. UNION {Seen(f, s) : s \in Seats} \subseteq (UNION {Seen(e, s) : s \in Seats}) \cup K
  BY <1>2
<1> QED
  BY <1>1, <1>3, <1>4, <1>5

LEMMA AppendIs ==
  ASSUME NEW s \in Hids, NEW ev \in Evs
  PROVE  Append(s, ev) = s \o <<ev>> /\ Append(s, ev) \in Hids
BY AppendIsConcat, AppendProperties DEF Hids

\* Nothing has moved yet.
LEMMA NothingFollows ==
  ASSUME engine \in Sight!Tables, Sight!Fair(engine)
  PROVE  Follows(engine, <<>>)
BY NoEvents DEF Follows, Sight!Fair, Sight!Tables

\* A tile is drawn.
LEMMA DrawFollows ==
  ASSUME Sight!Assumption, engine \in Sight!Tables, NEW e, NEW report, Follows(e, report),
         NEW s \in Seats, NEW l \in Nat
  PROVE  Follows([Sight!Drawn(e, s) EXCEPT !.left = l], Append(report, Sight!DrawEvent(e, s)))
<1> DEFINE hands == [e.hand EXCEPT ![s] = @ \cup {e.next}]
           f == [Sight!Drawn(e, s) EXCEPT !.left = l]
           ev == Sight!DrawEvent(e, s)
           all == Append(report, ev)
<1>1. /\ e \in Sight!Tables /\ report \in Hids /\ ~Sight!Starts(report)
      /\ e.kyoku = engine.kyoku /\ e.score = engine.score
      /\ engine.next <= e.next /\ e.last < e.next
      /\ e.next \in Nat /\ engine.next \in Nat /\ e.last \in Nat
      /\ e.hand \in [Seats -> SUBSET Nat]
  BY DEF Follows, Sight!Tables, Sight!Tiles, Seats
<1>2. /\ hands \in [Seats -> SUBSET Nat]
      /\ \A a \in Seats : hands[a] = IF a = s THEN e.hand[a] \cup {e.next} ELSE e.hand[a]
  BY <1>1
<1>3. f = [hand |-> hands, pond |-> e.pond, melds |-> e.melds, dora |-> e.dora,
           next |-> e.next + 1, left |-> l, last |-> e.last, seat |-> e.seat,
           kyoku |-> e.kyoku, score |-> e.score]
  <2> HIDE DEF hands
  <2>1. Sight!Drawn(e, s) = [[e EXCEPT !.hand = hands] EXCEPT !.next = e.next + 1]
    BY <1>1 DEF Sight!Drawn, Sight!Tables, hands
  <2>2. Sight!Drawn(e, s) =
          [hand |-> hands, pond |-> e.pond, melds |-> e.melds, dora |-> e.dora,
           next |-> e.next + 1, left |-> e.left, last |-> e.last, seat |-> e.seat,
           kyoku |-> e.kyoku, score |-> e.score]
    BY <1>1, <2>1 DEF Sight!Tables
  <2> QED
    BY <2>2
<1> HIDE DEF hands, f
<1>4. /\ f.hand = hands /\ f.pond = e.pond /\ f.melds = e.melds /\ f.dora = e.dora
      /\ f.next = e.next + 1 /\ f.last = e.last /\ f.kyoku = e.kyoku /\ f.score = e.score
  BY <1>3
<1>5. f \in Sight!Tables
  BY <1>1, <1>2, <1>3 DEF Sight!Tables, Sight!Tiles, Seats
<1>6. /\ ev \in Evs /\ ev.kind = "tsumo" /\ ev.actor = s /\ ev.tiles = {e.next}
  <2>1. s \in Nat /\ {e.next} \in SUBSET Nat
    BY <1>1 DEF Seats, Sight!Seats
  <2> QED
    BY <2>1, PlainIs DEF Sight!DrawEvent
<1> HIDE DEF ev
<1>7. <<ev>> \in Hids /\ ~Sight!Starts(<<ev>>)
      /\ \A a : /\ Sight!Taught(<<ev>>, a) = IF a = s THEN {e.next} ELSE {}
                /\ Sight!Got(<<ev>>, a) = IF a = s THEN {e.next} ELSE {}
                /\ Sight!Gone(<<ev>>, a) = {}
  <2>1. \A a : Sight!Teaches(ev, a) = IF a = s THEN {e.next} ELSE {}
    BY <1>6 DEF Sight!Teaches
  <2> QED
    BY <1>6, <2>1, OneEvent
<1>8. all = report \o <<ev>> /\ all \in Hids
  BY <1>1, <1>6, AppendIs
<1>9. ~Sight!Starts(all)
  BY <1>1, <1>7, <1>8, StartsJoin
<1>10. ASSUME NEW a
       PROVE  /\ Sight!Taught(all, a) = Sight!Taught(report, a) \cup (IF a = s THEN {e.next} ELSE {})
              /\ Sight!Got(all, a) = Sight!Got(report, a) \cup (IF a = s THEN {e.next} ELSE {})
              /\ Sight!Gone(all, a) = Sight!Gone(report, a)
  <2> HIDE DEF all
  <2>1. /\ Sight!Taught(report \o <<ev>>, a) = Sight!Taught(report, a) \cup Sight!Taught(<<ev>>, a)
        /\ Sight!Got(report \o <<ev>>, a) = Sight!Got(report, a) \cup Sight!Got(<<ev>>, a)
        /\ Sight!Gone(report \o <<ev>>, a) = Sight!Gone(report, a) \cup Sight!Gone(<<ev>>, a)
    BY <1>1, <1>7, TaughtJoin, GotJoin, GoneJoin
  <2> QED
    BY <1>7, <1>8, <2>1
<1> HIDE DEF all
<1>11. ASSUME NEW a \in Audiences
       PROVE  Sight!Shown(f, a) \subseteq Sight!Shown(engine, a) \cup Sight!Taught(all, a)
  <2>1. Sight!Shown(f, a) \subseteq Sight!Shown(e, a) \cup Sight!Taught(all, a)
    <3>1. a # 0 => a \in Seats
      BY DEF Audiences, Sight!Audiences, Seats, Sight!Public
    <3>2. a # 0 => f.hand[a] \subseteq e.hand[a] \cup Sight!Taught(all, a)
      BY <1>2, <1>4, <1>10, <3>1
    <3> QED
      BY <1>4, <3>2, ShownGrows
  <2>2. Sight!Shown(e, a) \subseteq Sight!Shown(engine, a) \cup Sight!Taught(report, a)
    BY DEF Follows
  <2> QED
    BY <1>10, <2>1, <2>2
<1>12. ASSUME NEW a \in Seats
       PROVE  /\ f.hand[a] = (engine.hand[a] \ Sight!Gone(all, a)) \cup Sight!Got(all, a)
              /\ \A t \in Sight!Got(all, a) : engine.next <= t /\ t < f.next
              /\ \A t \in Sight!Gone(all, a) : t < engine.next
  <2>1. /\ e.hand[a] = (engine.hand[a] \ Sight!Gone(report, a)) \cup Sight!Got(report, a)
        /\ \A t \in Sight!Got(report, a) : engine.next <= t /\ t < e.next
        /\ \A t \in Sight!Gone(report, a) : t < engine.next
    BY DEF Follows
  <2>2. f.hand[a] = (engine.hand[a] \ Sight!Gone(all, a)) \cup Sight!Got(all, a)
    BY <1>2, <1>4, <1>10, <2>1
  <2>3. \A t \in Sight!Got(report, a) : t \in Nat
    BY <1>1, <2>1
  <2>4. \A t \in Sight!Got(all, a) : engine.next <= t /\ t < f.next
    BY <1>1, <1>4, <1>10, <2>1, <2>3
  <2> QED
    BY <1>10, <2>1, <2>2, <2>4
<1>13. ASSUME NEW a \in Seats, NEW b \in Seats, a # b
       PROVE  Sight!Got(all, a) \cap Sight!Got(all, b) = {}
  <2>1. /\ \A c \in Seats : \A t \in Sight!Got(report, c) : t < e.next
        /\ Sight!Got(report, a) \cap Sight!Got(report, b) = {}
    BY <1>13 DEF Follows
  <2>2. ~(e.next < e.next)
    BY <1>1
  <2> QED
    BY <1>10, <1>13, <2>1, <2>2
<1>14. engine.next <= f.next /\ f.last < f.next
  BY <1>1, <1>4
<1>15. Follows(f, all)
  BY <1>1, <1>4, <1>5, <1>8, <1>9, <1>11, <1>12, <1>13, <1>14 DEF Follows
<1> QED
  BY <1>15 DEF f, all, ev

\* A Seat gives tiles away.
LEMMA GivenFollows ==
  ASSUME NEW f \in Sight!Tables, NEW s \in Seats, NEW report \in Hids, ~Sight!Starts(report),
         NEW g, f.kyoku = engine.kyoku, f.score = engine.score,
         engine.next <= f.next, f.last < f.next,
         \A a \in Seats : f.hand[a] = engine.hand[a] \ (IF a = s THEN g ELSE {}),
         \A t \in g : t < engine.next,
         \A a \in Seats : /\ Sight!Got(report, a) = {}
                          /\ Sight!Gone(report, a) = IF a = s THEN g ELSE {},
         \A a \in Audiences :
           Sight!Shown(f, a) \subseteq Sight!Shown(engine, a) \cup Sight!Taught(report, a)
  PROVE  Follows(f, report)
BY DEF Follows

\* What a Seat puts out of its hand
LEMMA GivenEvent ==
  ASSUME NEW kind \in {"dahai", "call", "ankan"}, NEW s \in Seats, NEW g \in SUBSET Nat
  PROVE  LET ev == Sight!Plain(kind, s, g) IN
         /\ ev \in Evs /\ <<ev>> \in Hids /\ ~Sight!Starts(<<ev>>)
         /\ \A a : /\ Sight!Got(<<ev>>, a) = {}
                   /\ Sight!Gone(<<ev>>, a) = IF a = s THEN g ELSE {}
                   /\ Sight!Taught(<<ev>>, a) = IF kind = "ankan" /\ a # s THEN {} ELSE g
<1> DEFINE ev == Sight!Plain(kind, s, g)
<1>1. ev \in Evs /\ ev.kind = kind /\ ev.actor = s /\ ev.tiles = g
  <2>1. s \in Nat /\ kind \in {"tsumo", "dahai", "call", "ankan", "dora", "hora", "end", "over"}
    BY DEF Seats, Sight!Seats
  <2> QED
    BY <2>1, PlainIs
<1> HIDE DEF ev
<1>2. \A a : Sight!Teaches(ev, a) = IF kind = "ankan" /\ a # s THEN {} ELSE g
  BY <1>1 DEF Sight!Teaches
<1>3. /\ <<ev>> \in Hids /\ ~Sight!Starts(<<ev>>)
      /\ \A a : /\ Sight!Got(<<ev>>, a) = {}
                /\ Sight!Gone(<<ev>>, a) = IF a = s THEN g ELSE {}
                /\ Sight!Taught(<<ev>>, a) = Sight!Teaches(ev, a)
  BY <1>1, OneEvent
<1> QED
  BY <1>1, <1>2, <1>3 DEF ev

\* A tile is discarded.
LEMMA DiscardFollows ==
  ASSUME engine \in Sight!Tables, Sight!Fair(engine), NEW s \in Seats, NEW t \in engine.hand[s]
  PROVE  LET f == [engine EXCEPT !.hand[s] = @ \ {t}, !.pond[s] = @ \cup {t}, !.last = t,
                                 !.seat = s]
         IN  /\ Follows(f, <<Sight!Plain("dahai", s, {t})>>)
             /\ f.last = t /\ \A a \in Seats : t \notin f.hand[a]
<1> DEFINE hands == [engine.hand EXCEPT ![s] = @ \ {t}]
           ponds == [engine.pond EXCEPT ![s] = @ \cup {t}]
           f == [engine EXCEPT !.hand[s] = @ \ {t}, !.pond[s] = @ \cup {t}, !.last = t,
                               !.seat = s]
           report == <<Sight!Plain("dahai", s, {t})>>
<1>1. /\ engine.hand \in [Seats -> SUBSET Nat] /\ engine.pond \in [Seats -> SUBSET Nat]
      /\ t \in Nat /\ engine.next \in Nat /\ t < engine.next
  BY DEF Sight!Tables, Sight!Tiles, Seats, Sight!Fair
<1>2. /\ hands \in [Seats -> SUBSET Nat] /\ ponds \in [Seats -> SUBSET Nat]
      /\ \A a \in Seats : hands[a] = IF a = s THEN engine.hand[a] \ {t} ELSE engine.hand[a]
      /\ \A a \in Seats : ponds[a] = IF a = s THEN engine.pond[a] \cup {t} ELSE engine.pond[a]
  BY <1>1
<1>3. f = [hand |-> hands, pond |-> ponds, melds |-> engine.melds, dora |-> engine.dora,
           next |-> engine.next, left |-> engine.left, last |-> t, seat |-> s,
           kyoku |-> engine.kyoku, score |-> engine.score]
  <2>1. f = [[[[engine EXCEPT !.hand = hands] EXCEPT !.pond = ponds] EXCEPT !.last = t]
              EXCEPT !.seat = s]
    BY DEF Sight!Tables
  <2> HIDE DEF hands, ponds, f
  <2> QED
    BY <2>1 DEF Sight!Tables
<1> HIDE DEF hands, ponds, f
<1>4. /\ f.hand = hands /\ f.pond = ponds /\ f.melds = engine.melds /\ f.dora = engine.dora
      /\ f.next = engine.next /\ f.last = t /\ f.kyoku = engine.kyoku /\ f.score = engine.score
  BY <1>3
<1>5. f \in Sight!Tables
  BY <1>1, <1>2, <1>3 DEF Sight!Tables, Sight!Tiles, Seats
<1>6. /\ report \in Hids /\ ~Sight!Starts(report)
      /\ \A a : /\ Sight!Got(report, a) = {}
                /\ Sight!Gone(report, a) = IF a = s THEN {t} ELSE {}
                /\ Sight!Taught(report, a) = {t}
  <2>1. {t} \in SUBSET Nat
    BY <1>1
  <2> QED
    BY <2>1, GivenEvent
<1> HIDE DEF report
<1>7. ASSUME NEW a \in Audiences
      PROVE  Sight!Shown(f, a) \subseteq Sight!Shown(engine, a) \cup Sight!Taught(report, a)
  <2>1. a # 0 => a \in Seats
    BY DEF Audiences, Sight!Audiences, Seats, Sight!Public
  <2>2. a # 0 => f.hand[a] \subseteq engine.hand[a] \cup {t}
    BY <1>2, <1>4, <2>1
  <2>3. \A b \in Seats : f.pond[b] \subseteq engine.pond[b] \cup {t}
    BY <1>2, <1>4
  <2>4. Sight!Shown(f, a) \subseteq Sight!Shown(engine, a) \cup {t}
    BY <1>4, <2>2, <2>3, ShownGrows
  <2> QED
    BY <1>6, <2>4
<1>8. \A a \in Seats : f.hand[a] = engine.hand[a] \ (IF a = s THEN {t} ELSE {})
  BY <1>2, <1>4
<1>9. Follows(f, report)
  <2>1. engine.next <= f.next /\ f.last < f.next
    BY <1>1, <1>4
  <2> QED
    BY <1>1, <1>4, <1>5, <1>6, <1>7, <1>8, <2>1, GivenFollows
<1>10. ASSUME NEW a \in Seats, t \in f.hand[a] PROVE FALSE
  <2>1. \A b, c \in Seats : b # c => engine.hand[b] \cap engine.hand[c] = {}
    BY DEF Sight!Fair, Seats
  <2> QED
    BY <1>8, <1>10, <2>1
<1> QED
  BY <1>4, <1>9, <1>10 DEF f, report

\* A closed kan, with its dora
LEMMA KanFollows ==
  ASSUME engine \in Sight!Tables, Sight!Fair(engine), engine.left > 0, NEW s \in Seats,
         NEW c \in SUBSET engine.hand[s]
  PROVE  LET f == [engine EXCEPT !.hand[s] = @ \ c,
                                 !.melds[s] = @ \cup {[tiles |-> c, open |-> FALSE]},
                                 !.dora = @ \cup {engine.next}, !.next = @ + 1, !.left = @ - 1]
         IN  Follows(f, <<Sight!Plain("ankan", s, c), Sight!Plain("dora", 0, {engine.next})>>)
<1> DEFINE kan == [tiles |-> c, open |-> FALSE]
           hands == [engine.hand EXCEPT ![s] = @ \ c]
           calls == [engine.melds EXCEPT ![s] = @ \cup {kan}]
           shows == engine.dora \cup {engine.next}
           M == [tiles : SUBSET Nat, open : BOOLEAN]
           f == [engine EXCEPT !.hand[s] = @ \ c,
                               !.melds[s] = @ \cup {[tiles |-> c, open |-> FALSE]},
                               !.dora = @ \cup {engine.next}, !.next = @ + 1, !.left = @ - 1]
           x == Sight!Plain("ankan", s, c)
           y == Sight!Plain("dora", 0, {engine.next})
           report == <<x, y>>
<1>1. /\ engine.hand \in [Seats -> SUBSET Nat] /\ engine.melds \in [Seats -> SUBSET M]
      /\ engine.next \in Nat /\ engine.left - 1 \in Nat /\ engine.dora \in SUBSET Nat
      /\ engine.last \in Nat /\ engine.last < engine.next
      /\ c \in SUBSET Nat /\ \A t \in c : t < engine.next
  BY DEF Sight!Tables, Sight!Tiles, Seats, Sight!Fair
<1>2. kan \in M /\ kan.tiles = c /\ ~kan.open
  BY <1>1
<1> HIDE DEF kan, M
<1>3. /\ hands \in [Seats -> SUBSET Nat] /\ calls \in [Seats -> SUBSET M]
      /\ \A a \in Seats : hands[a] = IF a = s THEN engine.hand[a] \ c ELSE engine.hand[a]
      /\ \A a \in Seats : calls[a] = IF a = s THEN engine.melds[a] \cup {kan} ELSE engine.melds[a]
  BY <1>1, <1>2
<1>4. f = [hand |-> hands, pond |-> engine.pond, melds |-> calls, dora |-> shows,
           next |-> engine.next + 1, left |-> engine.left - 1, last |-> engine.last,
           seat |-> engine.seat, kyoku |-> engine.kyoku, score |-> engine.score]
  <2>1. f = [[[[[engine EXCEPT !.hand = hands] EXCEPT !.melds = calls] EXCEPT !.dora = shows]
              EXCEPT !.next = @ + 1] EXCEPT !.left = @ - 1]
    BY DEF Sight!Tables, kan
  <2> HIDE DEF hands, calls, shows, f
  <2> QED
    BY <2>1 DEF Sight!Tables
<1> HIDE DEF hands, calls, f
<1>5. /\ f.hand = hands /\ f.pond = engine.pond /\ f.melds = calls /\ f.dora = shows
      /\ f.next = engine.next + 1 /\ f.last = engine.last /\ f.kyoku = engine.kyoku
      /\ f.score = engine.score
  BY <1>4
<1>6. f \in Sight!Tables
  <2>1. shows \in SUBSET Nat
    BY <1>1
  <2> HIDE DEF shows
  <2> QED
    BY <1>1, <1>3, <1>4, <2>1 DEF Sight!Tables, Sight!Tiles, Seats, M
<1>7. /\ x \in Evs /\ <<x>> \in Hids /\ ~Sight!Starts(<<x>>)
      /\ \A a : /\ Sight!Got(<<x>>, a) = {}
                /\ Sight!Gone(<<x>>, a) = IF a = s THEN c ELSE {}
                /\ Sight!Taught(<<x>>, a) = IF a # s THEN {} ELSE c
  BY <1>1, GivenEvent
<1>8. /\ y \in Evs /\ <<y>> \in Hids /\ ~Sight!Starts(<<y>>)
      /\ \A a : /\ Sight!Got(<<y>>, a) = {} /\ Sight!Gone(<<y>>, a) = {}
                /\ Sight!Taught(<<y>>, a) = {engine.next}
  <2>1. y \in Evs /\ y.kind = "dora" /\ y.tiles = {engine.next}
    <3>1. {engine.next} \in SUBSET Nat
      BY <1>1
    <3> QED
      BY <3>1, PlainIs
  <2> HIDE DEF y
  <2>2. \A a : Sight!Teaches(y, a) = {engine.next}
    BY <2>1 DEF Sight!Teaches
  <2> QED
    BY <2>1, <2>2, OneEvent
<1> HIDE DEF x, y
<1>9. report = <<x>> \o <<y>> /\ report \in Hids
  BY <1>7, <1>8, TwoEvents
<1>10. ~Sight!Starts(report)
  BY <1>7, <1>8, <1>9, StartsJoin
<1>11. ASSUME NEW a
       PROVE  /\ Sight!Got(report, a) = {} /\ Sight!Gone(report, a) = IF a = s THEN c ELSE {}
              /\ Sight!Taught(report, a) = (IF a # s THEN {} ELSE c) \cup {engine.next}
  <2>1. /\ Sight!Got(<<x>> \o <<y>>, a) = Sight!Got(<<x>>, a) \cup Sight!Got(<<y>>, a)
        /\ Sight!Gone(<<x>> \o <<y>>, a) = Sight!Gone(<<x>>, a) \cup Sight!Gone(<<y>>, a)
        /\ Sight!Taught(<<x>> \o <<y>>, a) = Sight!Taught(<<x>>, a) \cup Sight!Taught(<<y>>, a)
    BY <1>7, <1>8, GotJoin, GoneJoin, TaughtJoin
  <2> HIDE DEF report
  <2> QED
    BY <1>7, <1>8, <1>9, <2>1
<1> HIDE DEF report
<1>12. ASSUME NEW a \in Audiences
       PROVE  Sight!Shown(f, a) \subseteq Sight!Shown(engine, a) \cup Sight!Taught(report, a)
  <2>1. a # 0 => a \in Seats
    BY DEF Audiences, Sight!Audiences, Seats, Sight!Public
  <2>2. a # 0 => f.hand[a] \subseteq engine.hand[a] \cup Sight!Taught(report, a)
    BY <1>3, <1>5, <2>1
  <2>3. f.dora \subseteq engine.dora \cup Sight!Taught(report, a)
    BY <1>5, <1>11
  <2>4. Sight!VisibleMeld(kan, s = a).tiles \subseteq Sight!Taught(report, a)
    <3>1. CASE s = a
      BY <1>2, <1>11, <3>1 DEF Sight!VisibleMeld
    <3>2. CASE s # a
      BY <1>2, <3>2 DEF Sight!VisibleMeld, M
    <3> QED
      BY <3>1, <3>2
  <2>5. \A b \in Seats : \A m \in f.melds[b] :
          m \in engine.melds[b] \/ Sight!VisibleMeld(m, b = a).tiles \subseteq Sight!Taught(report, a)
    BY <1>3, <1>5, <2>4
  <2> QED
    BY <1>5, <2>2, <2>3, <2>5, ShownGrows
<1>13. \A a \in Seats : f.hand[a] = engine.hand[a] \ (IF a = s THEN c ELSE {})
  BY <1>3, <1>5
<1>14. engine.next <= f.next /\ f.last < f.next
  BY <1>1, <1>5
<1>15. Follows(f, report)
  <2>1. \A a \in Seats : /\ Sight!Got(report, a) = {}
                         /\ Sight!Gone(report, a) = IF a = s THEN c ELSE {}
    BY <1>11
  <2>2. \A t \in c : t < engine.next
    BY <1>1
  <2>3. f.kyoku = engine.kyoku /\ f.score = engine.score
    BY <1>5
  <2> QED
    BY <1>6, <1>9, <1>10, <1>12, <1>13, <1>14, <2>1, <2>2, <2>3 DEF Follows
<1> QED
  BY <1>15 DEF f, report, x, y

\* A tile is called.
LEMMA CallFollows ==
  ASSUME engine \in Sight!Tables, Sight!Fair(engine), NEW s \in Seats,
         NEW t \in engine.hand[s], engine.last \notin engine.hand[s]
  PROVE  LET g == {t, engine.last}
             f == [engine EXCEPT !.hand[s] = @ \ {t},
                                 !.melds[s] = @ \cup {[tiles |-> g, open |-> TRUE]}]
         IN  Follows(f, <<Sight!Plain("call", s, g)>>)
<1> DEFINE g == {t, engine.last}
           call == [tiles |-> g, open |-> TRUE]
           hands == [engine.hand EXCEPT ![s] = @ \ {t}]
           calls == [engine.melds EXCEPT ![s] = @ \cup {call}]
           M == [tiles : SUBSET Nat, open : BOOLEAN]
           f == [engine EXCEPT !.hand[s] = @ \ {t},
                               !.melds[s] = @ \cup {[tiles |-> g, open |-> TRUE]}]
           report == <<Sight!Plain("call", s, g)>>
<1>1. /\ engine.hand \in [Seats -> SUBSET Nat] /\ engine.melds \in [Seats -> SUBSET M]
      /\ engine.next \in Nat /\ engine.last \in Nat /\ engine.last < engine.next
      /\ t \in Nat /\ t < engine.next
  BY DEF Sight!Tables, Sight!Tiles, Seats, Sight!Fair
<1>2. g \in SUBSET Nat /\ \A x \in g : x < engine.next
  BY <1>1
<1>3. engine.hand[s] \ {t} = engine.hand[s] \ g
  OBVIOUS
<1> HIDE DEF g
<1>4. call \in M /\ call.tiles = g /\ call.open
  BY <1>2
<1> HIDE DEF call, M
<1>5. /\ hands \in [Seats -> SUBSET Nat] /\ calls \in [Seats -> SUBSET M]
      /\ \A a \in Seats : hands[a] = IF a = s THEN engine.hand[a] \ {t} ELSE engine.hand[a]
      /\ \A a \in Seats : calls[a] = IF a = s THEN engine.melds[a] \cup {call} ELSE engine.melds[a]
  BY <1>1, <1>4
<1>6. f = [hand |-> hands, pond |-> engine.pond, melds |-> calls, dora |-> engine.dora,
           next |-> engine.next, left |-> engine.left, last |-> engine.last,
           seat |-> engine.seat, kyoku |-> engine.kyoku, score |-> engine.score]
  <2>1. f = [[engine EXCEPT !.hand = hands] EXCEPT !.melds = calls]
    BY DEF Sight!Tables, call
  <2> HIDE DEF hands, calls, f
  <2> QED
    BY <2>1 DEF Sight!Tables
<1> HIDE DEF hands, calls, f
<1>7. /\ f.hand = hands /\ f.pond = engine.pond /\ f.melds = calls /\ f.dora = engine.dora
      /\ f.next = engine.next /\ f.last = engine.last /\ f.kyoku = engine.kyoku
      /\ f.score = engine.score
  BY <1>6
<1>8. f \in Sight!Tables
  BY <1>1, <1>5, <1>6 DEF Sight!Tables, Sight!Tiles, Seats, M
<1>9. /\ report \in Hids /\ ~Sight!Starts(report)
      /\ \A a : /\ Sight!Got(report, a) = {}
                /\ Sight!Gone(report, a) = IF a = s THEN g ELSE {}
                /\ Sight!Taught(report, a) = g
  BY <1>2, GivenEvent
<1> HIDE DEF report
<1>10. ASSUME NEW a \in Audiences
       PROVE  Sight!Shown(f, a) \subseteq Sight!Shown(engine, a) \cup Sight!Taught(report, a)
  <2>1. a # 0 => a \in Seats
    BY DEF Audiences, Sight!Audiences, Seats, Sight!Public
  <2>2. a # 0 => f.hand[a] \subseteq engine.hand[a] \cup g
    BY <1>5, <1>7, <2>1
  <2>3. Sight!VisibleMeld(call, s = a).tiles \subseteq g
    BY <1>4 DEF Sight!VisibleMeld
  <2>4. \A b \in Seats : \A m \in f.melds[b] :
          m \in engine.melds[b] \/ Sight!VisibleMeld(m, b = a).tiles \subseteq g
    BY <1>5, <1>7, <2>3
  <2>5. Sight!Shown(f, a) \subseteq Sight!Shown(engine, a) \cup g
    BY <1>7, <2>2, <2>4, ShownGrows
  <2> QED
    BY <1>9, <2>5
<1>11. \A a \in Seats : f.hand[a] = engine.hand[a] \ (IF a = s THEN g ELSE {})
  BY <1>3, <1>5, <1>7
<1>12. Follows(f, report)
  <2>1. \A a \in Seats : /\ Sight!Got(report, a) = {}
                         /\ Sight!Gone(report, a) = IF a = s THEN g ELSE {}
    BY <1>9
  <2>2. engine.next <= f.next /\ f.last < f.next
    BY <1>1, <1>7
  <2>3. f.kyoku = engine.kyoku /\ f.score = engine.score
    BY <1>7
  <2> QED
    BY <1>2, <1>8, <1>9, <1>10, <1>11, <2>1, <2>2, <2>3, GivenFollows
<1> QED
  BY <1>12 DEF f, report, g

\* A win is a Seat and tiles.
LEMMA WinIs ==
  ASSUME engine \in Sight!Tables, NEW s \in Seats, NEW t \in Nat
  PROVE  Sight!Win(engine, s, t) \in [seat : Sight!Seats, tiles : Sight!Tiles]
<1>1. engine.hand[s] \subseteq Nat /\ \A m \in engine.melds[s] : m.tiles \subseteq Nat
  BY DEF Sight!Tables, Sight!Tiles, Seats
<1>2. engine.hand[s] \cup {t} \cup UNION {m.tiles : m \in engine.melds[s]} \subseteq Nat
  BY <1>1
<1> QED
  BY <1>2 DEF Sight!Win, Sight!Tiles, Seats

\* The next Seat draws, or the Kyoku ends without a winner.
LEMMA DrawNextKeepsViews ==
  ASSUME Sight!Assumption, Sight!ViewsInv, Sight!Playing, NEW e, NEW report,
         Follows(e, report), NEW s \in Seats, Sight!DrawNext(e, report, s)
  PROVE  Sight!ViewsInv'
<1>1. engine \in Sight!Tables /\ e.left \in Nat
  BY PlayingIs DEF Follows, Sight!Tables
<1>2. CASE e.left > 0 /\ Sight!Goes([Sight!Drawn(e, s) EXCEPT !.left = @ - 1],
                                    Append(report, Sight!DrawEvent(e, s)), Sight!Turn(s))
  <2> DEFINE f == [Sight!Drawn(e, s) EXCEPT !.left = @ - 1]
             g == [Sight!Drawn(e, s) EXCEPT !.left = e.left - 1]
             all == Append(report, Sight!DrawEvent(e, s))
  <2>1. f = g
    <3>1. Sight!Drawn(e, s).left = e.left
      BY DEF Sight!Drawn, Follows, Sight!Tables
    <3> QED
      BY <3>1
  <2>2. e.left - 1 \in Nat
    BY <1>1, <1>2
  <2>3. Follows(g, all)
    BY <1>1, <2>2, DrawFollows
  <2>4. Sight!Turn(s) \in Sight!Decisions /\ Sight!Turn(s).kind # "response"
    BY DEF Sight!Turn, Sight!Decisions, Seats
  <2>5. Sight!Goes(g, all, Sight!Turn(s))
    BY <1>2, <2>1
  <2> HIDE DEF f, g, all
  <2> QED
    BY <2>3, <2>4, <2>5, GoesKeepsViews
<1>3. CASE \E showing \in {{}, {1}} : Sight!Ends(e, report, <<>>, {}, showing)
  <2>1. PICK showing \in {{}, {1}} : Sight!Ends(e, report, <<>>, {}, showing)
    BY <1>3
  <2>2. showing \in SUBSET Seats
    BY DEF Seats, Sight!Seats, Sight!Assumption
  <2>3. <<>> \in Sight!AllWins
    BY DEF Sight!AllWins
  <2> QED
    BY <2>1, <2>2, <2>3, EndsKeepsViews
<1> QED
  BY <1>2, <1>3 DEF Sight!DrawNext

LEMMA FollowingIs ==
  ASSUME Sight!Assumption, NEW s \in Seats
  PROVE  Sight!Following(s) \in Seats
<1>1. N \in Nat \ {0} /\ s \in Nat
  BY DEF Sight!Assumption, Seats, Sight!Seats
<1>2. s % N \in 0 .. N - 1
  BY <1>1
<1> QED
  BY <1>1, <1>2 DEF Sight!Following, Seats, Sight!Seats

\* A turn
LEMMA DiscardKeepsViews ==
  ASSUME Sight!Assumption, Sight!ViewsInv, Sight!Playing, NEW s \in Seats,
         NEW t \in engine.hand[s], Sight!Discard(s, t)
  PROVE  Sight!ViewsInv'
<1> DEFINE e == [engine EXCEPT !.hand[s] = @ \ {t}, !.pond[s] = @ \cup {t}, !.last = t,
                               !.seat = s]
           report == <<Sight!Plain("dahai", s, {t})>>
<1>1. /\ Follows(e, report) /\ e.last = t /\ \A a \in Seats : t \notin e.hand[a]
  BY PlayingIs, DiscardFollows
<1>2. \/ Sight!DrawNext(e, report, Sight!Following(s))
      \/ \E who \in (SUBSET (Seats \ {s})) \ {{}} :
           Sight!Goes(e, report, [kind |-> "response", who |-> who, done |-> {}])
  BY DEF Sight!Discard, Seats
<1> HIDE DEF e, report
<1>3. CASE Sight!DrawNext(e, report, Sight!Following(s))
  BY <1>1, <1>3, FollowingIs, DrawNextKeepsViews
<1>4. CASE \E who \in (SUBSET (Seats \ {s})) \ {{}} :
             Sight!Goes(e, report, [kind |-> "response", who |-> who, done |-> {}])
  <2>1. PICK who \in (SUBSET (Seats \ {s})) \ {{}} :
          Sight!Goes(e, report, [kind |-> "response", who |-> who, done |-> {}])
    BY <1>4
  <2>2. [kind |-> "response", who |-> who, done |-> {}] \in Sight!Decisions
    BY DEF Sight!Decisions, Seats
  <2> QED
    BY <1>1, <2>1, <2>2, GoesKeepsViews
<1> QED
  BY <1>2, <1>3, <1>4

LEMMA ClosedKanKeepsViews ==
  ASSUME Sight!Assumption, Sight!ViewsInv, Sight!Playing, NEW s \in Seats,
         NEW c \in SUBSET engine.hand[s], Sight!ClosedKan(s, c)
  PROVE  Sight!ViewsInv'
<1> DEFINE e == [engine EXCEPT !.hand[s] = @ \ c,
                               !.melds[s] = @ \cup {[tiles |-> c, open |-> FALSE]},
                               !.dora = @ \cup {engine.next}, !.next = @ + 1, !.left = @ - 1]
           x == Sight!Plain("ankan", s, c)
           y == Sight!Plain("dora", 0, {engine.next})
           z == Sight!DrawEvent(e, s)
           f == Sight!Drawn(e, s)
           g == [Sight!Drawn(e, s) EXCEPT !.left = e.left]
<1>1. engine.left > 0 /\ Sight!Goes(f, <<x, y, z>>, Sight!Turn(s))
  BY DEF Sight!ClosedKan
<1>2. Follows(e, <<x, y>>) /\ engine \in Sight!Tables
  BY <1>1, PlayingIs, KanFollows
<1>3. <<x, y, z>> = Append(<<x, y>>, z)
  OBVIOUS
<1> HIDE DEF e
<1>4. e \in Sight!Tables
  BY <1>2 DEF Follows
<1>5. f = g
  <2>1. f = [f EXCEPT !.left = f.left] /\ f.left = e.left
    BY <1>4 DEF Sight!Drawn, Sight!Tables
  <2> QED
    BY <2>1
<1>6. Follows(g, Append(<<x, y>>, z))
  <2>1. e.left \in Nat
    BY <1>4 DEF Sight!Tables
  <2> QED
    BY <1>2, <2>1, DrawFollows
<1>7. Sight!Turn(s) \in Sight!Decisions /\ Sight!Turn(s).kind # "response"
  BY DEF Sight!Turn, Sight!Decisions, Seats
<1> HIDE DEF f, g, x, y, z
<1>8. Follows(f, <<x, y, z>>)
  BY <1>3, <1>5, <1>6
<1> QED
  BY <1>1, <1>7, <1>8, GoesKeepsViews

LEMMA SelfDrawKeepsViews ==
  ASSUME Sight!Assumption, Sight!ViewsInv, Sight!Playing, NEW s \in Seats, Sight!SelfDraw(s)
  PROVE  Sight!ViewsInv'
<1>1. PICK t \in engine.hand[s] : Sight!Ends(engine, <<>>, <<Sight!Win(engine, s, t)>>, {t}, {})
  BY DEF Sight!SelfDraw, Sight!Newest
<1>2. engine \in Sight!Tables /\ Sight!Fair(engine)
  BY PlayingIs
<1>3. t \in Nat
  BY <1>2 DEF Sight!Tables, Sight!Tiles, Seats
<1>4. <<Sight!Win(engine, s, t)>> \in Sight!AllWins
  BY <1>2, <1>3, WinIs DEF Sight!AllWins
<1>5. Follows(engine, <<>>) /\ {t} \in SUBSET Nat /\ {} \in SUBSET Seats
  BY <1>2, <1>3, NothingFollows
<1> QED
  BY <1>1, <1>4, <1>5, EndsKeepsViews

LEMMA TakeTurnKeepsViews ==
  ASSUME Sight!Assumption, Sight!ViewsInv, Sight!TakeTurn
  PROVE  Sight!ViewsInv'
<1>1. Sight!Playing /\ decision \in Sight!Decisions
  BY DEF Sight!TakeTurn, Sight!ViewsInv, Sight!TypeOK
<1>2. PICK s \in decision.who :
        \/ \E t \in Sight!Oldest(engine.hand[s]) \cup Sight!Newest(engine.hand[s]) :
             Sight!Discard(s, t)
        \/ Sight!ClosedKan(s, engine.hand[s] \ Sight!Newest(engine.hand[s]))
        \/ Sight!SelfDraw(s)
  BY DEF Sight!TakeTurn
<1>3. s \in Seats
  BY <1>1 DEF Sight!Decisions, Seats
<1>4. CASE \E t \in Sight!Oldest(engine.hand[s]) \cup Sight!Newest(engine.hand[s]) :
             Sight!Discard(s, t)
  <2>1. PICK t \in Sight!Oldest(engine.hand[s]) \cup Sight!Newest(engine.hand[s]) :
          Sight!Discard(s, t)
    BY <1>4
  <2>2. t \in engine.hand[s]
    BY DEF Sight!Oldest, Sight!Newest
  <2> QED
    BY <1>1, <1>3, <2>1, <2>2, DiscardKeepsViews
<1>5. CASE Sight!ClosedKan(s, engine.hand[s] \ Sight!Newest(engine.hand[s]))
  <2>1. engine.hand[s] \ Sight!Newest(engine.hand[s]) \in SUBSET engine.hand[s]
    OBVIOUS
  <2> QED
    BY <1>1, <1>3, <1>5, <2>1, ClosedKanKeepsViews
<1>6. CASE Sight!SelfDraw(s)
  BY <1>1, <1>3, <1>6, SelfDrawKeepsViews
<1> QED
  BY <1>2, <1>4, <1>5, <1>6

\* The answers to a discard
LEMMA WinsAre ==
  ASSUME Sight!Assumption, engine \in Sight!Tables, NEW winners \in SUBSET Seats,
         NEW order \in Sight!InOrder(winners)
  PROVE  [i \in DOMAIN order |-> Sight!Win(engine, order[i], engine.last)] \in Sight!AllWins
<1> DEFINE n == Sight!Cardinality(winners)
           W == [seat : Sight!Seats, tiles : Sight!Tiles]
           wins == [i \in DOMAIN order |-> Sight!Win(engine, order[i], engine.last)]
<1>1. n \in Nat
  <2>1. IsFiniteSet(Seats) /\ N \in Nat
    BY FS_Interval DEF Seats, Sight!Seats, Sight!Assumption
  <2>2. Cardinality(winners) \in Nat
    BY <2>1, FS_Subset, FS_CardinalityType
  <2>3. Sight!Cardinality(winners) = Cardinality(winners)
    BY DEF Sight!Cardinality, Cardinality
  <2> QED
    BY <2>2, <2>3
<1>2. order \in [1 .. n -> winners]
  BY DEF Sight!InOrder
<1> HIDE DEF n
<1>3. ASSUME NEW i \in 1 .. n PROVE Sight!Win(engine, order[i], engine.last) \in W
  <2>1. order[i] \in Seats /\ engine.last \in Nat
    BY <1>2 DEF Sight!Tables
  <2> QED
    BY <2>1, WinIs
<1>4. wins \in [1 .. n -> W]
  BY <1>2, <1>3
<1> HIDE DEF wins, W
<1>5. wins \in Seq(W)
  BY <1>1, <1>4
<1> QED
  BY <1>5 DEF wins, W, Sight!AllWins

LEMMA RespondKeepsViews ==
  ASSUME Sight!Assumption, Sight!ViewsInv, Sight!Respond
  PROVE  Sight!ViewsInv'
<1>1. Sight!Playing /\ decision \in Sight!Decisions /\ decision.kind = "response"
  BY DEF Sight!Respond, Sight!ViewsInv, Sight!TypeOK
<1>2. engine \in Sight!Tables /\ Sight!Fair(engine) /\ Follows(engine, <<>>)
  BY <1>1, PlayingIs, NothingFollows
<1>3. engine.last \in Nat /\ engine.seat \in Seats /\ decision.who \subseteq Seats
  BY <1>1, <1>2 DEF Sight!Tables, Sight!Decisions, Seats
<1>4. CASE \E winners \in (SUBSET decision.who) \ {{}} : \E order \in Sight!InOrder(winners) :
             Sight!Ends(engine, <<>>,
                        [i \in DOMAIN order |-> Sight!Win(engine, order[i], engine.last)],
                        {engine.last}, {})
  <2>1. PICK winners \in (SUBSET decision.who) \ {{}} : \E order \in Sight!InOrder(winners) :
          Sight!Ends(engine, <<>>,
                     [i \in DOMAIN order |-> Sight!Win(engine, order[i], engine.last)],
                     {engine.last}, {})
    BY <1>4
  <2>2. PICK order \in Sight!InOrder(winners) :
          Sight!Ends(engine, <<>>,
                     [i \in DOMAIN order |-> Sight!Win(engine, order[i], engine.last)],
                     {engine.last}, {})
    BY <2>1
  <2> DEFINE wins == [i \in DOMAIN order |-> Sight!Win(engine, order[i], engine.last)]
  <2>3. wins \in Sight!AllWins
    BY <1>2, <1>3, WinsAre
  <2>4. {engine.last} \in SUBSET Nat /\ {} \in SUBSET Seats
    BY <1>3
  <2>5. Sight!Ends(engine, <<>>, wins, {engine.last}, {})
    BY <2>2
  <2> HIDE DEF wins
  <2> QED
    BY <1>1, <1>2, <2>3, <2>4, <2>5, EndsKeepsViews
<1>5. CASE \E s \in decision.who : \E t \in Sight!Oldest(engine.hand[s]) :
             Sight!Goes([engine EXCEPT !.hand[s] = @ \ {t},
                           !.melds[s] = @ \cup {[tiles |-> {t, engine.last}, open |-> TRUE]}],
                        <<Sight!Plain("call", s, {t, engine.last})>>, Sight!Turn(s))
  <2>1. PICK s \in decision.who : \E t \in Sight!Oldest(engine.hand[s]) :
          Sight!Goes([engine EXCEPT !.hand[s] = @ \ {t},
                        !.melds[s] = @ \cup {[tiles |-> {t, engine.last}, open |-> TRUE]}],
                     <<Sight!Plain("call", s, {t, engine.last})>>, Sight!Turn(s))
    BY <1>5
  <2>2. PICK t \in engine.hand[s] :
          Sight!Goes([engine EXCEPT !.hand[s] = @ \ {t},
                        !.melds[s] = @ \cup {[tiles |-> {t, engine.last}, open |-> TRUE]}],
                     <<Sight!Plain("call", s, {t, engine.last})>>, Sight!Turn(s))
    BY <2>1 DEF Sight!Oldest
  <2>3. s \in Seats /\ engine.last \notin engine.hand[s]
    BY <1>1, <1>3 DEF Sight!ViewsInv, Sight!HandInv, Seats
  <2> DEFINE e == [engine EXCEPT !.hand[s] = @ \ {t},
                     !.melds[s] = @ \cup {[tiles |-> {t, engine.last}, open |-> TRUE]}]
             report == <<Sight!Plain("call", s, {t, engine.last})>>
  <2>4. Follows(e, report)
    BY <1>2, <2>3, CallFollows
  <2>5. Sight!Goes(e, report, Sight!Turn(s))
    BY <2>2
  <2>6. Sight!Turn(s) \in Sight!Decisions /\ Sight!Turn(s).kind # "response"
    BY <2>3 DEF Sight!Turn, Sight!Decisions, Seats
  <2> HIDE DEF e, report
  <2> QED
    BY <1>1, <2>4, <2>5, <2>6, GoesKeepsViews
<1>6. CASE Sight!DrawNext(engine, <<>>, Sight!Following(engine.seat))
  BY <1>1, <1>2, <1>3, <1>6, FollowingIs, DrawNextKeepsViews
<1> QED
  BY <1>4, <1>5, <1>6 DEF Sight!Respond

LEMMA NextKeepsViews ==
  ASSUME Sight!Assumption, Sight!ViewsInv, [Sight!Next]_(Sight!vars)
  PROVE  Sight!ViewsInv'
<1>1. CASE Sight!TakeTurn
  BY <1>1, TakeTurnKeepsViews
<1>2. CASE Sight!Submit
  BY <1>2, SubmitKeepsViews
<1>3. CASE Sight!Respond
  BY <1>3, RespondKeepsViews
<1>4. CASE Sight!NextStep
  BY <1>4, NextStepKeepsViews
<1>5. CASE Sight!Release
  BY <1>5, ReleaseKeepsViews
<1>6. CASE Sight!Deliver
  BY <1>6, DeliverKeepsViews
<1>7. CASE Sight!Reconnect
  BY <1>7, ReconnectKeepsViews
<1>8. CASE UNCHANGED Sight!vars
  <2>1. UNCHANGED <<engine, decision, log, held, history, aware, client>>
    BY <1>8 DEF Sight!vars
  <2>2. /\ decision \in Sight!Decisions /\ client.who \in Audiences
        /\ client = [on |-> client.on, who |-> client.who, queue |-> client.queue,
                     state |-> client.state, events |-> client.events]
        /\ client.on \in BOOLEAN /\ client.queue \in Seq(Heard)
        /\ Sight!EventsTiles(client.events) \subseteq aware[client.who]
    BY DEF Sight!ViewsInv, Sight!TypeOK, Sight!KnownInv, Audiences, Heard, Evs
  <2>3. Sight!ClientIsCurrent'
    <3>1. \A b : Sight!View(b)' = Sight!View(b)
      BY <2>1 DEF Sight!View, Sight!VisibleDecision, Sight!Table, Sight!Published
    <3> QED
      BY <2>1, <3>1 DEF Sight!ViewsInv, Sight!ClientIsCurrent
  <2> QED
    BY <2>1, <2>2, <2>3, TableStays
<1> QED
  BY <1>1, <1>2, <1>3, <1>4, <1>5, <1>6, <1>7, <1>8 DEF Sight!Next

LEMMA FirstHistory ==
  ASSUME NEW x, NEW y, NEW d
  PROVE  [[current |-> x, previous |-> x, seq |-> 0, done |-> d]
            EXCEPT !.current = y, !.seq = @ + 1, !.done = d]
           = [current |-> y, previous |-> x, seq |-> 1, done |-> d]
<1> DEFINE r == [current |-> x, previous |-> x, seq |-> 0, done |-> d]
<1>1. r.seq + 1 = 1
  OBVIOUS
<1>2. [r EXCEPT !.current = y] = [current |-> y, previous |-> x, seq |-> 0, done |-> d]
  OBVIOUS
<1>3. [[current |-> y, previous |-> x, seq |-> 0, done |-> d] EXCEPT !.seq = 1]
        = [current |-> y, previous |-> x, seq |-> 1, done |-> d]
  OBVIOUS
<1>4. [[current |-> y, previous |-> x, seq |-> 1, done |-> d] EXCEPT !.done = d]
        = [current |-> y, previous |-> x, seq |-> 1, done |-> d]
  OBVIOUS
<1>5. [r EXCEPT !.current = y, !.seq = @ + 1, !.done = d]
        = [[[r EXCEPT !.current = y] EXCEPT !.seq = r.seq + 1] EXCEPT !.done = d]
  BY Zenon
<1> HIDE DEF r
<1> QED
  BY <1>1, <1>2, <1>3, <1>4, <1>5 DEF r

\* The Match is committed, and a socket has come.
LEMMA InitViews ==
  ASSUME Sight!Assumption, Sight!Init
  PROVE  Sight!ViewsInv
<1> DEFINE s == Sight!StartEvents(Sight!Dealt(Sight!Blank))
           none == [current |-> <<>>, previous |-> <<>>, seq |-> 0, done |-> Sight!NoResults]
<1>1. /\ engine = Sight!Drawn(Sight!Dealt(Sight!Blank), 1) /\ decision = Sight!Turn(1)
      /\ held = Sight!NoHold /\ log = s /\ history = Sight!Recorded(none, s)
      /\ aware = [a \in Audiences |-> UNION {Sight!Teaches(log[i], a) : i \in DOMAIN log}]
      /\ \E a \in Watchers : client = [on |-> Inbox > 0, who |-> a, queue |-> <<>>,
                                       state |-> Sight!View(a), events |-> <<>>]
  BY DEF Sight!Init, Audiences
<1>2. Sight!Blank.kyoku = 0 /\ Sight!Blank.score = 0
  BY DEF Sight!Blank
<1>3. /\ engine \in Sight!Tables /\ Sight!Fair(engine) /\ engine.kyoku = 1 /\ engine.score = 0
  <2> DEFINE b == Sight!Blank
             e == Sight!Drawn(Sight!Dealt(b), 1)
  <2>1. b.kyoku \in Nat /\ b.score \in Nat
    BY <1>2
  <2>2. e \in Sight!Tables /\ Sight!Fair(e) /\ e.kyoku = b.kyoku + 1 /\ e.score = b.score
    BY <2>1, DealtIs
  <2> HIDE DEF b, e
  <2>3. e = engine
    BY <1>1 DEF b, e
  <2> QED
    BY <1>2, <2>2, <2>3 DEF b
<1>4. /\ s \in Hids /\ Len(s) = 2 /\ s[1].kind = "start" /\ s[2].kind = "tsumo"
      /\ \A a \in Audiences : Sight!Shown(engine, a) = Sight!Taught(s, a)
      /\ \A a \in Seats : Sight!Got(s, a) = engine.hand[a] /\ Sight!Gone(s, a) = {}
  <2> DEFINE b == Sight!Blank
             e == Sight!Drawn(Sight!Dealt(b), 1)
             t == Sight!StartEvents(Sight!Dealt(b))
  <2>1. b.kyoku \in Nat /\ b.score \in Nat
    BY <1>2
  <2>2. /\ t \in Hids /\ Len(t) = 2 /\ t[1].kind = "start" /\ t[2].kind = "tsumo"
        /\ \A a \in Audiences : Sight!Shown(e, a) = Sight!Taught(t, a)
        /\ \A a \in Seats : Sight!Got(t, a) = e.hand[a] /\ Sight!Gone(t, a) = {}
    BY <2>1, StartEventsAre
  <2>3. e = engine /\ t = s
    BY <1>1
  <2> HIDE DEF e, t, s
  <2> QED
    BY <2>2, <2>3
<1> HIDE DEF s
<1>5. /\ Sight!Starts(s) /\ Sight!StartOf(s) = 1 /\ SubSeq(s, 1, 2) = s /\ SubSeq(s, 1, 0) = <<>>
      /\ s # <<>>
  <2> DEFINE en == Sight!Plain("end", 0, {})
  <2>1. en \in Evs /\ en.kind # "start" /\ s[2].kind # "start"
    BY <1>4, EndEventsAre
  <2> HIDE DEF en
  <2>2. s # <<>>
    <3>1. \A r : r = <<>> => Len(r) = 0
      BY NoEvents
    <3> QED
      BY <1>4, <3>1
  <2> QED
    BY <1>4, <2>1, <2>2, WaitingIs
<1>6. history = [current |-> s, previous |-> <<>>, seq |-> 1, done |-> Sight!NoResults]
  <2>1. Sight!Continued(none, SubSeq(s, 1, 0)) = none
    BY DEF Sight!Continued
  <2>2. Sight!FinishCurrent(none) = none
    <3>1. Sight!Terminal(none.current) = {}
      BY DEF Sight!Terminal
    <3> QED
      BY <3>1 DEF Sight!FinishCurrent
  <2>3. Sight!StartOf(s) - 1 = 0 /\ Len(s) = 2 /\ Sight!StartOf(s) = 1
    BY <1>4, <1>5
  <2>4. history = [Sight!FinishCurrent(Sight!Continued(none, SubSeq(s, 1, Sight!StartOf(s) - 1)))
                     EXCEPT !.current = SubSeq(s, Sight!StartOf(s), Len(s)), !.seq = @ + 1,
                            !.done = Sight!NoResults]
    BY <1>1, <1>5 DEF Sight!Recorded
  <2>5. history = [none EXCEPT !.current = s, !.seq = @ + 1, !.done = Sight!NoResults]
    BY <1>5, <2>1, <2>2, <2>3, <2>4
  <2> QED
    BY <2>5, FirstHistory
<1>7. history \in Sight!Histories /\ history.current = s /\ history.seq = 1
      /\ history.previous = <<>> /\ history.done = Sight!NoResults
  <2>1. <<>> \in Seq([ends : Nat, seq : Nat, settled : BOOLEAN])
    OBVIOUS
  <2> QED
    BY <1>4, <1>6, <2>1, NothingPublished DEF Sight!Histories, Hids, Evs
<1>8. aware \in [Audiences -> SUBSET Nat] /\ \A a \in Audiences : aware[a] = Sight!Taught(s, a)
  <2>1. ASSUME NEW a \in Audiences, NEW i \in DOMAIN s
        PROVE  Sight!Teaches(s[i], a) \subseteq Nat
    <3>1. s[i] \in Evs
      BY <1>4, EventOf
    <3> QED
      BY <3>1 DEF Sight!Teaches, Evs, Sight!Events, Sight!Tiles, Audiences, Sight!Audiences,
         Sight!Public
  <2>2. \A a \in Audiences : Sight!Taught(s, a) \subseteq Nat
    BY <2>1 DEF Sight!Taught
  <2>3. aware = [a \in Audiences |-> Sight!Taught(s, a)]
    BY <1>1 DEF Sight!Taught
  <2> QED
    BY <2>2, <2>3
<1>9. PICK a \in Watchers : client = [on |-> Inbox > 0, who |-> a, queue |-> <<>>,
                                      state |-> Sight!View(a), events |-> <<>>]
  BY <1>1
<1>10. a \in Audiences /\ (Inbox > 0) \in BOOLEAN /\ <<>> \in Seq(Heard)
  BY DEF Sight!Assumption, Audiences
<1>11. /\ client = [on |-> client.on, who |-> client.who, queue |-> client.queue,
                    state |-> client.state, events |-> client.events]
       /\ client.on \in BOOLEAN /\ client.who = a /\ client.queue = <<>>
       /\ client.state = Sight!View(a) /\ client.events = <<>>
  <2> DEFINE b == Inbox > 0
  <2>1. b \in BOOLEAN /\ client = [on |-> b, who |-> a, queue |-> <<>>,
                                   state |-> Sight!View(a), events |-> <<>>]
    BY <1>9
  <2> HIDE DEF b
  <2> QED
    BY <2>1
<1>12. held.seq = 0 /\ Sight!Table = engine
  BY <1>1 DEF Sight!NoHold, Sight!Table
<1>13. decision \in Sight!Decisions /\ decision.kind = "turn"
  <2>1. 1 \in Sight!Seats
    BY DEF Sight!Seats, Sight!Assumption
  <2> QED
    BY <1>1, <2>1 DEF Sight!Turn, Sight!Decisions
<1>14. Sight!TypeOK
  BY <1>1, <1>3, <1>4, <1>5, <1>7, <1>8, <1>10, <1>11, <1>13
  DEF Sight!TypeOK, Hids, Evs, Heard, Audiences, Sight!Tiles
<1>15. Sight!KnownInv
  <2>1. Sight!ResultTiles(history.done) = {} /\ Sight!ResultTiles(Sight!Published(held)) = {}
    BY <1>1, <1>7, NothingPublished
  <2>2. Sight!EventsTiles(client.events) = {}
    BY <1>11 DEF Sight!EventsTiles
  <2> QED
    BY <1>1, <1>4, <1>7, <1>8, <1>12, <2>1, <2>2 DEF Sight!KnownInv, Audiences
<1>16. Sight!HandInv
  BY <1>3, <1>4, <1>7, <1>12, <1>13 DEF Sight!HandInv, Seats
<1>17. Sight!FiledInv
  <2>1. Len(history.previous) = 0 /\ ~history.done.settled
    BY <1>7, NothingPublished
  <2> QED
    BY <1>3, <1>7, <1>12, <2>1 DEF Sight!FiledInv
<1>18. Sight!ClientIsCurrent
  BY <1>11 DEF Sight!ClientIsCurrent
<1> QED
  BY <1>14, <1>15, <1>16, <1>17, <1>18 DEF Sight!ViewsInv

\* What the table shows is known.
LEMMA ViewIsKnown ==
  ASSUME Sight!ViewsInv, NEW a \in Audiences
  PROVE  Sight!ViewTiles(Sight!View(a)) \subseteq aware[a]
<1> DEFINE T == Sight!Table
           K == aware[a]
           v == Sight!View(a)
<1>1. /\ Sight!Shown(T, a) \subseteq K
      /\ Sight!ResultTiles(Sight!Published(held)) \subseteq K
  BY DEF Sight!ViewsInv, Sight!KnownInv, Audiences
<1>2. /\ v.hands = [s \in Seats |-> IF s = a THEN T.hand[s] ELSE {}]
      /\ v.pond = T.pond /\ v.dora = T.dora
      /\ v.melds = [s \in Seats |-> {Sight!VisibleMeld(m, s = a) : m \in T.melds[s]}]
      /\ v.decision = Sight!VisibleDecision(a) /\ v.results = Sight!Published(held)
  BY DEF Sight!View, Seats
<1> HIDE DEF v, K
<1>3. v.decision.tiles \subseteq (IF a = 0 THEN {} ELSE T.hand[a])
  BY <1>2 DEF Sight!VisibleDecision, Sight!Public
<1> HIDE DEF T
<1>4. /\ a # 0 => T.hand[a] \subseteq K
      /\ T.dora \subseteq K /\ \A s \in Seats : T.pond[s] \subseteq K
      /\ \A s \in Seats : \A m \in T.melds[s] : Sight!VisibleMeld(m, s = a).tiles \subseteq K
  BY <1>1 DEF Sight!Shown, Sight!Public, Seats
<1>5. \A s \in Seats : s # 0
  BY DEF Seats, Sight!Seats
<1>6. ASSUME NEW s \in Seats
      PROVE  v.hands[s] \cup v.pond[s] \cup UNION {m.tiles : m \in v.melds[s]} \subseteq K
  <2>1. v.hands[s] \subseteq K
    BY <1>2, <1>4, <1>5
  <2>2. \A m \in v.melds[s] : m.tiles \subseteq K
    BY <1>2, <1>4
  <2> QED
    BY <1>2, <1>4, <2>1, <2>2
<1>7. v.decision.tiles \subseteq K /\ Sight!ResultTiles(v.results) \subseteq K /\ v.dora \subseteq K
  BY <1>1, <1>2, <1>3, <1>4
<1>8. Sight!ViewTiles(v) \subseteq K
  <2>1. UNION {v.hands[s] \cup v.pond[s] \cup UNION {m.tiles : m \in v.melds[s]} : s \in Seats}
          \subseteq K
    BY <1>6
  <2> QED
    BY <1>7, <2>1 DEF Sight!ViewTiles, Seats
<1> QED
  BY <1>8 DEF v, K

\* What the history shows is known.
LEMMA HistoryIsKnown ==
  ASSUME Sight!ViewsInv, NEW a \in Audiences
  PROVE  /\ Sight!EventsTiles(Sight!HistoryView(a).events) \subseteq aware[a]
         /\ Sight!ResultTiles(Sight!HistoryView(a).official) \subseteq aware[a]
<1> DEFINE cur == history.current
           h == Sight!HistoryView(a)
<1>1. /\ cur \in Hids /\ Sight!Taught(cur, a) \subseteq aware[a]
      /\ Sight!ResultTiles(history.done) \subseteq aware[a]
      /\ Sight!ResultTiles(Sight!Published(held)) \subseteq aware[a]
  BY DEF Sight!ViewsInv, Sight!KnownInv, Audiences, Sight!TypeOK, Sight!Histories, Hids, Evs
<1>2. /\ h.events = [i \in DOMAIN cur |-> Sight!HistoryEvent(cur[i], a)]
      /\ h.official = Sight!Published(held) \/ h.official = history.done
  BY DEF Sight!HistoryView
<1> HIDE DEF h, cur
<1>3. ASSUME NEW i \in DOMAIN cur
      PROVE  Sight!EventTiles(Sight!HistoryEvent(cur[i], a)) \subseteq aware[a]
  <2>1. cur[i] \in Evs
    BY <1>1, EventOf
  <2>2. Sight!EventTiles(Sight!HistoryEvent(cur[i], a)) \subseteq Sight!Teaches(cur[i], a)
    BY <2>1, HistoryEventIs
  <2>3. Sight!Teaches(cur[i], a) \subseteq Sight!Taught(cur, a)
    BY DEF Sight!Taught
  <2> QED
    BY <1>1, <2>2, <2>3
<1>4. Sight!EventsTiles(h.events) \subseteq aware[a]
  BY <1>2, <1>3 DEF Sight!EventsTiles
<1> QED
  BY <1>1, <1>2, <1>4 DEF h

\* What the protocol shows a Player is known, but for the closed kans and the hands
\* after a draw.
LEMMA MjaiIsKnown ==
  ASSUME NEW ev \in Evs, ev.kind \notin {"ankan", "ryukyoku"}, NEW a \in Seats
  PROVE  Sight!EventTiles(Sight!MjaiEvent(ev, a)) \subseteq Sight!Teaches(ev, a)
<1> DEFINE T == IF ev.kind = "tsumo" /\ ev.actor # a THEN {} ELSE ev.tiles
           H == IF ev.kind = "start" THEN [s \in {a} |-> ev.hands[a]] ELSE ev.hands
           x == Sight!MjaiEvent(ev, a)
<1>1. x = [ev EXCEPT !.tiles = T, !.hands = H]
  BY DEF Sight!MjaiEvent
<1>2. x.tiles = T /\ x.hands = H
  <2> HIDE DEF T, H, x
  <2> QED
    BY <1>1 DEF Evs, Sight!Events
<1> HIDE DEF x
<1>3. UNION {H[s] : s \in DOMAIN H} = IF ev.kind = "start" THEN ev.hands[a] ELSE {}
  <2>1. CASE ev.kind = "start"
    <3>1. DOMAIN H = {a} /\ H[a] = ev.hands[a]
      BY <2>1
    <3> HIDE DEF H
    <3> QED
      BY <2>1, <3>1
  <2>2. CASE ev.kind # "start"
    <3>1. DOMAIN H = Sight!Seats /\ \A s \in Sight!Seats : H[s] = {}
      BY <2>2 DEF Evs, Sight!Events
    <3> HIDE DEF H
    <3> QED
      BY <2>2, <3>1
  <2> QED
    BY <2>1, <2>2
<1> HIDE DEF H
<1>4. Sight!EventTiles(x) = T \cup (IF ev.kind = "start" THEN ev.hands[a] ELSE {})
  BY <1>2, <1>3 DEF Sight!EventTiles
<1>5. a # 0
  BY DEF Seats, Sight!Seats
<1> HIDE DEF x
<1>6. Sight!EventTiles(x) \subseteq Sight!Teaches(ev, a)
  BY <1>4, <1>5 DEF Sight!Teaches, Sight!Public
<1> QED
  BY <1>6 DEF x

LEMMA ViewsShowWhatTheyMay ==
  ASSUME Sight!ViewsInv
  PROVE  Sight!SeesOnlyWhatItMay
<1>1. ASSUME NEW a \in Audiences, a # 0, NEW i \in DOMAIN log,
             log[i].kind \notin {"ankan", "ryukyoku"}
      PROVE  Sight!EventTiles(Sight!MjaiEvent(log[i], a)) \subseteq aware[a]
  <2>1. log[i] \in Evs /\ a \in Seats
    BY <1>1, EventOf DEF Sight!ViewsInv, Sight!TypeOK, Hids, Evs, Audiences, Sight!Audiences,
       Seats, Sight!Public
  <2>2. Sight!EventTiles(Sight!MjaiEvent(log[i], a)) \subseteq Sight!Teaches(log[i], a)
    BY <1>1, <2>1, MjaiIsKnown
  <2>3. Sight!Teaches(log[i], a) \subseteq Sight!Taught(log, a) /\ Sight!Taught(log, a) \subseteq aware[a]
    BY DEF Sight!Taught, Sight!ViewsInv, Sight!KnownInv, Audiences
  <2> QED
    BY <2>2, <2>3
<1>2. Sight!EventsTiles(client.events) \subseteq aware[client.who]
  BY DEF Sight!ViewsInv, Sight!KnownInv
<1>3. \A a \in Audiences :
        /\ Sight!ViewTiles(Sight!View(a)) \subseteq aware[a]
        /\ Sight!EventsTiles(Sight!HistoryView(a).events)
             \cup Sight!ResultTiles(Sight!HistoryView(a).official) \subseteq aware[a]
  BY ViewIsKnown, HistoryIsKnown
<1> QED
  BY <1>1, <1>2, <1>3 DEF Sight!SeesOnlyWhatItMay, Audiences, Sight!Public

\* Table and history tell the same hand.
LEMMA HistoryTells ==
  ASSUME Sight!ViewsInv
  PROVE  Sight!HistoryTellsTheHand
<1> SUFFICES ASSUME NEW a \in Seats PROVE Sight!HandByHistory(a) = Sight!View(a).hands[a]
  BY DEF Sight!HistoryTellsTheHand, Seats
<1> DEFINE cur == history.current
           report == Sight!HistoryView(a).events
           got(i) == IF report[i].kind = "start" THEN report[i].hands[a]
                     ELSE IF report[i].kind = "tsumo" /\ report[i].actor = a THEN report[i].tiles
                     ELSE {}
           shed(i) == IF report[i].kind \in {"dahai", "call", "ankan"} /\ report[i].actor = a
                      THEN report[i].tiles ELSE {}
           Took(i) == IF cur[i].kind = "start" THEN cur[i].hands[a]
                      ELSE IF cur[i].kind = "tsumo" /\ cur[i].actor = a THEN cur[i].tiles
                      ELSE {}
           Gave(i) == IF cur[i].kind \in {"dahai", "call", "ankan"} /\ cur[i].actor = a
                      THEN cur[i].tiles ELSE {}
<1>1. cur \in Hids /\ a \in Audiences /\ a # 0
  BY DEF Sight!ViewsInv, Sight!TypeOK, Sight!Histories, Hids, Evs, Audiences, Sight!Audiences,
     Seats, Sight!Seats
<1>2. report = [i \in DOMAIN cur |-> Sight!HistoryEvent(cur[i], a)]
  BY DEF Sight!HistoryView
<1>3. /\ Sight!HandByHistory(a) =
           (UNION {got(i) : i \in DOMAIN report}) \ UNION {shed(i) : i \in DOMAIN report}
      /\ Sight!Got(cur, a) = UNION {Took(i) : i \in DOMAIN cur}
      /\ Sight!Gone(cur, a) = UNION {Gave(i) : i \in DOMAIN cur}
  BY DEF Sight!HandByHistory, Sight!Got, Sight!Gone
<1> HIDE DEF report, cur
<1>4. ASSUME NEW i \in DOMAIN cur PROVE got(i) = Took(i) /\ shed(i) = Gave(i)
  <2>1. cur[i] \in Evs /\ report[i] = Sight!HistoryEvent(cur[i], a)
    BY <1>1, <1>2, EventOf
  <2> DEFINE x == report[i]
  <2>2. /\ x.kind = cur[i].kind /\ x.actor = cur[i].actor
        /\ x.tiles = IF cur[i].kind \in {"tsumo", "ankan"} /\ cur[i].actor # a THEN {}
                     ELSE cur[i].tiles
        /\ cur[i].kind = "start" => x.hands[a] = cur[i].hands[a]
    BY <1>1, <2>1, HistoryEventIs
  <2> QED
    BY <2>2
<1>5. DOMAIN report = DOMAIN cur
  BY <1>2
<1> HIDE DEF got, shed, Took, Gave
<1>6. /\ UNION {got(i) : i \in DOMAIN report} = UNION {Took(i) : i \in DOMAIN cur}
      /\ UNION {shed(i) : i \in DOMAIN report} = UNION {Gave(i) : i \in DOMAIN cur}
  BY <1>4, <1>5
<1>7. Sight!HandByHistory(a) = Sight!Got(cur, a) \ Sight!Gone(cur, a)
  BY <1>3, <1>6
<1>8. Sight!Table.hand[a] = Sight!Got(cur, a) \ Sight!Gone(cur, a)
  BY DEF Sight!ViewsInv, Sight!HandInv, Seats, cur
<1>9. Sight!View(a).hands[a] = Sight!Table.hand[a]
  BY DEF Sight!View, Seats
<1> QED
  BY <1>7, <1>8, <1>9

\* The results are filed as they are shown.
LEMMA ViewsFile ==
  ASSUME Sight!ViewsInv
  PROVE  Sight!ResultsAreFiled
<1> DEFINE p == Sight!Published(held)
<1>1. /\ Len(history.previous) = history.seq - 1 /\ history.seq \in Nat
      /\ \A i \in 1 .. Len(history.previous) :
           history.previous[i].seq = i /\ history.previous[i].settled
      /\ history.current # <<>>
  BY DEF Sight!ViewsInv, Sight!FiledInv, Sight!TypeOK, Sight!Histories
<1>2. CASE held.seq = 0
  <2>1. held = Sight!NoHold
    BY <1>2 DEF Sight!ViewsInv, Sight!TypeOK, Sight!Holds
  <2>2. ~p.settled
    BY <2>1, NothingPublished
  <2>3. Sight!Table = engine
    BY <1>2 DEF Sight!Table
  <2>4. engine.score = history.seq - (IF history.done.settled THEN 0 ELSE 1)
    BY <1>2 DEF Sight!ViewsInv, Sight!FiledInv
  <2>5. Sight!Table.score = Len(history.previous) + (IF history.done.settled \/ p.settled THEN 1 ELSE 0)
    BY <1>1, <2>2, <2>3, <2>4
  <2> QED
    BY <1>1, <1>2, <2>5 DEF Sight!ResultsAreFiled
<1>3. CASE held.seq # 0
  <2>1. held \in Sight!Holds
    BY <1>3 DEF Sight!ViewsInv, Sight!TypeOK, Sight!NoHold
  <2>2. p.seq = held.seq /\ (p.settled <=> held.next > Len(held.wins)) /\ p.settled \in BOOLEAN
    BY <2>1, PublishedIs
  <2>3. /\ history.seq = held.seq /\ ~history.done.settled
        /\ held.table.score = held.seq - (IF held.next > Len(held.wins) THEN 0 ELSE 1)
    BY <1>3 DEF Sight!ViewsInv, Sight!FiledInv
  <2>4. Sight!Table = held.table
    BY <1>3 DEF Sight!Table
  <2> HIDE DEF p
  <2>5. Sight!Table.score = Len(history.previous) + (IF history.done.settled \/ p.settled THEN 1 ELSE 0)
    BY <1>1, <2>2, <2>3, <2>4
  <2>6. p.settled => Sight!Archivable(history, p)
    BY <1>1, <2>2, <2>3 DEF Sight!Archivable
  <2> QED
    BY <1>1, <2>2, <2>3, <2>5, <2>6 DEF Sight!ResultsAreFiled, p
<1> QED
  BY <1>2, <1>3

\* No view of a Match, neither the table, the history of the Room, the events of the Mjai
\* protocol nor what the socket of a Human shows, has a tile in it that its audience may
\* not know, though the engine plays on into the next Kyoku while results are shown
\* (projection.rs, room.rs project_history_event, mjai event_for_player, http.rs
\* visible_game_event).
THEOREM ViewsShowNoMore ==
  ASSUME Sight!Assumption
  PROVE  Sight!Spec => []Sight!SeesOnlyWhatItMay
<1>1. Sight!Init => Sight!ViewsInv
  BY InitViews
<1>2. Sight!ViewsInv /\ [Sight!Next]_(Sight!vars) => Sight!ViewsInv'
  BY NextKeepsViews
<1>3. Sight!ViewsInv => Sight!SeesOnlyWhatItMay
  BY ViewsShowWhatTheyMay
<1> QED
  BY <1>1, <1>2, <1>3, PTL DEF Sight!Spec

\* The views agree: a hand that is followed through the history is the hand that is shown,
\* the results of every Kyoku are filed once, in order and with the scores they led to, and
\* a socket that has read everything shows the table as it is (match_machine.rs project,
\* room.rs record_history, archive_published, publish).
THEOREM ViewsFit ==
  ASSUME Sight!Assumption
  PROVE  Sight!Spec => []Sight!ViewsAgree
<1>1. Sight!Init => Sight!ViewsInv
  BY InitViews
<1>2. Sight!ViewsInv /\ [Sight!Next]_(Sight!vars) => Sight!ViewsInv'
  BY NextKeepsViews
<1>3. Sight!ViewsInv => Sight!ViewsAgree
  BY HistoryTells, ViewsFile DEF Sight!ViewsInv, Sight!ViewsAgree
<1> QED
  BY <1>1, <1>2, <1>3, PTL DEF Sight!Spec

=============================================================================
