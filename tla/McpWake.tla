------------------------------ MODULE McpWake ------------------------------
(***************************************************************************)
(* How an MCP agent is woken (crates/double_riichi_server/src/mcp.rs): the *)
(* Room tells its subscribers what happened, a watcher turns each event and*)
(* the Room's state at the moment it looks into a revision and a reason,   *)
(* and wait_for_turn sleeps until the revision passes the one the agent has*)
(* seen.  A second task serves an agent that listens for notifications, and*)
(* records in the same place.                                              *)
(*                                                                         *)
(* The agent reads its state after each answer and waits after the revision*)
(* it has read, or acts if the state shows a Decision of its own.          *)
(***************************************************************************)
EXTENDS Naturals, Sequences

CONSTANTS
  Tasks,  \* {"watcher"}, or with the task of a listening agent, "listener"
  Queue,  \* events a subscriber may be behind (64 in the code)
  MaxRev  \* bound: revisions of the Room

Assumption ==
  /\ "watcher" \in Tasks /\ Tasks \subseteq {"watcher", "listener"}
  /\ Queue \in Nat /\ MaxRev \in Nat

VARIABLES
  rev,    \* the revision of the Room
  mine,   \* the Room waits for an action of the agent
  gone,   \* the Room is deleted or the server shuts down
  events, \* what each task has still to receive
  lost,   \* subscribers the Room dropped
  busy,   \* the event each task has received and not yet recorded
  wake,   \* RevisionWake
  agent,  \* what the agent does
  told    \* the listener has notified the agent of the open Decision

vars == <<rev, mine, gone, events, lost, busy, wake, agent, told>>

Reasons == {"round", "opponent_riichi", "my_decision"}
Kinds == Reasons \cup {"other", "end", "nothing"}

TypeOK ==
  /\ rev \in 0..MaxRev /\ mine \in BOOLEAN /\ gone \in BOOLEAN
  /\ events \in [Tasks -> Seq(Kinds)] /\ \A t \in Tasks : Len(events[t]) <= Queue
  /\ lost \subseteq Tasks /\ busy \in [Tasks -> Kinds]
  /\ wake \in [rev : 0..(MaxRev + 1), reason : Reasons \cup {"timeout", "end"}, terminal : BOOLEAN]
  /\ agent \in [pc : {"read", "act", "look", "enabled", "sleep", "over"}, seen : 0..(MaxRev + 1),
                notified : BOOLEAN]
  /\ told \in BOOLEAN

\* join_room has attached the watcher to a Room whose Match runs.
Init ==
  /\ rev = 0 /\ mine = FALSE /\ gone = FALSE
  /\ events = [t \in Tasks |-> <<>>] /\ lost = {}
  /\ busy = [t \in Tasks |-> "nothing"]
  /\ wake = [rev |-> 0, reason |-> "timeout", terminal |-> FALSE]
  /\ agent = [pc |-> "read", seen |-> 0, notified |-> FALSE]
  /\ told = FALSE

-----------------------------------------------------------------------------
(* The Room *)

\* RoomActor::publish: a subscriber whose queue is full is dropped.
Publish(news) ==
  LET fits(t) == t \notin lost /\ Len(events[t]) + Len(news) <= Queue IN
  /\ events' = [t \in Tasks |-> IF fits(t) THEN events[t] \o news ELSE events[t]]
  /\ lost' = {t \in Tasks : ~fits(t)}

\* An action is resolved, or a Decision times out; the next Decision opens in
\* the same revision, and may be the agent's.
Resolved(reason) ==
  \E next \in BOOLEAN :
    /\ ~gone /\ rev < MaxRev
    /\ rev' = rev + 1 /\ mine' = next /\ told' = FALSE
    /\ Publish(<<reason>> \o IF next THEN <<"my_decision">> ELSE <<>>)
    /\ UNCHANGED <<gone, busy, wake>>

RoomResolves ==
  /\ \E reason \in Kinds \ {"my_decision", "end", "nothing"} : Resolved(reason)
  /\ UNCHANGED agent

\* Somebody joins, leaves or reconnects while the Decision is open.
RoomChanges ==
  /\ ~gone /\ rev < MaxRev
  /\ rev' = rev + 1
  /\ Publish(<<"other">>)
  /\ UNCHANGED <<mine, gone, busy, wake, agent, told>>

RoomEnds ==
  /\ ~gone /\ gone' = TRUE /\ mine' = FALSE
  /\ Publish(<<"end">>)
  /\ UNCHANGED <<rev, busy, wake, agent, told>>

-----------------------------------------------------------------------------
(* The watcher and the listener *)

Receive(t) ==
  /\ busy[t] = "nothing" /\ events[t] # <<>>
  /\ busy' = [busy EXCEPT ![t] = Head(events[t])]
  /\ events' = [events EXCEPT ![t] = Tail(@)]
  /\ UNCHANGED <<rev, mine, gone, lost, wake, agent, told>>

\* notify_waiters reaches who has enabled its notification.
Notify == agent' = [agent EXCEPT !.notified = @ \/ agent.pc \in {"enabled", "sleep"}]


\* RevisionWake::record: a newer revision, or the agent's Decision with the same.
Records(reason) ==
  /\ ~wake.terminal /\ reason \in Reasons
  /\ \/ rev > wake.rev
     \/ rev = wake.rev /\ reason = "my_decision" /\ wake.reason # "my_decision"

\* watcher_reason with the revision the Room has now, then the record; the
\* listener notifies only of what it recorded itself.
Record(t) ==
  /\ busy[t] \in Reasons \cup {"other"}
  /\ busy' = [busy EXCEPT ![t] = "nothing"]
  /\ IF ~gone /\ Records(busy[t])
     THEN /\ wake' = [rev |-> rev, reason |-> busy[t], terminal |-> FALSE]
          /\ told' = (told \/ (t = "listener" /\ busy[t] = "my_decision"))
          /\ Notify
     ELSE UNCHANGED <<wake, told, agent>>
  /\ UNCHANGED <<rev, mine, gone, events, lost>>

\* record_terminal: one more than the last revision recorded.
RecordEnd(t) ==
  /\ busy[t] = "end"
  /\ busy' = [busy EXCEPT ![t] = "nothing"]
  /\ IF wake.terminal THEN UNCHANGED <<wake, agent>>
     ELSE wake' = [rev |-> wake.rev + 1, reason |-> "end", terminal |-> TRUE] /\ Notify
  /\ UNCHANGED <<rev, mine, gone, events, lost, told>>

-----------------------------------------------------------------------------
(* The agent *)

Goes(pc) == agent' = [agent EXCEPT !.pc = pc]

ReadState ==
  /\ agent.pc = "read"
  /\ agent' = [pc |-> IF gone THEN "over" ELSE IF mine THEN "act" ELSE "look", seen |-> rev,
               notified |-> FALSE]
  /\ UNCHANGED <<rev, mine, gone, events, lost, busy, wake, told>>

\* submit_action; the Decision may be gone already.
Act ==
  /\ agent.pc = "act"
  /\ \/ mine /\ (\E reason \in {"other", "round"} : Resolved(reason)) /\ Goes("read")
     \/ ~mine /\ Goes("read") /\ UNCHANGED <<rev, mine, gone, events, lost, busy, wake, told>>

Due == wake.rev > agent.seen \/ wake.terminal

\* wait_until: a look, the notification, and a second look before the sleep.
Look ==
  /\ agent.pc = "look"
  /\ Goes(IF Due THEN "read" ELSE "enabled")
  /\ UNCHANGED <<rev, mine, gone, events, lost, busy, wake, told>>

\* Slip: the notification is made when the agent goes to sleep.
SleepLate ==
  /\ agent.pc = "enabled"
  /\ agent' = [agent EXCEPT !.pc = "sleep", !.notified = FALSE]
  /\ UNCHANGED <<rev, mine, gone, events, lost, busy, wake, told>>

Sleep ==
  /\ agent.pc = "enabled"
  /\ Goes(IF Due THEN "read" ELSE "sleep")
  /\ UNCHANGED <<rev, mine, gone, events, lost, busy, wake, told>>

Wake ==
  /\ agent.pc = "sleep" /\ agent.notified
  /\ agent' = [pc |-> "look", seen |-> agent.seen, notified |-> FALSE]
  /\ UNCHANGED <<rev, mine, gone, events, lost, busy, wake, told>>

\* The longest wait is over; the answer says "timeout".
Timeout ==
  /\ agent.pc = "sleep"
  /\ Goes("read")
  /\ UNCHANGED <<rev, mine, gone, events, lost, busy, wake, told>>

-----------------------------------------------------------------------------

Next ==
  \/ RoomResolves \/ RoomChanges \/ RoomEnds
  \/ \E t \in Tasks : Receive(t) \/ Record(t) \/ RecordEnd(t)
  \/ ReadState \/ Act \/ Look \/ Sleep \/ Wake \/ Timeout

Spec == Init /\ [][Next]_vars

-----------------------------------------------------------------------------
(* Properties *)

\* The task has received and recorded everything, and did not fall behind.
Served(t) == t \notin lost /\ busy[t] = "nothing" /\ events[t] = <<>>

\* An agent does not sleep through its Decision or the end of the Room, when-
\* ever it looked, read or fell asleep (mcp.rs wait_until, attach_watcher).  A
\* watcher that falls too far behind ends, and the agent has only its timeout.
SleeperHasNothingToDo ==
  agent.pc = "sleep" /\ ~agent.notified /\ Served("watcher") => ~mine /\ ~gone

\* What the agent is told last while it has a Decision is that it has one, also
\* when another reason came with the same revision (mcp.rs record).
DecisionIsTheReason ==
  Tasks = {"watcher"} /\ Served("watcher") /\ mine => wake.reason = "my_decision"

AgentsAreWoken == SleeperHasNothingToDo /\ DecisionIsTheReason

\* The inductive invariant behind both.  An agent that waits has read a state in which
\* it had no Decision; one that sleeps unnotified has nothing new to see.
Waits == agent.pc \in {"look", "enabled", "sleep"}

AgentInv ==
  /\ agent.seen <= rev /\ (mine /\ Waits => agent.seen < rev)
  /\ agent.pc = "sleep" /\ ~agent.notified => ~Due
  /\ (~wake.terminal => wake.rev <= rev) /\ (wake.terminal => gone) /\ (gone => ~mine)

\* The agent's Decision is the last news on the way, or recorded.
DecisionOnTheWay(t) ==
  \/ \E k \in 1..Len(events[t]) :
       events[t][k] = "my_decision" /\ \A j \in (k + 1)..Len(events[t]) : events[t][j] = "other"
  \/ /\ busy[t] = "my_decision"
     /\ \A j \in 1..Len(events[t]) : events[t][j] = "other"

DecisionRecorded(t) ==
  /\ busy[t] \in {"other", "nothing"} /\ \A j \in 1..Len(events[t]) : events[t][j] = "other"
  /\ Waits => wake.rev > agent.seen
  /\ Tasks = {t} => wake.reason = "my_decision"

HasEnd(t) == busy[t] = "end" \/ \E k \in 1..Len(events[t]) : events[t][k] = "end"

NewsInv(t) ==
  /\ t \notin lost /\ mine => DecisionOnTheWay(t) \/ DecisionRecorded(t)
  /\ t \notin lost /\ gone => wake.terminal \/ HasEnd(t)
  /\ HasEnd(t) => gone

WakeInv == TypeOK /\ AgentInv /\ \A t \in Tasks : NewsInv(t)

\* A listening agent is notified of its Decision (spec/implementation-v1.md,
\* 16.4).
ListenersAreTold == "listener" \in Tasks /\ Served("listener") /\ mine => told
=============================================================================
