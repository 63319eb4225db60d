------------------------------- MODULE Compat -------------------------------
(***************************************************************************)
(* The two halves of the compatibility server: the queue that forms its     *)
(* Matches and the actor that plays one.  The queue sees a Match only as    *)
(* the slot it holds, the actor sees the queue only as an abort, so a       *)
(* behaviour is one of them alone, and `part` names it.                     *)
(***************************************************************************)
EXTENDS Integers, FiniteSets

CONSTANT Parts   \* the halves that are looked at

\* The queue
CONSTANTS
  C, Token, TokenOf, KindOf, Quitters, Revocable, MaxInterruptions, BatchSize, MaxActive, MaxQueue

VARIABLES at, verdict, told, queue, batch, slots, timer, calls, active, notices, down

\* The Match
CONSTANTS Seats, Bots, Grace, Bank, TurnTime, MaxKyoku, MaxTurns, MayFail

VARIABLES
  pc, outcome, machine, link, notice, activeSeats, pending, bank, cursor, mark, replay, row,
  file, cleanup, degraded

VARIABLE part

Queue == INSTANCE RankedQueue

Match == INSTANCE CompatMatch

ASSUME QueueAssumption == Queue!Assumption
ASSUME MatchAssumption == Match!Assumption

queueVars == <<at, verdict, told, queue, batch, slots, timer, calls, active, notices, down>>
matchVars ==
  <<pc, outcome, machine, link, notice, activeSeats, pending, bank, cursor, mark, replay, row,
    file, cleanup, degraded>>
vars == <<part, queueVars, matchVars>>

\* The half that is not looked at.
NoQueue ==
  /\ at = "none" /\ verdict = "none" /\ told = "none" /\ queue = "none" /\ batch = "none"
  /\ slots = "none" /\ timer = "none" /\ calls = "none" /\ active = "none"
  /\ notices = "none" /\ down = "none"

NoMatch ==
  /\ pc = "none" /\ outcome = "none" /\ machine = "none" /\ link = "none" /\ notice = "none"
  /\ activeSeats = "none" /\ pending = "none" /\ bank = "none" /\ cursor = "none"
  /\ mark = "none" /\ replay = "none" /\ row = "none" /\ file = "none"
  /\ cleanup = "none" /\ degraded = "none"

Init ==
  /\ part \in Parts
  /\ \/ part = "queue" /\ Queue!Init /\ NoMatch
     \/ part = "match" /\ Match!Init /\ NoQueue

OfQueue(action) == part = "queue" /\ action /\ UNCHANGED <<part, matchVars>>
OfMatch(action) == part = "match" /\ action /\ UNCHANGED <<part, queueVars>>

Next == OfQueue(Queue!Next) \/ OfMatch(Match!Next)

\* Every behaviour of either half is finite but for stuttering, so this is the weak
\* fairness of each task.
Spec == Init /\ [][Next]_vars /\ WF_vars(OfQueue(Queue!System) \/ OfMatch(Match!System))

-----------------------------------------------------------------------------

\* The Matches under way are those that hold a slot, never more than max_active,
\* and no Bot Token is in two of them (compat.rs start_batch, release_slot).
SlotsAreSound == part = "queue" => Queue!Capacity /\ Queue!OneMatchPerToken

\* A revocation that is delivered and a shutdown reach every connection and every
\* Match, wherever the start of the batch was (compat.rs deliver_revocation,
\* shutdown, the second and third lock of start_batch).
InterruptionsReachAll ==
  part = "queue" => Queue!RevokedStaysOut /\ Queue!ShutdownReachesEveryMatch

\* A completed ranked replay is whole, and one that is given up leaves no row
\* without a report (compat.rs CompatMatch::run, CompatReplay).
ReplaysAreKeptOrReported ==
  part = "match" => Match!CompletedReplayIsWhole /\ Match!NoRowLeftSilently

\* No Bot is asked twice for one Decision, and no reply meets another one
\* (compat.rs CompatMatch::collect, MjaiAdapter::submit_reply).
RequestsAreOwed == part = "match" => Match!RequestsAreOwed

\* Every Bot that joined the queue is answered in the end: it plays, is refused, or
\* is told of the revocation or of the shutdown, unless it has gone away (compat.rs
\* start_ranked_timer, restart_ranked_timer, run_waiting_socket).
WaitersAreAnswered == <>[](part = "queue" => Queue!NobodyWaits)

\* Every Match ends, whatever its Bots do or leave undone.
MatchEnds == <>(part = "match" => Match!Over)

\* Once the Match plays, a Bot that goes away does not end it for the others:
\* it is played automatically from then on (spec/implementation-v1.md, 14.2).
MatchOutlivesItsBots ==
  [][part = "match" => Match!OutlivesItsBots]_vars
=============================================================================
