---------------------------- MODULE ServicesProofs ----------------------------
(***************************************************************************)
(* The theorems about the components, carried over to the parts of         *)
(* Services: each property that Services states of its parts holds for     *)
(* every value of the constants.  A part behaves as its component does,    *)
(* and the names of a component mean the same wherever it is instantiated, *)
(* which the first steps of each lemma establish by their definitions.     *)
(***************************************************************************)
EXTENDS Services, Sequences, TLAPS

-----------------------------------------------------------------------------
(* The parts: a behaviour stays the part it is.  The theorems are carried over component by
   component, each instance of them before the parts it is for. *)

\* The theorems about what is written down of what was done.
Admins == INSTANCE RecordProofs WITH
  R <- AuditSize.R, kind <- v1, pc <- v2, mutex <- v3, pending <- v4, log <- v5, done <- v6,
  queued <- v7, flushing <- v8, up <- v9, F <- OAuthSize.F, Q <- OAuthSize.Q,
  MaxPending <- OAuthSize.MaxPending, FlowLife <- OAuthSize.FlowLife,
  CodeLife <- OAuthSize.CodeLife, AccessLife <- OAuthSize.AccessLife,
  FamilyLife <- OAuthSize.FamilyLife, MaxPairs <- OAuthSize.MaxPairs,
  MaxTime <- OAuthSize.MaxTime, now <- v1, shown <- v2, flow <- v3, code <- v4, family <- v5,
  pair <- v6, request <- v7, held <- v8, replayed <- v9, Target <- BenchSize.Target,
  Queue <- BenchSize.Queue, process <- v1, room <- v2, actor <- v3, answer <- v4, queue <- v5,
  stray <- v6, mail <- v7, run <- v8, matches <- v9, counted <- v10, files <- v11, heard <- v12,
  N <- ResultsSize.N, Kyokus <- ResultsSize.Kyokus, Wall <- ResultsSize.Wall,
  Points0 <- ResultsSize.Points0, Draws <- ResultsSize.Draws, engine <- v1, events <- v2,
  records <- v3, status <- v4

\* The grants of the gateway.
LEMMA OAuthHolds ==
  Spec => [](part = "oauth" => OAuth!GrantsAreSound)
<1>1. Admins!OAuth!Assumption
  BY SMTT(30), OAuthAssumption DEF OAuth!Assumption, OAuth!IsFiniteSet, Admins!OAuth!Assumption,
         Admins!OAuth!IsFiniteSet
<1> DEFINE Here == part = "oauth"
<1>2. Init /\ Here => Admins!OAuth!Init
  <2>1. OAuth!Init => Admins!OAuth!Init
    BY DEF OAuth!Idle, OAuth!Init, Admins!OAuth!Idle, Admins!OAuth!Init
  <2> QED
    BY <2>1 DEF Init
<1>3. Here /\ [Next]_vars => [Admins!OAuth!Next]_(Admins!OAuth!vars)
  <2>1. OAuth!Next => Admins!OAuth!Next
    BY DEF OAuth!Answered, OAuth!AskExchange, OAuth!AskRotate, OAuth!Cardinality, OAuth!Codes,
         OAuth!Consent, OAuth!Evicted, OAuth!Exchange, OAuth!Idle, OAuth!Issue, OAuth!Name,
         OAuth!NewPair, OAuth!Next, OAuth!Open, OAuth!Pairs, OAuth!Register, OAuth!Replay,
         OAuth!Room, OAuth!Rotate, OAuth!Rotates, OAuth!Smaller, OAuth!Tick,
         Admins!OAuth!Answered, Admins!OAuth!AskExchange, Admins!OAuth!AskRotate,
         Admins!OAuth!Cardinality, Admins!OAuth!Codes, Admins!OAuth!Consent,
         Admins!OAuth!Evicted, Admins!OAuth!Exchange, Admins!OAuth!Idle, Admins!OAuth!Issue,
         Admins!OAuth!Name, Admins!OAuth!NewPair, Admins!OAuth!Next, Admins!OAuth!Open,
         Admins!OAuth!Pairs, Admins!OAuth!Register, Admins!OAuth!Replay, Admins!OAuth!Room,
         Admins!OAuth!Rotate, Admins!OAuth!Rotates, Admins!OAuth!Smaller, Admins!OAuth!Tick
  <2>2. UNCHANGED vars => UNCHANGED Admins!OAuth!vars
    BY DEF Admins!OAuth!vars, vars, last7
  <2> QED
    BY <2>1, <2>2, SMTT(30) DEF Next
<1>4. Admins!OAuth!GrantsAreSound
        => OAuth!GrantsAreSound
  BY DEF OAuth!Accepted, OAuth!GrantsAreSound, OAuth!GrantsEnd, OAuth!RedeemedOnce,
         OAuth!ReplayEndsTheFamily, OAuth!Rotates, Admins!OAuth!Accepted,
         Admins!OAuth!GrantsAreSound, Admins!OAuth!GrantsEnd, Admins!OAuth!RedeemedOnce,
         Admins!OAuth!ReplayEndsTheFamily, Admins!OAuth!Rotates
<1>5. Admins!OAuth!Spec => [](Admins!OAuth!GrantsAreSound)
  BY <1>1, Admins!GrantsHold, PTL
<1>6. /\ Here /\ [Next]_vars => Here'
      /\ ~Here /\ [Next]_vars => (~Here)'
  BY DEF Next, vars
<1>7. Spec => [](Here => OAuth!GrantsAreSound)
  <2> HIDE DEF Here
  <2> QED
    BY <1>2, <1>3, <1>4, <1>5, <1>6, PTL DEF Spec, Admins!OAuth!Spec
<1> QED
  BY <1>7

\* The audit of the Admin.
LEMMA AuditHolds == Spec => AuditIsSound
<1> DEFINE Here == part = "audit"
<1>2. Init /\ Here => Admins!Audit!Init
  <2>1. Audit!Init => Admins!Audit!Init
    BY DEF Audit!Init, Audit!Kinds, Admins!Audit!Init, Admins!Audit!Kinds
  <2> QED
    BY <2>1 DEF Init
<1>3. Here /\ [Next]_vars => [Admins!Audit!Next]_(Admins!Audit!vars)
  <2>1. Audit!Next => Admins!Audit!Next
    BY DEF Audit!Announce, Audit!Begin, Audit!Cancel, Audit!Complete, Audit!Crash,
         Audit!CreateRoom, Audit!DeleteRoom, Audit!Drop, Audit!Flush, Audit!FlushFails,
         Audit!Flushed, Audit!Goes, Audit!Next, Audit!Prepared, Audit!Restart, Audit!Retry,
         Audit!RoomActsLate, Audit!RoomCommand, Audit!Row, Audit!Session, Audit!vars,
         Admins!Audit!Announce, Admins!Audit!Begin, Admins!Audit!Cancel, Admins!Audit!Complete,
         Admins!Audit!Crash, Admins!Audit!CreateRoom, Admins!Audit!DeleteRoom,
         Admins!Audit!Drop, Admins!Audit!Flush, Admins!Audit!FlushFails, Admins!Audit!Flushed,
         Admins!Audit!Goes, Admins!Audit!Next, Admins!Audit!Prepared, Admins!Audit!Restart,
         Admins!Audit!Retry, Admins!Audit!RoomActsLate, Admins!Audit!RoomCommand,
         Admins!Audit!Row, Admins!Audit!Session, Admins!Audit!vars
  <2>2. UNCHANGED vars => UNCHANGED Admins!Audit!vars
    BY DEF Admins!Audit!vars, vars, last7
  <2> QED
    BY <2>1, <2>2 DEF Next
<1>4. /\ Admins!Audit!DoneIsAudited => Audit!DoneIsAudited
      /\ Admins!Audit!StaysOut => Audit!StaysOut
  BY DEF Audit!DoneIsAudited, Audit!StaysOut, Admins!Audit!DoneIsAudited,
         Admins!Audit!StaysOut
<1>5. UNCHANGED Admins!Audit!vars => Audit!StaysOut
  BY DEF Admins!Audit!vars, Audit!StaysOut
<1>6. /\ Here /\ [Next]_vars => Here'
      /\ ~Here /\ [Next]_vars => (~Here)'
  BY DEF Next, vars
<1>7. Spec => [](Here => Audit!DoneIsAudited) /\ [][Here => Audit!StaysOut]_vars
  <2> HIDE DEF Here
  <2> QED
    BY <1>2, <1>3, <1>4, <1>5, <1>6, Admins!AuditIsKept, PTL
    DEF Spec, Admins!Audit!Spec, Admins!Audit!AuditIsSound
<1> QED
  BY <1>7 DEF AuditIsSound

\* A Run of Benchmark Mode.
LEMMA BenchHolds ==
  Spec => [](part = "benchmark" => Bench!IsTruthful)
<1>1. Admins!Bench!Assumption
  BY BenchAssumption DEF Bench!Assumption, Admins!Bench!Assumption
<1> DEFINE Here == part = "benchmark"
<1>2. Init /\ Here => Admins!Bench!Init
  <2>1. Bench!Init => Admins!Bench!Init
    BY DEF Bench!Init, Bench!M, Admins!Bench!Init, Admins!Bench!M
  <2> QED
    BY <2>1 DEF Init
<1>3. Here /\ [Next]_vars => [Admins!Bench!Next]_(Admins!Bench!vars)
  <2>1. Bench!Next => Admins!Bench!Next
    BY DEF Bench!Abort, Bench!Answered, Bench!Answers, Bench!AppendLines, Bench!Await,
         Bench!CleanedUp, Bench!Cleanup, Bench!Crash, Bench!CreateRun, Bench!Created,
         Bench!Delete, Bench!Effect, Bench!EndRun, Bench!Ended, Bench!Erase, Bench!Failure,
         Bench!Finalize, Bench!Finalized, Bench!Finish, Bench!FlushKyoku, Bench!Flushed,
         Bench!Goes, Bench!LoseParticipant, Bench!M, Bench!Next, Bench!NextMatch, Bench!Open,
         Bench!OpenReplay, Bench!Opened, Bench!Play, Bench!Ready, Bench!Restart, Bench!Running,
         Bench!SendDelete, Bench!Shutdown, Bench!Spoil, Bench!StartBenchmark,
         Bench!StopBenchmark, Bench!TimeOut, Bench!Timed, Bench!Unawaited, Bench!Work,
         Bench!disk, Bench!worker, Admins!Bench!Abort, Admins!Bench!Answered,
         Admins!Bench!Answers, Admins!Bench!AppendLines, Admins!Bench!Await,
         Admins!Bench!CleanedUp, Admins!Bench!Cleanup, Admins!Bench!Crash,
         Admins!Bench!CreateRun, Admins!Bench!Created, Admins!Bench!Delete,
         Admins!Bench!Effect, Admins!Bench!EndRun, Admins!Bench!Ended, Admins!Bench!Erase,
         Admins!Bench!Failure, Admins!Bench!Finalize, Admins!Bench!Finalized,
         Admins!Bench!Finish, Admins!Bench!FlushKyoku, Admins!Bench!Flushed, Admins!Bench!Goes,
         Admins!Bench!LoseParticipant, Admins!Bench!M, Admins!Bench!Next,
         Admins!Bench!NextMatch, Admins!Bench!Open, Admins!Bench!OpenReplay,
         Admins!Bench!Opened, Admins!Bench!Play, Admins!Bench!Ready, Admins!Bench!Restart,
         Admins!Bench!Running, Admins!Bench!SendDelete, Admins!Bench!Shutdown,
         Admins!Bench!Spoil, Admins!Bench!StartBenchmark, Admins!Bench!StopBenchmark,
         Admins!Bench!TimeOut, Admins!Bench!Timed, Admins!Bench!Unawaited, Admins!Bench!Work,
         Admins!Bench!disk, Admins!Bench!worker
  <2>2. UNCHANGED vars => UNCHANGED Admins!Bench!vars
    BY DEF Admins!Bench!vars, vars, last7
  <2> QED
    BY <2>1, <2>2, SMTT(30) DEF Next
<1>4. Admins!Bench!IsTruthful
        => Bench!IsTruthful
  BY DEF Bench!CountedMatchesAreKept, Bench!CountsAgree, Bench!EndIsTruthful, Bench!IsTruthful,
         Bench!M, Bench!Running, Bench!StopIsHeard, Admins!Bench!CountedMatchesAreKept,
         Admins!Bench!CountsAgree, Admins!Bench!EndIsTruthful, Admins!Bench!IsTruthful,
         Admins!Bench!M, Admins!Bench!Running, Admins!Bench!StopIsHeard
<1>5. Admins!Bench!Spec => [](Admins!Bench!IsTruthful)
  BY <1>1, Admins!RunsAreTruthful, PTL
<1>6. /\ Here /\ [Next]_vars => Here'
      /\ ~Here /\ [Next]_vars => (~Here)'
  BY DEF Next, vars
<1>7. Spec => [](Here => Bench!IsTruthful)
  <2> HIDE DEF Here
  <2> QED
    BY <1>2, <1>3, <1>4, <1>5, <1>6, PTL DEF Spec, Admins!Bench!Spec
<1> QED
  BY <1>7

\* The engine and the adapter mean the same, wherever the names are from.
LEMMA ResultsMean ==
  /\ \A scores : Results!Top(scores) = Admins!Top(scores)
  /\ \A r : Results!RecordValid(r) <=> Admins!RecordValid(r)
  /\ Results!Act <=> Admins!Act
  /\ Results!Respond <=> Admins!Respond
<1>1. \A scores : Results!Top(scores) = Admins!Top(scores)
  BY DEF
         Results!Seats, Results!Top, Admins!Seats, Admins!Top
<1>2. \A e : Results!Dealt(e) = Admins!Dealt(e)
  BY DEF
         Results!Dealt, Results!Logged, Results!Seats, Results!StartKyoku, Results!Zero,
         Admins!Dealt, Admins!Logged, Admins!Seats, Admins!StartKyoku, Admins!Zero
<1>3. \A e : Results!Accepted(e) = Admins!Accepted(e)
  BY DEF
         Results!Accepted, Results!Logged, Results!Stick, Admins!Accepted, Admins!Logged,
         Admins!Stick
<1>4. \A e, reason, payments, delta :
        Results!Draw(e, reason, payments, delta)
          = Admins!Draw(e, reason, payments, delta)
  BY DEF
         Results!Draw, Results!Logged, Results!Over, Results!Plus, Results!Seats, Admins!Draw,
         Admins!Logged, Admins!Over, Admins!Plus, Admins!Seats
<1>5. \A e, luck : Results!Exhausted(e, luck) = Admins!Exhausted(e, luck)
  BY <1>4 DEF
         Results!Cardinality, Results!Exhausted, Results!Plus, Results!Seats, Results!Zero,
         Admins!Cardinality, Admins!Exhausted, Admins!Plus, Admins!Seats, Admins!Zero
<1>6. \A e, luck : Results!Passed(e, luck) = Admins!Passed(e, luck)
  BY <1>3, <1>5, <1>4 DEF
         Results!Is, Results!Logged, Results!Passed, Results!Seats, Results!Zero, Admins!Is,
         Admins!Logged, Admins!Passed, Admins!Seats, Admins!Zero
<1>7. \A e, w : Results!Won(e, w) = Admins!Won(e, w)
  BY DEF
         Results!Logged, Results!Plus, Results!Seats, Results!Share, Results!Stick,
         Results!WinPoints, Results!Won, Admins!Logged, Admins!Plus, Admins!Seats, Admins!Share,
         Admins!Stick, Admins!WinPoints, Admins!Won
<1>8. \A e, ws : Results!Winners(e, ws) = Admins!Winners(e, ws)
  <2> TAKE e, ws
  <2> DEFINE after(s) == (s - e.turn + ResultsSize.N) % ResultsSize.N
             first == CHOOSE s \in ws : \A o \in ws : after(s) <= after(o)
             other == CHOOSE s \in ws : s # first
             over(won, dealer, honba) ==
               [won EXCEPT !.phase = "over", !.dealer = dealer, !.honba = honba]
             next(won) == IF e.dealer \in ws THEN over(won, e.dealer, e.honba + 1)
                          ELSE over(won, (e.dealer % ResultsSize.N) + 1, 0)
  <2>1. Results!Winners(e, ws)
          = next(IF ws = {first} THEN Results!Won(e, first)
                 ELSE Results!Won(Results!Won(e, first), other))
    BY DEF Results!Winners, Results!Over, Results!NextDealer
  <2>2. Admins!Winners(e, ws)
          = next(IF ws = {first} THEN Admins!Won(e, first)
                 ELSE Admins!Won(Admins!Won(e, first), other))
    BY DEF Admins!Winners, Admins!Over, Admins!NextDealer
  <2> HIDE DEF first, other, next
  <2> QED
    BY <1>7, <2>1, <2>2
<1>9. \A e, single : Results!Ended(e, single) = Admins!Ended(e, single)
  BY <1>2, <1>1 DEF
         Results!Ended, Results!Is, Results!Logged, Results!Seats, Results!Stick, Admins!Ended,
         Admins!Is, Admins!Logged, Admins!Seats, Admins!Stick
<1>10. \A e, command, luck : Results!Step(e, command, luck) = Admins!Step(e, command, luck)
  BY <1>6, <1>4, <1>8 DEF
         Results!Is, Results!Logged, Results!Seats, Results!Step, Results!Zero, Admins!Is,
         Admins!Logged, Admins!Seats, Admins!Step, Admins!Zero
<1>11. \A e, single, batch, luck :
        Results!Run(e, single, batch, luck)
          = Admins!Run(e, single, batch, luck)
  BY <1>10, <1>9 DEF
         Results!Run, Admins!Run
<1>12. \A copy, real, new :
        Results!CaptureAgrees(copy, real, new)
          <=> Admins!CaptureAgrees(copy, real, new)
  BY DEF
         Results!At, Results!AwardedByEnd, Results!CaptureAgrees, Results!Cardinality,
         Results!Has, Results!Nth, Results!Only, Results!Seats, Results!Stick,
         Results!Terminals, Results!Top, Admins!At, Admins!AwardedByEnd, Admins!CaptureAgrees,
         Admins!Cardinality, Admins!Has, Admins!Nth, Admins!Only, Admins!Seats, Admins!Stick,
         Admins!Terminals, Admins!Top
<1>13. \A before, copy, real, new, sequence, first :
        Results!ResultRecord(before, copy, real, new, sequence, first)
          = Admins!ResultRecord(before, copy, real, new, sequence, first)
  BY DEF
         Results!Adjustment, Results!Agreed, Results!At, Results!Cardinality, Results!Less,
         Results!Nth, Results!ResultRecord, Results!Seats, Results!Settled, Results!Share,
         Results!WinPoints, Results!WinRecord, Admins!Adjustment, Admins!Agreed, Admins!At,
         Admins!Cardinality, Admins!Less, Admins!Nth, Admins!ResultRecord, Admins!Seats,
         Admins!Settled, Admins!Share, Admins!WinPoints, Admins!WinRecord
<1>14. \A r : Results!RecordValid(r) <=> Admins!RecordValid(r)
  BY DEF
         Results!RecordValid, Results!Seats, Results!Share, Results!WinPoints, Results!WinValid,
         Admins!RecordValid, Admins!Seats, Admins!Share, Admins!WinPoints, Admins!WinValid
<1>15. \A batch, luck : Results!Apply(batch, luck) <=> Admins!Apply(batch, luck)
  <2> TAKE batch, luck
  <2> DEFINE real == Results!Run(v1, FALSE, batch, luck)
             copy == Results!Run(v1, TRUE, batch, luck)
             sequence == Results!Cardinality({i \in DOMAIN v2 : v2[i].kind \in {"start_kyoku"}})
             record == Results!ResultRecord(v1, copy, real, real.log, sequence, Len(v2) + 1)
             ends(x) == \E i \in DOMAIN x.log : x.log[i].kind = "end_kyoku"
             paid(r) == \A i \in DOMAIN r.wins : r.wins[i].agreed
             files(x, r, fits) ==
               /\ v4 = "ok" /\ ~v1.done /\ v1' = [x EXCEPT !.log = <<>>]
               /\ CASE ~ends(x) -> v2' = v2 \o x.log /\ UNCHANGED <<v3, v4>>
                    [] ends(x) /\ fits = "fits" ->
                         v2' = v2 \o x.log /\ v3' = Append(v3, r) /\ UNCHANGED v4
                    [] OTHER -> v4' = "diverged" /\ UNCHANGED <<v2, v3>>
  <2>1. /\ Results!Cardinality({i \in DOMAIN v2 : v2[i].kind \in {"start_kyoku"}}) = sequence
        /\ Admins!Cardinality({i \in DOMAIN v2 : v2[i].kind \in {"start_kyoku"}}) = sequence
    BY DEF Results!Cardinality, Admins!Cardinality
  <2>2. real = Admins!Run(v1, FALSE, batch, luck) /\ copy = Admins!Run(v1, TRUE, batch, luck)
    BY <1>11
  <2>3. record = Admins!ResultRecord(v1, copy, real, real.log, sequence, Len(v2) + 1)
    BY <1>13
  <2>4. /\ Results!CaptureAgrees(copy, real, real.log)
             <=> Admins!CaptureAgrees(copy, real, real.log)
        /\ Results!RecordValid(record) <=> Admins!RecordValid(record)
    BY <1>12, <1>14
  <2> HIDE DEF sequence
  <2>5. Results!Apply(batch, luck)
          <=> files(real, record, IF /\ Results!CaptureAgrees(copy, real, real.log)
                                     /\ Results!RecordValid(record) /\ paid(record)
                                  THEN "fits" ELSE "differs")
    BY <2>1 DEF Results!Apply, Results!Resolve, Results!At, Results!Has
  <2> HIDE DEF real, copy, record
  <2>6. Admins!Apply(batch, luck)
          <=> files(real, record, IF /\ Admins!CaptureAgrees(copy, real, real.log)
                                     /\ Admins!RecordValid(record) /\ paid(record)
                                  THEN "fits" ELSE "differs")
    BY <2>1, <2>2, <2>3 DEF Admins!Apply, Admins!Resolve, Admins!At, Admins!Has
  <2> HIDE DEF files, paid
  <2> QED
    BY <2>4, <2>5, <2>6
<1>16. \A e : Results!Turns(e) = Admins!Turns(e)
  BY DEF
         Results!Stick, Results!Turns, Admins!Stick, Admins!Turns
<1>17. \A e : Results!Answers(e) = Admins!Answers(e)
  BY DEF
         Results!Answers, Results!Cardinality, Results!Seats, Admins!Answers,
         Admins!Cardinality, Admins!Seats
<1>18. \A e : Results!Lucks(e) = Admins!Lucks(e)
  BY DEF
         Results!Lucks, Admins!Lucks
<1>19. Results!Act <=> Admins!Act
  BY <1>15, <1>16, <1>18 DEF
         Results!Act, Admins!Act
<1>20. Results!Respond <=> Admins!Respond
  BY <1>15, <1>17, <1>18 DEF
         Results!Respond, Admins!Respond
<1> QED
  BY <1>1, <1>14, <1>19, <1>20

\* The reader means the same, too.
LEMMA ReaderMeans ==
  /\ Results!ResultsAreReadable <=> Admins!ResultsAreReadable
  /\ Results!PointsAreKept <=> Admins!PointsAreKept
  /\ Results!ChangedResultsAreRefused <=> Admins!ChangedResultsAreRefused
<1>1. \A k : Results!Start(k) = Admins!Start(k)
  BY DEF
         Results!At, Results!Cardinality, Results!Nth, Results!Start, Results!Starts, Admins!At,
         Admins!Cardinality, Admins!Nth, Admins!Start, Admins!Starts
<1>2. Results!Starts = Admins!Starts
  BY DEF
         Results!At, Results!Starts, Admins!At, Admins!Starts
<1>3. \A k, r : Results!BoundaryFits(k, r) <=> Admins!BoundaryFits(k, r)
  BY <1>2, <1>1 DEF
         Results!BoundaryFits, Results!Cardinality, Results!NextStart, Admins!BoundaryFits,
         Admins!Cardinality, Admins!NextStart
<1>4. \A k, r : Results!TerminalsFit(k, r) <=> Admins!TerminalsFit(k, r)
  BY DEF
         Results!At, Results!Cardinality, Results!Nth, Results!Share, Results!Start,
         Results!Starts, Results!TerminalsFit, Results!TerminalsIn, Results!WinPoints,
         Admins!At, Admins!Cardinality, Admins!Nth, Admins!Share, Admins!Start, Admins!Starts,
         Admins!TerminalsFit, Admins!TerminalsIn, Admins!WinPoints
<1>5. \A start, terminal, end, r :
        Results!BeforeFits(start, terminal, end, r)
          <=> Admins!BeforeFits(start, terminal, end, r)
  BY DEF
         Results!BeforeFits, Results!Cardinality, Results!Deposits, Results!DepositsOf,
         Results!Reached, Results!Seats, Results!Stick, Admins!BeforeFits, Admins!Cardinality,
         Admins!Deposits, Admins!DepositsOf, Admins!Reached, Admins!Seats, Admins!Stick
<1>6. \A start, to : Results!Reached(start, to) = Admins!Reached(start, to)
  BY DEF
         Results!Cardinality, Results!Deposits, Results!DepositsOf, Results!Reached,
         Results!Seats, Results!Stick, Admins!Cardinality, Admins!Deposits, Admins!DepositsOf,
         Admins!Reached, Admins!Seats, Admins!Stick
<1>7. \A start, end : Results!TerminalsIn(start, end) = Admins!TerminalsIn(start, end)
  BY DEF
         Results!TerminalsIn, Admins!TerminalsIn
<1>8. \A places, k : Results!Nth(places, k) = Admins!Nth(places, k)
  BY DEF
         Results!Cardinality, Results!Nth, Admins!Cardinality, Admins!Nth
<1>9. \A scores, first, last :
        Results!Paid(scores, first, last)
          = Admins!Paid(scores, first, last)
  BY DEF
         Results!Paid, Results!Plus, Results!Seats, Admins!Paid, Admins!Plus, Admins!Seats
<1>10. \A k, r : Results!NextFits(k, r) <=> Admins!NextFits(k, r)
  BY <1>2, <1>1 DEF
         Results!Cardinality, Results!NextFits, Results!Seats, Admins!Cardinality,
         Admins!NextFits, Admins!Seats
<1>11. \A f, g : Results!Plus(f, g) = Admins!Plus(f, g)
  BY DEF
         Results!Plus, Results!Seats, Admins!Plus, Admins!Seats
<1>12. \A f, g : Results!Less(f, g) = Admins!Less(f, g)
  BY DEF
         Results!Less, Results!Seats, Admins!Less, Admins!Seats
<1>13. \A S : Results!Cardinality(S) = Admins!Cardinality(S)
  BY DEF
         Results!Cardinality, Admins!Cardinality
<1>14. \A k, r : Results!SettlementFits(k, r) <=> Admins!SettlementFits(k, r)
  <2> TAKE k, r
  <2> DEFINE start == Results!Start(k)
             terminal == Results!TerminalsIn(start, r.end)
             first == Results!Nth(terminal, 1)
             last == Results!Nth(terminal, Results!Cardinality(terminal))
             reached == Results!Reached(start, first - 1)
             before == [s \in 1..ResultsSize.N |-> r.changes[s].before]
             after == [s \in 1..ResultsSize.N |-> r.changes[s].after]
             award == /\ k = Results!Cardinality(Results!Starts) /\ r.wins = <<>>
                      /\ reached.pot > 0
                      /\ \E i \in r.end + 1..Len(v2) : v2[i].kind = "end_game"
             unawarded == IF award THEN [after EXCEPT ![Results!Top(after)] = @ - reached.pot * 10]
                          ELSE after
  <2>1. /\ start = Admins!Start(k) /\ terminal = Admins!TerminalsIn(start, r.end)
        /\ first = Admins!Nth(terminal, 1) /\ reached = Admins!Reached(start, first - 1)
        /\ Results!Cardinality(terminal) = Admins!Cardinality(terminal)
        /\ Results!Cardinality(Results!Starts) = Admins!Cardinality(Admins!Starts)
        /\ Results!Top(after) = Admins!Top(after)
        /\ Results!Top(unawarded) = Admins!Top(unawarded)
    <3> HIDE DEF before, after, award, unawarded
    <3> QED
      BY <1>1, <1>7, <1>8, <1>6, <1>13, <1>2,
         ResultsMean
  <2>2. last = Admins!Nth(terminal, Admins!Cardinality(terminal))
    BY <2>1, <1>8
  <2>3. /\ Results!BeforeFits(start, first, r.end, r) <=> Admins!BeforeFits(start, first, r.end, r)
        /\ Results!Paid(reached.scores, first, last) = Admins!Paid(reached.scores, first, last)
        /\ Results!NextFits(k, r) <=> Admins!NextFits(k, r)
        /\ Results!Plus(Results!Less(unawarded, before), r.adjustment[1])
             = Admins!Plus(Admins!Less(unawarded, before), r.adjustment[1])
    <3> HIDE DEF start, terminal, first, last, reached, before, after, award, unawarded
    <3> QED
      BY <1>5, <1>9, <1>10, <1>11, <1>12
  <2> DEFINE settles(fits, best, paid, next, evidence) ==
        /\ fits = "yes"
        /\ r.potAfter = IF r.wins # <<>> \/ award THEN 0 ELSE reached.pot
        /\ IF r.wins = <<>>
           THEN /\ Results!Cardinality(terminal) = 1
                /\ award => best = Results!Top(after)
                /\ evidence = v2[first].delta
           ELSE paid = after
        /\ next = "yes"
  <2>4. Results!SettlementFits(k, r)
          <=> settles(IF Results!BeforeFits(start, first, r.end, r) THEN "yes" ELSE "no",
                      Results!Top(unawarded), Results!Paid(reached.scores, first, last),
                      IF Results!NextFits(k, r) THEN "yes" ELSE "no",
                      Results!Plus(Results!Less(unawarded, before), r.adjustment[1]))
    BY DEF Results!SettlementFits, Results!Seats, Results!Stick
  <2>5. Admins!SettlementFits(k, r)
          <=> settles(IF Admins!BeforeFits(start, first, r.end, r) THEN "yes" ELSE "no",
                      Admins!Top(unawarded), Admins!Paid(reached.scores, first, last),
                      IF Admins!NextFits(k, r) THEN "yes" ELSE "no",
                      Admins!Plus(Admins!Less(unawarded, before), r.adjustment[1]))
    <3> HIDE DEF start, terminal, first, last, reached
    <3> QED
      BY <2>1, <2>2 DEF Admins!SettlementFits, Admins!Seats, Admins!Stick
  <2> HIDE DEF start, terminal, first, last, reached, before, after, award, unawarded, settles
  <2> QED
    BY <2>1, <2>3, <2>4, <2>5
<1>15. \A rs : Results!Joins(rs) <=> Admins!Joins(rs)
  BY <1>2, <1>3, <1>4, <1>14, ResultsMean DEF
         Results!Cardinality, Results!Joins, Admins!Cardinality, Admins!Joins
<1>16. Results!Joined = Admins!Joined
  BY DEF
         Results!At, Results!Cardinality, Results!Frames, Results!Joined, Results!NextStart,
         Results!Nth, Results!Seats, Results!Shown, Results!Start, Results!Starts, Results!Zero,
         Admins!At, Admins!Cardinality, Admins!Frames, Admins!Joined, Admins!NextStart,
         Admins!Nth, Admins!Seats, Admins!Shown, Admins!Start, Admins!Starts, Admins!Zero
<1>17. \A scores : Results!Ranks(scores) = Admins!Ranks(scores)
  BY DEF
         Results!Cardinality, Results!Ranks, Results!Seats, Admins!Cardinality, Admins!Ranks,
         Admins!Seats
<1>18. \A scores : Results!Total(scores) = Admins!Total(scores)
  BY DEF
         Results!Total, Admins!Total
<1>19. \A r : Results!Changed(r) = Admins!Changed(r)
  BY DEF
         Results!AfterBy, Results!BeforeBy, Results!Changed, Results!OtherEnd,
         Results!OtherMoney, Results!OtherWin, Results!Payments, Results!Seats, Results!Share,
         Results!Stick, Results!WinPoints, Results!WonByOther, Results!WonFor, Admins!AfterBy,
         Admins!BeforeBy, Admins!Changed, Admins!OtherEnd, Admins!OtherMoney, Admins!OtherWin,
         Admins!Payments, Admins!Seats, Admins!Share, Admins!Stick, Admins!WinPoints,
         Admins!WonByOther, Admins!WonFor
<1>20. \A r, ev : Results!FromStart(r, ev) = Admins!FromStart(r, ev)
  BY DEF
         Results!FromStart, Results!Less, Results!Plus, Results!Seats, Admins!FromStart,
         Admins!Less, Admins!Plus, Admins!Seats
<1>21. \A r : Results!WithEvidence(r) = Admins!WithEvidence(r)
  BY DEF
         Results!Seats, Results!Stick, Results!WithEvidence, Admins!Seats, Admins!Stick,
         Admins!WithEvidence
<1>22. Results!ResultsAreReadable <=> Admins!ResultsAreReadable
  BY <1>15, <1>16, <1>17, ResultsMean DEF
         Results!ResultsAreReadable, Results!Seats, Admins!ResultsAreReadable, Admins!Seats
<1>23. Results!PointsAreKept <=> Admins!PointsAreKept
  BY <1>16, <1>18 DEF
         Results!PointsAreKept, Results!Seats, Results!Stick, Admins!PointsAreKept,
         Admins!Seats, Admins!Stick
<1>24. Results!ChangedResultsAreRefused <=> Admins!ChangedResultsAreRefused
  BY <1>1, <1>15, <1>19, <1>20, <1>21 DEF
         Results!ChangedResultsAreRefused, Admins!ChangedResultsAreRefused
<1> QED
  BY <1>22, <1>23, <1>24

\* The results of a Match.
LEMMA ResultsHold ==
  Spec => [](part = "results" => /\ Results!ResultsAreReadable /\ Results!PointsAreKept
                                 /\ Results!ChangedResultsAreRefused)
<1>1. Admins!Assumption
  BY ResultsAssumption DEF Results!Assumption, Results!Seats, Admins!Assumption, Admins!Seats
<1> DEFINE Here == part = "results"
<1>2. Init /\ Here => Admins!Init
  <2>1. Results!Init => Admins!Init
    BY DEF Results!Dealt, Results!Init, Results!Is, Results!Logged, Results!Seats,
           Results!StartKyoku, Results!Zero, Admins!Dealt, Admins!Init, Admins!Is,
           Admins!Logged, Admins!Seats, Admins!StartKyoku, Admins!Zero
  <2> QED
    BY <2>1 DEF Init
<1>3. Here /\ [Next]_vars => [Admins!Next]_(Admins!vars)
  <2>1. Results!Next => Admins!Next
    BY ResultsMean DEF Results!Next, Admins!Next
  <2>2. UNCHANGED vars => UNCHANGED Admins!vars
    BY DEF Admins!vars, vars, last11
  <2> QED
    BY <2>1, <2>2, SMTT(30) DEF Next
<1>5. Admins!Spec => [](/\ Admins!ResultsAreReadable /\ Admins!PointsAreKept
                       /\ Admins!ChangedResultsAreRefused)
  BY <1>1, Admins!RecordsAreSettled, PTL
<1>6. /\ Here /\ [Next]_vars => Here'
      /\ ~Here /\ [Next]_vars => (~Here)'
  BY DEF Next, vars
<1>7. Spec => [](Here => /\ Results!ResultsAreReadable /\ Results!PointsAreKept
                         /\ Results!ChangedResultsAreRefused)
  <2> HIDE DEF Here
  <2> QED
    BY <1>2, <1>3, <1>5, <1>6, ReaderMeans, PTL DEF Spec, Admins!Spec
<1> QED
  BY <1>7

-----------------------------------------------------------------------------
\* The theorems about sockets, Bot Tokens, Bots and replays, for one of each part ...
Ones == INSTANCE SocketProofs WITH
  C <- HumanSize.C, Humans <- HumanSize.Humans, Agents <- HumanSize.Agents,
  MaxLock <- HumanSize.MaxLock, task <- v1, slot <- v2, owner <- v3, entry <- v4, told <- v5,
  valid <- v6, expelled <- v7, room <- v8, T <- TokensSize.T, Rm <- TokensSize.Rm,
  Stream <- TokensSize.Stream, Box <- TokensSize.Box, up <- v1, disk <- v2, cache <- v3,
  admin <- v4, stream <- v5, lagged <- v6, worker <- v7, sema <- v8, join <- v9, box <- v10,
  member <- v11, waiting <- v12, Matches <- PlayerSize.Matches,
  Decisions <- PlayerSize.Decisions, Notes <- PlayerSize.Box, LongTime <- PlayerSize.LongTime,
  place <- v1, notes <- v2, on <- v3, agent <- v4, old <- v5, action <- v6, asked <- v7,
  taken <- v8, N <- YonmaSize.N, ThreePlayers <- YonmaSize.Sanma,
  HandSize <- YonmaSize.HandSize, Kinds <- YonmaSize.Kinds, Fives <- YonmaSize.Fives,
  North <- YonmaSize.North, Kyokus <- YonmaSize.Kyokus, Deals <- YonmaSize.Deals, table <- v1,
  frame <- v2

\* The sockets of Humans.
LEMMA HumanHolds ==
  Spec => [](part = "human" => Human!SessionsAreSound /\ Human!ExpelledAreOut)
<1>1. Ones!Sockets!Assumption
  BY SocketAssumption DEF Human!Assumption, Ones!Sockets!Assumption
<1> DEFINE Here == part = "human"
<1>2. Init /\ Here => Ones!Sockets!Init
  <2>1. Human!Init => Ones!Sockets!Init
    BY DEF Human!Idle, Human!Init, Human!Locks, Human!P, Human!Users, Ones!Sockets!Idle,
         Ones!Sockets!Init, Ones!Sockets!Locks, Ones!Sockets!P, Ones!Sockets!Users
  <2> QED
    BY <2>1 DEF Init
<1>3. Here /\ [Next]_vars => [Ones!Sockets!Next]_(Ones!Sockets!vars)
  <2>1. Human!Next => Ones!Sockets!Next
    BY DEF Human!Acquire, Human!After, Human!Clones, Human!CloseAgents, Human!Disconnect,
         Human!EndSocket, Human!Goes, Human!Holds, Human!Idle, Human!Kick, Human!KickEnds,
         Human!KickRoom, Human!Leave, Human!LeaveRoom, Human!Locks, Human!Next, Human!Over,
         Human!P, Human!Prune, Human!Reclaim, Human!Reconnect, Human!Register, Human!Remove,
         Human!RevokeToken, Human!RoomForgets, Human!RoomsHear, Human!SubscribeFails,
         Human!Unlock, Human!Unused, Human!Upgrade, Human!Users, Human!Wants,
         Ones!Sockets!Acquire, Ones!Sockets!After, Ones!Sockets!Clones,
         Ones!Sockets!CloseAgents, Ones!Sockets!Disconnect, Ones!Sockets!EndSocket,
         Ones!Sockets!Goes, Ones!Sockets!Holds, Ones!Sockets!Idle, Ones!Sockets!Kick,
         Ones!Sockets!KickEnds, Ones!Sockets!KickRoom, Ones!Sockets!Leave,
         Ones!Sockets!LeaveRoom, Ones!Sockets!Locks, Ones!Sockets!Next, Ones!Sockets!Over,
         Ones!Sockets!P, Ones!Sockets!Prune, Ones!Sockets!Reclaim, Ones!Sockets!Reconnect,
         Ones!Sockets!Register, Ones!Sockets!Remove, Ones!Sockets!RevokeToken,
         Ones!Sockets!RoomForgets, Ones!Sockets!RoomsHear, Ones!Sockets!SubscribeFails,
         Ones!Sockets!Unlock, Ones!Sockets!Unused, Ones!Sockets!Upgrade, Ones!Sockets!Users,
         Ones!Sockets!Wants
  <2>2. UNCHANGED vars => UNCHANGED Ones!Sockets!vars
    BY DEF Ones!Sockets!vars, vars, last7
  <2> QED
    BY <2>1, <2>2, SMTT(30) DEF Next
<1>4. Ones!Sockets!SessionsAreSound /\ Ones!Sockets!ExpelledAreOut
        => Human!SessionsAreSound /\ Human!ExpelledAreOut
  BY DEF Human!AgentsLeaveNoGhost, Human!ExpelledAreOut, Human!OneOperationAtATime, Human!P,
         Human!ReplacedEndsQuietly, Human!SessionsAreSound, Human!Users,
         Ones!Sockets!AgentsLeaveNoGhost, Ones!Sockets!ExpelledAreOut,
         Ones!Sockets!OneOperationAtATime, Ones!Sockets!P, Ones!Sockets!ReplacedEndsQuietly,
         Ones!Sockets!SessionsAreSound, Ones!Sockets!Users
<1>5. Ones!Sockets!Spec => [](Ones!Sockets!SessionsAreSound /\ Ones!Sockets!ExpelledAreOut)
  BY <1>1, Ones!OneSocketAtATime, Ones!ExpelledSocketsClose, PTL
<1>6. /\ Here /\ [Next]_vars => Here'
      /\ ~Here /\ [Next]_vars => (~Here)'
  BY DEF Next, vars
<1>7. Spec => [](Here => Human!SessionsAreSound /\ Human!ExpelledAreOut)
  <2> HIDE DEF Here
  <2> QED
    BY <1>2, <1>3, <1>4, <1>5, <1>6, PTL DEF Spec, Ones!Sockets!Spec
<1> QED
  BY <1>7

\* The revocation of Bot Tokens, where the channel overflows.
LEMMA TokensHolds ==
  Spec => [](part = "tokens" => Tokens!ExpelledAreOut)
<1>1. Ones!Tokens!Assumption
  BY TokensAssumption DEF Tokens!Assumption, Ones!Tokens!Assumption
<1> DEFINE Here == part = "tokens"
<1>2. Init /\ Here => Ones!Tokens!Init
  <2>1. Tokens!Init => Ones!Tokens!Init
    BY DEF Tokens!Idle, Tokens!Init, Tokens!Receiving, Ones!Tokens!Idle, Ones!Tokens!Init,
         Ones!Tokens!Receiving
  <2> QED
    BY <2>1 DEF Init
<1>3. Here /\ [Next]_vars => [Ones!Tokens!Next]_(Ones!Tokens!vars)
  <2>1. Tokens!Next => Ones!Tokens!Next
    BY DEF Tokens!Ask, Tokens!AskJoin, Tokens!Cache, Tokens!Commit, Tokens!Crash,
         Tokens!DropAdmin, Tokens!EndDelivery, Tokens!EndJoin, Tokens!Idle, Tokens!LockJoin,
         Tokens!Next, Tokens!Range, Tokens!Receive, Tokens!Receiving, Tokens!Restart,
         Tokens!Retry, Tokens!RevokeQueue, Tokens!RevokeRoom, Tokens!RoomActs,
         Tokens!RoomAnswers, Tokens!SendJoin, Tokens!Sent, Tokens!Step, Tokens!TakeSemaphore,
         Tokens!Wait, Tokens!agents, Tokens!channel, Tokens!tokens, Ones!Tokens!Ask,
         Ones!Tokens!AskJoin, Ones!Tokens!Cache, Ones!Tokens!Commit, Ones!Tokens!Crash,
         Ones!Tokens!DropAdmin, Ones!Tokens!EndDelivery, Ones!Tokens!EndJoin, Ones!Tokens!Idle,
         Ones!Tokens!LockJoin, Ones!Tokens!Next, Ones!Tokens!Range, Ones!Tokens!Receive,
         Ones!Tokens!Receiving, Ones!Tokens!Restart, Ones!Tokens!Retry,
         Ones!Tokens!RevokeQueue, Ones!Tokens!RevokeRoom, Ones!Tokens!RoomActs,
         Ones!Tokens!RoomAnswers, Ones!Tokens!SendJoin, Ones!Tokens!Sent, Ones!Tokens!Step,
         Ones!Tokens!TakeSemaphore, Ones!Tokens!Wait, Ones!Tokens!agents, Ones!Tokens!channel,
         Ones!Tokens!tokens
  <2>2. UNCHANGED vars => UNCHANGED Ones!Tokens!vars
    BY DEF Ones!Tokens!vars, vars, last7
  <2> QED
    BY <2>1, <2>2, SMTT(30) DEF Next
<1>4. Ones!Tokens!ExpelledAreOut
        => Tokens!ExpelledAreOut
  BY DEF Tokens!ExpelledAreOut, Tokens!Out, Tokens!Owed, Tokens!Range,
         Ones!Tokens!ExpelledAreOut, Ones!Tokens!Out, Ones!Tokens!Owed, Ones!Tokens!Range
<1>5. Ones!Tokens!Spec => [](Ones!Tokens!ExpelledAreOut)
  BY <1>1, Ones!RevokedTokensAreOut, PTL
<1>6. /\ Here /\ [Next]_vars => Here'
      /\ ~Here /\ [Next]_vars => (~Here)'
  BY DEF Next, vars
<1>7. Spec => [](Here => Tokens!ExpelledAreOut)
  <2> HIDE DEF Here
  <2> QED
    BY <1>2, <1>3, <1>4, <1>5, <1>6, PTL DEF Spec, Ones!Tokens!Spec
<1> QED
  BY <1>7

\* A Mjai Bot in a Room.
LEMMA PlayerHolds ==
  Spec => [](part = "player" => Player!BotsAnswer)
<1> DEFINE Here == part = "player"
<1>2. Init /\ Here => Ones!Bots!Init
  <2>1. Player!Init => Ones!Bots!Init
    BY DEF Player!At, Player!Init, Player!NoAction, Player!None, Ones!Bots!At, Ones!Bots!Init,
         Ones!Bots!NoAction, Ones!Bots!None
  <2> QED
    BY <2>1 DEF Init
<1>3. Here /\ [Next]_vars => [Ones!Bots!Next]_(Ones!Bots!vars)
  <2>1. Player!Next => Ones!Bots!Next
    BY DEF Player!Abort, Player!Age, Player!At, Player!BackToLobby, Player!Changes,
         Player!Chooses, Player!Close, Player!Dropped, Player!Idle, Player!Late, Player!Live,
         Player!Meant, Player!Next, Player!NoAction, Player!None, Player!Notify, Player!Opened,
         Player!Other, Player!Peeked, Player!Place, Player!Release, Player!Remember,
         Player!Reply, Player!Resolutions, Player!Resolve, Player!Retired, Player!Start,
         Player!Submit, Player!Sync, Player!Synced, Player!Turned, Ones!Bots!Abort,
         Ones!Bots!Age, Ones!Bots!At, Ones!Bots!BackToLobby, Ones!Bots!Changes,
         Ones!Bots!Chooses, Ones!Bots!Close, Ones!Bots!Dropped, Ones!Bots!Idle, Ones!Bots!Late,
         Ones!Bots!Live, Ones!Bots!Meant, Ones!Bots!Next, Ones!Bots!NoAction, Ones!Bots!None,
         Ones!Bots!Notify, Ones!Bots!Opened, Ones!Bots!Other, Ones!Bots!Peeked,
         Ones!Bots!Place, Ones!Bots!Release, Ones!Bots!Remember, Ones!Bots!Reply,
         Ones!Bots!Resolutions, Ones!Bots!Resolve, Ones!Bots!Retired, Ones!Bots!Start,
         Ones!Bots!Submit, Ones!Bots!Sync, Ones!Bots!Synced, Ones!Bots!Turned
  <2>2. UNCHANGED vars => UNCHANGED Ones!Bots!vars
    BY DEF Ones!Bots!vars, vars, last7
  <2> QED
    BY <2>1, <2>2, SMTT(30) DEF Next
<1>4. Ones!Bots!BotsAnswer
        => Player!BotsAnswer
  BY DEF Player!AnswersWhatWasAsked, Player!AsksWhatIsOpen, Player!BotsAnswer, Player!Caught,
         Player!Chooses, Player!Live, Player!NoAction, Player!None, Player!Place,
         Player!TimeIsKept, Ones!Bots!AnswersWhatWasAsked, Ones!Bots!AsksWhatIsOpen,
         Ones!Bots!BotsAnswer, Ones!Bots!Caught, Ones!Bots!Chooses, Ones!Bots!Live,
         Ones!Bots!NoAction, Ones!Bots!None, Ones!Bots!Place, Ones!Bots!TimeIsKept
<1>5. Ones!Bots!Spec => [](Ones!Bots!BotsAnswer)
  BY Ones!BotsAreHeard, PTL
<1>6. /\ Here /\ [Next]_vars => Here'
      /\ ~Here /\ [Next]_vars => (~Here)'
  BY DEF Next, vars
<1>7. Spec => [](Here => Player!BotsAnswer)
  <2> HIDE DEF Here
  <2> QED
    BY <1>2, <1>3, <1>4, <1>5, <1>6, PTL DEF Spec, Ones!Bots!Spec
<1> QED
  BY <1>7

\* An event does the same to the reader, wherever the names are from.
LEMMA YonmaWords ==
  /\ \A f, ev : Yonma!Framed(f, ev) = Ones!Film!Framed(f, ev)
  /\ \A kind, a : Yonma!Ev(kind, a) = Ones!Film!Ev(kind, a)
  /\ \A kind, a, x, tiles : Yonma!With(kind, a, x, tiles) = Ones!Film!With(kind, a, x, tiles)
  /\ \A ev, s : Yonma!From(ev, s) = Ones!Film!From(ev, s)
  /\ \A deal, k : Yonma!DealOf(deal, k) = Ones!Film!DealOf(deal, k)
  /\ \A deal : Yonma!StartOf(deal) = Ones!Film!StartOf(deal)
<1>1. \A ev : Yonma!Written(ev) = Ones!Film!Written(ev)
  BY DEF
         Yonma!Each, Yonma!EachHand, Yonma!Kind, Yonma!Mapped, Yonma!Name, Yonma!Red,
         Yonma!Written, Ones!Film!Each, Ones!Film!EachHand, Ones!Film!Kind, Ones!Film!Mapped,
         Ones!Film!Name, Ones!Film!Red, Ones!Film!Written
<1>2. \A line : Yonma!Read(line) = Ones!Film!Read(line)
  BY DEF
         Yonma!Each, Yonma!EachHand, Yonma!Mapped, Yonma!Parsed, Yonma!Read, Ones!Film!Each,
         Ones!Film!EachHand, Ones!Film!Mapped, Ones!Film!Parsed, Ones!Film!Read
<1>3. \A ev : Yonma!Logged(ev) = Ones!Film!Logged(ev)
  BY <1>1, <1>2 DEF
         Yonma!Logged, Ones!Film!Logged
<1>4. \A ev : Yonma!EventValid(ev) <=> Ones!Film!EventValid(ev)
  BY DEF
         Yonma!EventValid, Yonma!Seats, Ones!Film!EventValid, Ones!Film!Seats
<1>5. \A f, ev : Yonma!Fits(f, ev) <=> Ones!Film!Fits(f, ev)
  BY DEF
         Yonma!Cardinality, Yonma!Count, Yonma!Fits, Yonma!Holds, Yonma!IsSequence, Yonma!Kind,
         Yonma!KindsOf, Yonma!MeldValid, Yonma!Norths, Yonma!Open, Yonma!Tiles, Yonma!ToSet,
         Yonma!Triplets, Ones!Film!Cardinality, Ones!Film!Count, Ones!Film!Fits,
         Ones!Film!Holds, Ones!Film!IsSequence, Ones!Film!Kind, Ones!Film!KindsOf,
         Ones!Film!MeldValid, Ones!Film!Norths, Ones!Film!Open, Ones!Film!Tiles,
         Ones!Film!ToSet, Ones!Film!Triplets
<1>6. \A f, ev : Yonma!Applied(f, ev) = Ones!Film!Applied(f, ev)
  BY DEF
         Yonma!Added, Yonma!Applied, Yonma!Called, Yonma!Cardinality, Yonma!Count,
         Yonma!Discarded, Yonma!First, Yonma!HandOf, Yonma!Kind, Yonma!KindsOf, Yonma!Norths,
         Yonma!Open, Yonma!Plus, Yonma!Seats, Yonma!Started, Yonma!Tiles, Yonma!ToSet,
         Yonma!Triplets, Yonma!Without, Ones!Film!Added, Ones!Film!Applied, Ones!Film!Called,
         Ones!Film!Cardinality, Ones!Film!Count, Ones!Film!Discarded, Ones!Film!First,
         Ones!Film!HandOf, Ones!Film!Kind, Ones!Film!KindsOf, Ones!Film!Norths, Ones!Film!Open,
         Ones!Film!Plus, Ones!Film!Seats, Ones!Film!Started, Ones!Film!Tiles, Ones!Film!ToSet,
         Ones!Film!Triplets, Ones!Film!Without
<1>7. \A f, ev : Yonma!Framed(f, ev) = Ones!Film!Framed(f, ev)
  BY <1>1, <1>2, <1>3, <1>4, <1>5, <1>6 DEF
         Yonma!Framed, Ones!Film!Framed
<1>8. \A kind, a : Yonma!Ev(kind, a) = Ones!Film!Ev(kind, a)
  BY DEF
         Yonma!Blank, Yonma!Ev, Ones!Film!Blank, Ones!Film!Ev
<1>9. \A kind, a, x, tiles : Yonma!With(kind, a, x, tiles) = Ones!Film!With(kind, a, x, tiles)
  BY DEF
         Yonma!Blank, Yonma!Ev, Yonma!With, Ones!Film!Blank, Ones!Film!Ev, Ones!Film!With
<1>10. \A ev, s : Yonma!From(ev, s) = Ones!Film!From(ev, s)
  BY DEF
         Yonma!From, Ones!Film!From
<1>11. \A deal, k : Yonma!DealOf(deal, k) = Ones!Film!DealOf(deal, k)
  BY DEF
         Yonma!DealOf, Yonma!Seats, Yonma!ToSet, Ones!Film!DealOf, Ones!Film!Seats,
         Ones!Film!ToSet
<1>12. \A deal : Yonma!StartOf(deal) = Ones!Film!StartOf(deal)
  BY DEF
         Yonma!Blank, Yonma!Ev, Yonma!StartOf, Ones!Film!Blank, Ones!Film!Ev, Ones!Film!StartOf
<1> QED
  BY <1>7, <1>8, <1>9, <1>10, <1>11, <1>12

\* The frames of a Match of four-player tiles.
LEMMA YonmaHolds ==
  Spec => [](part = "yonma" => Yonma!FramesShowTheTable)
<1>1. Ones!Film!Assumption
  BY ZenonT(60), FramesAssumption DEF 
         Yonma!Assumption, Yonma!DealAssumption, Yonma!IsInjective, Yonma!Seats, Yonma!Tiles,
         Yonma!ToSet, Ones!Film!Assumption, Ones!Film!DealAssumption, Ones!Film!IsInjective,
         Ones!Film!Seats, Ones!Film!Tiles, Ones!Film!ToSet
<1> DEFINE Here == part = "yonma"
<1>2. Init /\ Here => Ones!Film!Init
  <2>1. Yonma!Init => Ones!Film!Init
    BY YonmaWords DEF
           Yonma!Cardinality, Yonma!Count, Yonma!HandOf, Yonma!Init, Yonma!Seats, Yonma!Tiles,
           Ones!Film!Cardinality, Ones!Film!Count, Ones!Film!HandOf, Ones!Film!Init,
           Ones!Film!Seats, Ones!Film!Tiles
  <2> QED
    BY <2>1 DEF Init
<1>3. Here /\ [Next]_vars => [Ones!Film!Next]_(Ones!Film!vars)
  <2>1. Yonma!Next => Ones!Film!Next
    <3>1. Yonma!Draw => Ones!Film!Draw
      BY YonmaWords DEF
             Yonma!Draw, Yonma!Step, Ones!Film!Draw, Ones!Film!Step
    <3>2. Yonma!Discard(FALSE) => Ones!Film!Discard(FALSE)
      BY YonmaWords DEF
             Yonma!Discard, Yonma!Hand, Yonma!Step, Ones!Film!Discard, Ones!Film!Hand,
             Ones!Film!Step
    <3>3. Yonma!Discard(TRUE) => Ones!Film!Discard(TRUE)
      BY YonmaWords, ZenonT(60) DEF
             Yonma!Discard, Yonma!Hand, Yonma!Step, Ones!Film!Discard, Ones!Film!Hand,
             Ones!Film!Step
    <3>4. \A kind, a, used :
            Yonma!CallWith(kind, a, used)
              <=> Ones!Film!CallWith(kind, a, used)
      BY YonmaWords DEF
             Yonma!CallWith, Yonma!Cardinality, Yonma!IsInjective, Yonma!SetToSeq, Yonma!Step,
             Ones!Film!CallWith, Ones!Film!Cardinality, Ones!Film!IsInjective,
             Ones!Film!SetToSeq, Ones!Film!Step
    <3>5. Yonma!Call => Ones!Film!Call
      BY <3>4, ZenonT(60) DEF
             Yonma!Call, Yonma!Cardinality, Yonma!IsSequence, Yonma!Kind, Yonma!Seats,
             Ones!Film!Call, Ones!Film!Cardinality, Ones!Film!IsSequence, Ones!Film!Kind,
             Ones!Film!Seats
    <3>6. Yonma!Kan => Ones!Film!Kan
      BY YonmaWords, ZenonT(60) DEF
             Yonma!Cardinality, Yonma!Hand, Yonma!IsInjective, Yonma!Kan, Yonma!Kind,
             Yonma!SetToSeq, Yonma!Step, Ones!Film!Cardinality, Ones!Film!Hand,
             Ones!Film!IsInjective, Ones!Film!Kan, Ones!Film!Kind, Ones!Film!SetToSeq,
             Ones!Film!Step
    <3>7. Yonma!AddToPon => Ones!Film!AddToPon
      BY YonmaWords, ZenonT(60) DEF
             Yonma!AddToPon, Yonma!Hand, Yonma!Kind, Yonma!KindsOf, Yonma!Step, Yonma!ToSet,
             Ones!Film!AddToPon, Ones!Film!Hand, Ones!Film!Kind, Ones!Film!KindsOf,
             Ones!Film!Step, Ones!Film!ToSet
    <3>8. Yonma!Kita => Ones!Film!Kita
      BY YonmaWords DEF
             Yonma!Hand, Yonma!Kind, Yonma!Kita, Yonma!Step, Ones!Film!Hand, Ones!Film!Kind,
             Ones!Film!Kita, Ones!Film!Step
    <3>9. \A kind : Yonma!End(kind) <=> Ones!Film!End(kind)
      BY YonmaWords DEF
             Yonma!End, Yonma!Step, Ones!Film!End, Ones!Film!Step
    <3>10. Yonma!Win => Ones!Film!Win
      BY <3>9 DEF
             Yonma!Win, Ones!Film!Win
    <3>11. Yonma!Pass => Ones!Film!Pass
      BY <3>9, YonmaWords, ZenonT(60) DEF
             Yonma!Pass, Yonma!Step, Ones!Film!Pass, Ones!Film!Step
    <3> QED
      BY <3>1, <3>2, <3>3, <3>5, <3>6, <3>7, <3>8, <3>10, <3>11 DEF Yonma!Next, Ones!Film!Next
  <2>2. UNCHANGED vars => UNCHANGED Ones!Film!vars
    BY DEF Ones!Film!vars, vars, last13
  <2> QED
    BY <2>1, <2>2, SMTT(30) DEF Next
<1>4. Ones!Film!FramesShowTheTable
        => Yonma!FramesShowTheTable
  BY DEF Yonma!Cardinality, Yonma!Each, Yonma!FramesShowTheTable, Yonma!Kind, Yonma!Name,
         Yonma!Red, Yonma!Seats, Yonma!Shows, Yonma!Tiles, Ones!Film!Cardinality,
         Ones!Film!Each, Ones!Film!FramesShowTheTable, Ones!Film!Kind, Ones!Film!Name,
         Ones!Film!Red, Ones!Film!Seats, Ones!Film!Shows, Ones!Film!Tiles
<1>5. Ones!Film!Spec => [](Ones!Film!FramesShowTheTable)
  BY <1>1, Ones!FramesFollowTheTable, PTL
<1>6. /\ Here /\ [Next]_vars => Here'
      /\ ~Here /\ [Next]_vars => (~Here)'
  BY DEF Next, vars
<1>7. Spec => [](Here => Yonma!FramesShowTheTable)
  <2> HIDE DEF Here
  <2> QED
    BY <1>2, <1>3, <1>4, <1>5, <1>6, PTL DEF Spec, Ones!Film!Spec
<1> QED
  BY <1>7

-----------------------------------------------------------------------------
\* ... and for the other.
Others == INSTANCE SocketProofs WITH
  C <- AgentSize.C, Humans <- AgentSize.Humans, Agents <- AgentSize.Agents,
  MaxLock <- AgentSize.MaxLock, task <- v1, slot <- v2, owner <- v3, entry <- v4, told <- v5,
  valid <- v6, expelled <- v7, room <- v8, T <- RoomsSize.T, Rm <- RoomsSize.Rm,
  Stream <- RoomsSize.Stream, Box <- RoomsSize.Box, up <- v1, disk <- v2, cache <- v3,
  admin <- v4, stream <- v5, lagged <- v6, worker <- v7, sema <- v8, join <- v9, box <- v10,
  member <- v11, waiting <- v12, Matches <- PatientSize.Matches,
  Decisions <- PatientSize.Decisions, Notes <- PatientSize.Box,
  LongTime <- PatientSize.LongTime, place <- v1, notes <- v2, on <- v3, agent <- v4, old <- v5,
  action <- v6, asked <- v7, taken <- v8, N <- SanmaSize.N, ThreePlayers <- SanmaSize.Sanma,
  HandSize <- SanmaSize.HandSize, Kinds <- SanmaSize.Kinds, Fives <- SanmaSize.Fives,
  North <- SanmaSize.North, Kyokus <- SanmaSize.Kyokus, Deals <- SanmaSize.Deals, table <- v1,
  frame <- v2

\* The sockets of Mjai agents.
LEMMA AgentHolds ==
  Spec => [](part = "agent" => Agent!SessionsAreSound /\ Agent!ExpelledAreOut)
<1>1. Others!Sockets!Assumption
  BY SocketAssumption DEF Agent!Assumption, Others!Sockets!Assumption
<1> DEFINE Here == part = "agent"
<1>2. Init /\ Here => Others!Sockets!Init
  <2>1. Agent!Init => Others!Sockets!Init
    BY DEF Agent!Idle, Agent!Init, Agent!Locks, Agent!P, Agent!Users, Others!Sockets!Idle,
         Others!Sockets!Init, Others!Sockets!Locks, Others!Sockets!P, Others!Sockets!Users
  <2> QED
    BY <2>1 DEF Init
<1>3. Here /\ [Next]_vars => [Others!Sockets!Next]_(Others!Sockets!vars)
  <2>1. Agent!Next => Others!Sockets!Next
    BY DEF Agent!Acquire, Agent!After, Agent!Clones, Agent!CloseAgents, Agent!Disconnect,
         Agent!EndSocket, Agent!Goes, Agent!Holds, Agent!Idle, Agent!Kick, Agent!KickEnds,
         Agent!KickRoom, Agent!Leave, Agent!LeaveRoom, Agent!Locks, Agent!Next, Agent!Over,
         Agent!P, Agent!Prune, Agent!Reclaim, Agent!Reconnect, Agent!Register, Agent!Remove,
         Agent!RevokeToken, Agent!RoomForgets, Agent!RoomsHear, Agent!SubscribeFails,
         Agent!Unlock, Agent!Unused, Agent!Upgrade, Agent!Users, Agent!Wants,
         Others!Sockets!Acquire, Others!Sockets!After, Others!Sockets!Clones,
         Others!Sockets!CloseAgents, Others!Sockets!Disconnect, Others!Sockets!EndSocket,
         Others!Sockets!Goes, Others!Sockets!Holds, Others!Sockets!Idle, Others!Sockets!Kick,
         Others!Sockets!KickEnds, Others!Sockets!KickRoom, Others!Sockets!Leave,
         Others!Sockets!LeaveRoom, Others!Sockets!Locks, Others!Sockets!Next,
         Others!Sockets!Over, Others!Sockets!P, Others!Sockets!Prune, Others!Sockets!Reclaim,
         Others!Sockets!Reconnect, Others!Sockets!Register, Others!Sockets!Remove,
         Others!Sockets!RevokeToken, Others!Sockets!RoomForgets, Others!Sockets!RoomsHear,
         Others!Sockets!SubscribeFails, Others!Sockets!Unlock, Others!Sockets!Unused,
         Others!Sockets!Upgrade, Others!Sockets!Users, Others!Sockets!Wants
  <2>2. UNCHANGED vars => UNCHANGED Others!Sockets!vars
    BY DEF Others!Sockets!vars, vars, last7
  <2> QED
    BY <2>1, <2>2, SMTT(30) DEF Next
<1>4. Others!Sockets!SessionsAreSound /\ Others!Sockets!ExpelledAreOut
        => Agent!SessionsAreSound /\ Agent!ExpelledAreOut
  BY DEF Agent!AgentsLeaveNoGhost, Agent!ExpelledAreOut, Agent!OneOperationAtATime, Agent!P,
         Agent!ReplacedEndsQuietly, Agent!SessionsAreSound, Agent!Users,
         Others!Sockets!AgentsLeaveNoGhost, Others!Sockets!ExpelledAreOut,
         Others!Sockets!OneOperationAtATime, Others!Sockets!P,
         Others!Sockets!ReplacedEndsQuietly, Others!Sockets!SessionsAreSound,
         Others!Sockets!Users
<1>5. Others!Sockets!Spec => [](Others!Sockets!SessionsAreSound /\ Others!Sockets!ExpelledAreOut)
  BY <1>1, Others!OneSocketAtATime, Others!ExpelledSocketsClose, PTL
<1>6. /\ Here /\ [Next]_vars => Here'
      /\ ~Here /\ [Next]_vars => (~Here)'
  BY DEF Next, vars
<1>7. Spec => [](Here => Agent!SessionsAreSound /\ Agent!ExpelledAreOut)
  <2> HIDE DEF Here
  <2> QED
    BY <1>2, <1>3, <1>4, <1>5, <1>6, PTL DEF Spec, Others!Sockets!Spec
<1> QED
  BY <1>7

\* The same, where one Room is delivered to after the other.
LEMMA RoomsHolds ==
  Spec => [](part = "rooms" => Rooms!ExpelledAreOut)
<1>1. Others!Tokens!Assumption
  BY TokensAssumption DEF Rooms!Assumption, Others!Tokens!Assumption
<1> DEFINE Here == part = "rooms"
<1>2. Init /\ Here => Others!Tokens!Init
  <2>1. Rooms!Init => Others!Tokens!Init
    BY DEF Rooms!Idle, Rooms!Init, Rooms!Receiving, Others!Tokens!Idle, Others!Tokens!Init,
         Others!Tokens!Receiving
  <2> QED
    BY <2>1 DEF Init
<1>3. Here /\ [Next]_vars => [Others!Tokens!Next]_(Others!Tokens!vars)
  <2>1. Rooms!Next => Others!Tokens!Next
    BY DEF Rooms!Ask, Rooms!AskJoin, Rooms!Cache, Rooms!Commit, Rooms!Crash, Rooms!DropAdmin,
         Rooms!EndDelivery, Rooms!EndJoin, Rooms!Idle, Rooms!LockJoin, Rooms!Next, Rooms!Range,
         Rooms!Receive, Rooms!Receiving, Rooms!Restart, Rooms!Retry, Rooms!RevokeQueue,
         Rooms!RevokeRoom, Rooms!RoomActs, Rooms!RoomAnswers, Rooms!SendJoin, Rooms!Sent,
         Rooms!Step, Rooms!TakeSemaphore, Rooms!Wait, Rooms!agents, Rooms!channel,
         Rooms!tokens, Others!Tokens!Ask, Others!Tokens!AskJoin, Others!Tokens!Cache,
         Others!Tokens!Commit, Others!Tokens!Crash, Others!Tokens!DropAdmin,
         Others!Tokens!EndDelivery, Others!Tokens!EndJoin, Others!Tokens!Idle,
         Others!Tokens!LockJoin, Others!Tokens!Next, Others!Tokens!Range,
         Others!Tokens!Receive, Others!Tokens!Receiving, Others!Tokens!Restart,
         Others!Tokens!Retry, Others!Tokens!RevokeQueue, Others!Tokens!RevokeRoom,
         Others!Tokens!RoomActs, Others!Tokens!RoomAnswers, Others!Tokens!SendJoin,
         Others!Tokens!Sent, Others!Tokens!Step, Others!Tokens!TakeSemaphore,
         Others!Tokens!Wait, Others!Tokens!agents, Others!Tokens!channel, Others!Tokens!tokens
  <2>2. UNCHANGED vars => UNCHANGED Others!Tokens!vars
    BY DEF Others!Tokens!vars, vars, last7
  <2> QED
    BY <2>1, <2>2, SMTT(30) DEF Next
<1>4. Others!Tokens!ExpelledAreOut
        => Rooms!ExpelledAreOut
  BY DEF Rooms!ExpelledAreOut, Rooms!Out, Rooms!Owed, Rooms!Range,
         Others!Tokens!ExpelledAreOut, Others!Tokens!Out, Others!Tokens!Owed,
         Others!Tokens!Range
<1>5. Others!Tokens!Spec => [](Others!Tokens!ExpelledAreOut)
  BY <1>1, Others!RevokedTokensAreOut, PTL
<1>6. /\ Here /\ [Next]_vars => Here'
      /\ ~Here /\ [Next]_vars => (~Here)'
  BY DEF Next, vars
<1>7. Spec => [](Here => Rooms!ExpelledAreOut)
  <2> HIDE DEF Here
  <2> QED
    BY <1>2, <1>3, <1>4, <1>5, <1>6, PTL DEF Spec, Others!Tokens!Spec
<1> QED
  BY <1>7

\* The same with the time of Unlimited.
LEMMA PatientHolds ==
  Spec => [](part = "patient" => Patient!BotsAnswer)
<1> DEFINE Here == part = "patient"
<1>2. Init /\ Here => Others!Bots!Init
  <2>1. Patient!Init => Others!Bots!Init
    BY DEF Patient!At, Patient!Init, Patient!NoAction, Patient!None, Others!Bots!At,
         Others!Bots!Init, Others!Bots!NoAction, Others!Bots!None
  <2> QED
    BY <2>1 DEF Init
<1>3. Here /\ [Next]_vars => [Others!Bots!Next]_(Others!Bots!vars)
  <2>1. Patient!Next => Others!Bots!Next
    BY DEF Patient!Abort, Patient!Age, Patient!At, Patient!BackToLobby, Patient!Changes,
         Patient!Chooses, Patient!Close, Patient!Dropped, Patient!Idle, Patient!Late,
         Patient!Live, Patient!Meant, Patient!Next, Patient!NoAction, Patient!None,
         Patient!Notify, Patient!Opened, Patient!Other, Patient!Peeked, Patient!Place,
         Patient!Release, Patient!Remember, Patient!Reply, Patient!Resolutions,
         Patient!Resolve, Patient!Retired, Patient!Start, Patient!Submit, Patient!Sync,
         Patient!Synced, Patient!Turned, Others!Bots!Abort, Others!Bots!Age, Others!Bots!At,
         Others!Bots!BackToLobby, Others!Bots!Changes, Others!Bots!Chooses, Others!Bots!Close,
         Others!Bots!Dropped, Others!Bots!Idle, Others!Bots!Late, Others!Bots!Live,
         Others!Bots!Meant, Others!Bots!Next, Others!Bots!NoAction, Others!Bots!None,
         Others!Bots!Notify, Others!Bots!Opened, Others!Bots!Other, Others!Bots!Peeked,
         Others!Bots!Place, Others!Bots!Release, Others!Bots!Remember, Others!Bots!Reply,
         Others!Bots!Resolutions, Others!Bots!Resolve, Others!Bots!Retired, Others!Bots!Start,
         Others!Bots!Submit, Others!Bots!Sync, Others!Bots!Synced, Others!Bots!Turned
  <2>2. UNCHANGED vars => UNCHANGED Others!Bots!vars
    BY DEF Others!Bots!vars, vars, last7
  <2> QED
    BY <2>1, <2>2, SMTT(30) DEF Next
<1>4. Others!Bots!BotsAnswer
        => Patient!BotsAnswer
  BY DEF Patient!AnswersWhatWasAsked, Patient!AsksWhatIsOpen, Patient!BotsAnswer,
         Patient!Caught, Patient!Chooses, Patient!Live, Patient!NoAction, Patient!None,
         Patient!Place, Patient!TimeIsKept, Others!Bots!AnswersWhatWasAsked,
         Others!Bots!AsksWhatIsOpen, Others!Bots!BotsAnswer, Others!Bots!Caught,
         Others!Bots!Chooses, Others!Bots!Live, Others!Bots!NoAction, Others!Bots!None,
         Others!Bots!Place, Others!Bots!TimeIsKept
<1>5. Others!Bots!Spec => [](Others!Bots!BotsAnswer)
  BY Others!BotsAreHeard, PTL
<1>6. /\ Here /\ [Next]_vars => Here'
      /\ ~Here /\ [Next]_vars => (~Here)'
  BY DEF Next, vars
<1>7. Spec => [](Here => Patient!BotsAnswer)
  <2> HIDE DEF Here
  <2> QED
    BY <1>2, <1>3, <1>4, <1>5, <1>6, PTL DEF Spec, Others!Bots!Spec
<1> QED
  BY <1>7

\* An event does the same to the reader, wherever the names are from.
LEMMA SanmaWords ==
  /\ \A f, ev : Sanma!Framed(f, ev) = Others!Film!Framed(f, ev)
  /\ \A kind, a : Sanma!Ev(kind, a) = Others!Film!Ev(kind, a)
  /\ \A kind, a, x, tiles : Sanma!With(kind, a, x, tiles) = Others!Film!With(kind, a, x, tiles)
  /\ \A ev, s : Sanma!From(ev, s) = Others!Film!From(ev, s)
  /\ \A deal, k : Sanma!DealOf(deal, k) = Others!Film!DealOf(deal, k)
  /\ \A deal : Sanma!StartOf(deal) = Others!Film!StartOf(deal)
<1>1. \A ev : Sanma!Written(ev) = Others!Film!Written(ev)
  BY DEF
         Sanma!Each, Sanma!EachHand, Sanma!Kind, Sanma!Mapped, Sanma!Name, Sanma!Red,
         Sanma!Written, Others!Film!Each, Others!Film!EachHand, Others!Film!Kind,
         Others!Film!Mapped, Others!Film!Name, Others!Film!Red, Others!Film!Written
<1>2. \A line : Sanma!Read(line) = Others!Film!Read(line)
  BY DEF
         Sanma!Each, Sanma!EachHand, Sanma!Mapped, Sanma!Parsed, Sanma!Read, Others!Film!Each,
         Others!Film!EachHand, Others!Film!Mapped, Others!Film!Parsed, Others!Film!Read
<1>3. \A ev : Sanma!Logged(ev) = Others!Film!Logged(ev)
  BY <1>1, <1>2 DEF
         Sanma!Logged, Others!Film!Logged
<1>4. \A ev : Sanma!EventValid(ev) <=> Others!Film!EventValid(ev)
  BY DEF
         Sanma!EventValid, Sanma!Seats, Others!Film!EventValid, Others!Film!Seats
<1>5. \A f, ev : Sanma!Fits(f, ev) <=> Others!Film!Fits(f, ev)
  BY DEF
         Sanma!Cardinality, Sanma!Count, Sanma!Fits, Sanma!Holds, Sanma!IsSequence, Sanma!Kind,
         Sanma!KindsOf, Sanma!MeldValid, Sanma!Norths, Sanma!Open, Sanma!Tiles, Sanma!ToSet,
         Sanma!Triplets, Others!Film!Cardinality, Others!Film!Count, Others!Film!Fits,
         Others!Film!Holds, Others!Film!IsSequence, Others!Film!Kind, Others!Film!KindsOf,
         Others!Film!MeldValid, Others!Film!Norths, Others!Film!Open, Others!Film!Tiles,
         Others!Film!ToSet, Others!Film!Triplets
<1>6. \A f, ev : Sanma!Applied(f, ev) = Others!Film!Applied(f, ev)
  BY DEF
         Sanma!Added, Sanma!Applied, Sanma!Called, Sanma!Cardinality, Sanma!Count,
         Sanma!Discarded, Sanma!First, Sanma!HandOf, Sanma!Kind, Sanma!KindsOf, Sanma!Norths,
         Sanma!Open, Sanma!Plus, Sanma!Seats, Sanma!Started, Sanma!Tiles, Sanma!ToSet,
         Sanma!Triplets, Sanma!Without, Others!Film!Added, Others!Film!Applied,
         Others!Film!Called, Others!Film!Cardinality, Others!Film!Count, Others!Film!Discarded,
         Others!Film!First, Others!Film!HandOf, Others!Film!Kind, Others!Film!KindsOf,
         Others!Film!Norths, Others!Film!Open, Others!Film!Plus, Others!Film!Seats,
         Others!Film!Started, Others!Film!Tiles, Others!Film!ToSet, Others!Film!Triplets,
         Others!Film!Without
<1>7. \A f, ev : Sanma!Framed(f, ev) = Others!Film!Framed(f, ev)
  BY <1>1, <1>2, <1>3, <1>4, <1>5, <1>6 DEF
         Sanma!Framed, Others!Film!Framed
<1>8. \A kind, a : Sanma!Ev(kind, a) = Others!Film!Ev(kind, a)
  BY DEF
         Sanma!Blank, Sanma!Ev, Others!Film!Blank, Others!Film!Ev
<1>9. \A kind, a, x, tiles : Sanma!With(kind, a, x, tiles) = Others!Film!With(kind, a, x, tiles)
  BY DEF
         Sanma!Blank, Sanma!Ev, Sanma!With, Others!Film!Blank, Others!Film!Ev, Others!Film!With
<1>10. \A ev, s : Sanma!From(ev, s) = Others!Film!From(ev, s)
  BY DEF
         Sanma!From, Others!Film!From
<1>11. \A deal, k : Sanma!DealOf(deal, k) = Others!Film!DealOf(deal, k)
  BY DEF
         Sanma!DealOf, Sanma!Seats, Sanma!ToSet, Others!Film!DealOf, Others!Film!Seats,
         Others!Film!ToSet
<1>12. \A deal : Sanma!StartOf(deal) = Others!Film!StartOf(deal)
  BY DEF
         Sanma!Blank, Sanma!Ev, Sanma!StartOf, Others!Film!Blank, Others!Film!Ev,
         Others!Film!StartOf
<1> QED
  BY <1>7, <1>8, <1>9, <1>10, <1>11, <1>12

\* The frames of a Match with Norths.
LEMMA SanmaHolds ==
  Spec => [](part = "sanma" => Sanma!FramesShowTheTable)
<1>1. Others!Film!Assumption
  BY ZenonT(60), FramesAssumption DEF 
         Sanma!Assumption, Sanma!DealAssumption, Sanma!IsInjective, Sanma!Seats, Sanma!Tiles,
         Sanma!ToSet, Others!Film!Assumption, Others!Film!DealAssumption,
         Others!Film!IsInjective, Others!Film!Seats, Others!Film!Tiles, Others!Film!ToSet
<1> DEFINE Here == part = "sanma"
<1>2. Init /\ Here => Others!Film!Init
  <2>1. Sanma!Init => Others!Film!Init
    BY SanmaWords DEF
           Sanma!Cardinality, Sanma!Count, Sanma!HandOf, Sanma!Init, Sanma!Seats, Sanma!Tiles,
           Others!Film!Cardinality, Others!Film!Count, Others!Film!HandOf, Others!Film!Init,
           Others!Film!Seats, Others!Film!Tiles
  <2> QED
    BY <2>1 DEF Init
<1>3. Here /\ [Next]_vars => [Others!Film!Next]_(Others!Film!vars)
  <2>1. Sanma!Next => Others!Film!Next
    <3>1. Sanma!Draw => Others!Film!Draw
      BY SanmaWords DEF
             Sanma!Draw, Sanma!Step, Others!Film!Draw, Others!Film!Step
    <3>2. Sanma!Discard(FALSE) => Others!Film!Discard(FALSE)
      BY SanmaWords DEF
             Sanma!Discard, Sanma!Hand, Sanma!Step, Others!Film!Discard, Others!Film!Hand,
             Others!Film!Step
    <3>3. Sanma!Discard(TRUE) => Others!Film!Discard(TRUE)
      BY SanmaWords, ZenonT(60) DEF
             Sanma!Discard, Sanma!Hand, Sanma!Step, Others!Film!Discard, Others!Film!Hand,
             Others!Film!Step
    <3>4. \A kind, a, used :
            Sanma!CallWith(kind, a, used)
              <=> Others!Film!CallWith(kind, a, used)
      BY SanmaWords DEF
             Sanma!CallWith, Sanma!Cardinality, Sanma!IsInjective, Sanma!SetToSeq, Sanma!Step,
             Others!Film!CallWith, Others!Film!Cardinality, Others!Film!IsInjective,
             Others!Film!SetToSeq, Others!Film!Step
    <3>5. Sanma!Call => Others!Film!Call
      BY <3>4, ZenonT(60) DEF
             Sanma!Call, Sanma!Cardinality, Sanma!IsSequence, Sanma!Kind, Sanma!Seats,
             Others!Film!Call, Others!Film!Cardinality, Others!Film!IsSequence,
             Others!Film!Kind, Others!Film!Seats
    <3>6. Sanma!Kan => Others!Film!Kan
      BY SanmaWords, ZenonT(60) DEF
             Sanma!Cardinality, Sanma!Hand, Sanma!IsInjective, Sanma!Kan, Sanma!Kind,
             Sanma!SetToSeq, Sanma!Step, Others!Film!Cardinality, Others!Film!Hand,
             Others!Film!IsInjective, Others!Film!Kan, Others!Film!Kind, Others!Film!SetToSeq,
             Others!Film!Step
    <3>7. Sanma!AddToPon => Others!Film!AddToPon
      BY SanmaWords, ZenonT(60) DEF
             Sanma!AddToPon, Sanma!Hand, Sanma!Kind, Sanma!KindsOf, Sanma!Step, Sanma!ToSet,
             Others!Film!AddToPon, Others!Film!Hand, Others!Film!Kind, Others!Film!KindsOf,
             Others!Film!Step, Others!Film!ToSet
    <3>8. Sanma!Kita => Others!Film!Kita
      BY SanmaWords DEF
             Sanma!Hand, Sanma!Kind, Sanma!Kita, Sanma!Step, Others!Film!Hand, Others!Film!Kind,
             Others!Film!Kita, Others!Film!Step
    <3>9. \A kind : Sanma!End(kind) <=> Others!Film!End(kind)
      BY SanmaWords DEF
             Sanma!End, Sanma!Step, Others!Film!End, Others!Film!Step
    <3>10. Sanma!Win => Others!Film!Win
      BY <3>9 DEF
             Sanma!Win, Others!Film!Win
    <3>11. Sanma!Pass => Others!Film!Pass
      BY <3>9, SanmaWords, ZenonT(60) DEF
             Sanma!Pass, Sanma!Step, Others!Film!Pass, Others!Film!Step
    <3> QED
      BY <3>1, <3>2, <3>3, <3>5, <3>6, <3>7, <3>8, <3>10, <3>11 DEF Sanma!Next, Others!Film!Next
  <2>2. UNCHANGED vars => UNCHANGED Others!Film!vars
    BY DEF Others!Film!vars, vars, last13
  <2> QED
    BY <2>1, <2>2, SMTT(30) DEF Next
<1>4. Others!Film!FramesShowTheTable
        => Sanma!FramesShowTheTable
  BY DEF Sanma!Cardinality, Sanma!Each, Sanma!FramesShowTheTable, Sanma!Kind, Sanma!Name,
         Sanma!Red, Sanma!Seats, Sanma!Shows, Sanma!Tiles, Others!Film!Cardinality,
         Others!Film!Each, Others!Film!FramesShowTheTable, Others!Film!Kind, Others!Film!Name,
         Others!Film!Red, Others!Film!Seats, Others!Film!Shows, Others!Film!Tiles
<1>5. Others!Film!Spec => [](Others!Film!FramesShowTheTable)
  BY <1>1, Others!FramesFollowTheTable, PTL
<1>6. /\ Here /\ [Next]_vars => Here'
      /\ ~Here /\ [Next]_vars => (~Here)'
  BY DEF Next, vars
<1>7. Spec => [](Here => Sanma!FramesShowTheTable)
  <2> HIDE DEF Here
  <2> QED
    BY <1>2, <1>3, <1>4, <1>5, <1>6, PTL DEF Spec, Others!Film!Spec
<1> QED
  BY <1>7

-----------------------------------------------------------------------------
\* One of each part, for the theorems of the MCP server and the views ...
First == INSTANCE McpProofs WITH
  Tasks <- WakeSize.Tasks, Queue <- WakeSize.Queue, MaxRev <- WakeSize.MaxRev, rev <- v1,
  mine <- v2, gone <- v3, events <- v4, lost <- v5, busy <- v6, wake <- v7, agent <- v8,
  told <- v9, S <- McpSize.S, Id <- McpSize.Id, Token <- McpSize.Token, IdOf <- McpSize.IdOf,
  TokenOf <- McpSize.TokenOf, Stateless <- McpSize.Stateless, MaxJoins <- McpSize.MaxJoins,
  known <- v1, live <- v2, entry <- v3, bound <- v4, pair <- v5, retired <- v6, banned <- v7,
  good <- v8, notices <- v9, asked <- v10, join <- v11, leaving <- v12, cleanup <- v13,
  closing <- v14, room <- v15, N <- SeenSize.N, Kyokus <- SeenSize.Kyokus,
  Draws <- SeenSize.Draws, Inbox <- SeenSize.Box, Watchers <- SeenSize.Watchers, engine <- v1,
  decision <- v2, log <- v3, held <- v4, history <- v5, aware <- v6, client <- v7

\* An agent that waits is woken.
LEMMA WakeHolds ==
  Spec => [](part = "wake" => Wake!AgentsAreWoken)
<1>1. First!Wake!Assumption
  BY WakeAssumption DEF Wake!Assumption, First!Wake!Assumption
<1> DEFINE Here == part = "wake"
<1>2. Init /\ Here => First!Wake!Init
  <2>1. Wake!Init => First!Wake!Init
    BY DEF Wake!Init, First!Wake!Init
  <2> QED
    BY <2>1 DEF Init
<1>3. Here /\ [Next]_vars => [First!Wake!Next]_(First!Wake!vars)
  <2>1. Wake!Next => First!Wake!Next
    BY DEF Wake!Act, Wake!Due, Wake!Goes, Wake!Kinds, Wake!Look, Wake!Next, Wake!Notify,
         Wake!Publish, Wake!ReadState, Wake!Reasons, Wake!Receive, Wake!Record, Wake!RecordEnd,
         Wake!Records, Wake!Resolved, Wake!RoomChanges, Wake!RoomEnds, Wake!RoomResolves,
         Wake!Sleep, Wake!Timeout, Wake!Wake, First!Wake!Act, First!Wake!Due, First!Wake!Goes,
         First!Wake!Kinds, First!Wake!Look, First!Wake!Next, First!Wake!Notify,
         First!Wake!Publish, First!Wake!ReadState, First!Wake!Reasons, First!Wake!Receive,
         First!Wake!Record, First!Wake!RecordEnd, First!Wake!Records, First!Wake!Resolved,
         First!Wake!RoomChanges, First!Wake!RoomEnds, First!Wake!RoomResolves,
         First!Wake!Sleep, First!Wake!Timeout, First!Wake!Wake
  <2>2. UNCHANGED vars => UNCHANGED First!Wake!vars
    BY DEF First!Wake!vars, vars, last7
  <2> QED
    BY <2>1, <2>2, SMTT(30) DEF Next
<1>4. First!Wake!AgentsAreWoken
        => Wake!AgentsAreWoken
  BY DEF Wake!AgentsAreWoken, Wake!DecisionIsTheReason, Wake!Served,
         Wake!SleeperHasNothingToDo, First!Wake!AgentsAreWoken, First!Wake!DecisionIsTheReason,
         First!Wake!Served, First!Wake!SleeperHasNothingToDo
<1>5. First!Wake!Spec => [](First!Wake!AgentsAreWoken)
  BY <1>1, First!NobodySleepsThrough, PTL
<1>6. /\ Here /\ [Next]_vars => Here'
      /\ ~Here /\ [Next]_vars => (~Here)'
  BY DEF Next, vars
<1>7. Spec => [](Here => Wake!AgentsAreWoken)
  <2> HIDE DEF Here
  <2> QED
    BY <1>2, <1>3, <1>4, <1>5, <1>6, PTL DEF Spec, First!Wake!Spec
<1> QED
  BY <1>7

\* The sessions of MCP agents.
LEMMA McpHolds ==
  Spec => [](part = "mcp" => Mcp!SessionsAreSound /\ Mcp!ExpelledAreOut)
<1>1. First!Mcp!Assumption
  BY McpAssumption DEF Mcp!Assumption, First!Mcp!Assumption
<1> DEFINE Here == part = "mcp"
<1>2. Init /\ Here => First!Mcp!Init
  <2>1. Mcp!Init => First!Mcp!Init
    BY DEF Mcp!Free, Mcp!Init, Mcp!None, Mcp!P, First!Mcp!Free, First!Mcp!Init, First!Mcp!None,
         First!Mcp!P
  <2> QED
    BY <2>1 DEF Init
<1>3. Here /\ [Next]_vars => [First!Mcp!Next]_(First!Mcp!vars)
  <2>1. Mcp!Next => First!Mcp!Next
    BY DEF Mcp!AskJoin, Mcp!Attach, Mcp!AttachFails, Mcp!Authenticated, Mcp!Bind, Mcp!Close,
         Mcp!Connected, Mcp!Create, Mcp!Delete, Mcp!Disconnected, Mcp!Enter, Mcp!Expire,
         Mcp!Free, Mcp!InSnapshot, Mcp!LeaveRoom, Mcp!LockJoin, Mcp!Look, Mcp!McpHears,
         Mcp!Next, Mcp!None, Mcp!OfToken, Mcp!Old, Mcp!Owner, Mcp!P, Mcp!Quiet, Mcp!Reconnect,
         Mcp!Register, Mcp!RemoveBinding, Mcp!Revoke, Mcp!Revoked, Mcp!RoomDrops,
         Mcp!RoomsHear, Mcp!Routed, Mcp!SendDisconnect, Mcp!SessionsOf, Mcp!Taken, Mcp!tables,
         Mcp!tasks, Mcp!tokens, First!Mcp!AskJoin, First!Mcp!Attach, First!Mcp!AttachFails,
         First!Mcp!Authenticated, First!Mcp!Bind, First!Mcp!Close, First!Mcp!Connected,
         First!Mcp!Create, First!Mcp!Delete, First!Mcp!Disconnected, First!Mcp!Enter,
         First!Mcp!Expire, First!Mcp!Free, First!Mcp!InSnapshot, First!Mcp!LeaveRoom,
         First!Mcp!LockJoin, First!Mcp!Look, First!Mcp!McpHears, First!Mcp!Next,
         First!Mcp!None, First!Mcp!OfToken, First!Mcp!Old, First!Mcp!Owner, First!Mcp!P,
         First!Mcp!Quiet, First!Mcp!Reconnect, First!Mcp!Register, First!Mcp!RemoveBinding,
         First!Mcp!Revoke, First!Mcp!Revoked, First!Mcp!RoomDrops, First!Mcp!RoomsHear,
         First!Mcp!Routed, First!Mcp!SendDisconnect, First!Mcp!SessionsOf, First!Mcp!Taken,
         First!Mcp!tables, First!Mcp!tasks, First!Mcp!tokens
  <2>2. UNCHANGED vars => UNCHANGED First!Mcp!vars
    BY DEF First!Mcp!vars, vars, last7
  <2> QED
    BY <2>1, <2>2, SMTT(30) DEF Next
<1>4. First!Mcp!SessionsAreSound /\ First!Mcp!ExpelledAreOut
        => Mcp!SessionsAreSound /\ Mcp!ExpelledAreOut
  BY DEF Mcp!Cardinality, Mcp!Connected, Mcp!ExpelledAreOut, Mcp!Held, Mcp!InSnapshot,
         Mcp!NoGhostAgents, Mcp!None, Mcp!OneAgentPerToken, Mcp!Owner, Mcp!P,
         Mcp!SessionsAreSound, Mcp!SessionsOf, First!Mcp!Cardinality, First!Mcp!Connected,
         First!Mcp!ExpelledAreOut, First!Mcp!Held, First!Mcp!InSnapshot,
         First!Mcp!NoGhostAgents, First!Mcp!None, First!Mcp!OneAgentPerToken, First!Mcp!Owner,
         First!Mcp!P, First!Mcp!SessionsAreSound, First!Mcp!SessionsOf
<1>5. First!Mcp!Spec => [](First!Mcp!SessionsAreSound /\ First!Mcp!ExpelledAreOut)
  BY <1>1, First!OneAgentOneSession, First!RevokedSessionsEnd, PTL
<1>6. /\ Here /\ [Next]_vars => Here'
      /\ ~Here /\ [Next]_vars => (~Here)'
  BY DEF Next, vars
<1>7. Spec => [](Here => Mcp!SessionsAreSound /\ Mcp!ExpelledAreOut)
  <2> HIDE DEF Here
  <2> QED
    BY <1>2, <1>3, <1>4, <1>5, <1>6, PTL DEF Spec, First!Mcp!Spec
<1> QED
  BY <1>7

\* The views of a Match.
LEMMA SeenHolds ==
  Spec => [](part = "views" => Seen!SeesOnlyWhatItMay /\ Seen!ViewsAgree)
<1>1. First!Sight!Assumption
  BY ViewsAssumption DEF Seen!Assumption, Seen!Audiences, Seen!Public, Seen!Seats, First!Sight!Assumption,
         First!Sight!Audiences, First!Sight!Public, First!Sight!Seats
<1> DEFINE Here == part = "views"
<1>2. Init /\ Here => First!Sight!Init
  <2>1. Seen!Init => First!Sight!Init
    BY ZenonT(60) DEF Seen!Audiences, Seen!Blank, Seen!Cardinality, Seen!Continued, Seen!Dealt,
         Seen!DrawEvent, Seen!Drawn, Seen!Event, Seen!FinishCurrent, Seen!Init, Seen!NoHold,
         Seen!NoResults, Seen!Plain, Seen!Public, Seen!Published, Seen!Recorded, Seen!Seats,
         Seen!StartEvents, Seen!StartOf, Seen!Starts, Seen!Table, Seen!Teaches, Seen!Terminal,
         Seen!Turn, Seen!View, Seen!VisibleDecision, Seen!VisibleMeld, First!Sight!Audiences,
         First!Sight!Blank, First!Sight!Cardinality, First!Sight!Continued, First!Sight!Dealt,
         First!Sight!DrawEvent, First!Sight!Drawn, First!Sight!Event,
         First!Sight!FinishCurrent, First!Sight!Init, First!Sight!NoHold,
         First!Sight!NoResults, First!Sight!Plain, First!Sight!Public, First!Sight!Published,
         First!Sight!Recorded, First!Sight!Seats, First!Sight!StartEvents, First!Sight!StartOf,
         First!Sight!Starts, First!Sight!Table, First!Sight!Teaches, First!Sight!Terminal,
         First!Sight!Turn, First!Sight!View, First!Sight!VisibleDecision,
         First!Sight!VisibleMeld
  <2> QED
    BY <2>1 DEF Init
<1>3. Here /\ [Next]_vars => [First!Sight!Next]_(First!Sight!vars)
  <2>1. Seen!Next => First!Sight!Next
    <3>1. \A h, published, notes :
            Seen!PublishStep(h, published, notes)
              <=> First!Sight!PublishStep(h, published, notes)
      BY SMTT(30) DEF
             Seen!Audiences, Seen!Cardinality, Seen!Continued, Seen!FinishCurrent, Seen!Learn,
             Seen!Logged, Seen!NoResults, Seen!Note, Seen!Public, Seen!Publish,
             Seen!PublishStep, Seen!Recorded, Seen!Seats, Seen!StartOf, Seen!Starts,
             Seen!StepNotes, Seen!Teaches, Seen!Terminal, First!Sight!Audiences,
             First!Sight!Cardinality, First!Sight!Continued, First!Sight!FinishCurrent,
             First!Sight!Learn, First!Sight!Logged, First!Sight!NoResults, First!Sight!Note,
             First!Sight!Public, First!Sight!Publish, First!Sight!PublishStep,
             First!Sight!Recorded, First!Sight!Seats, First!Sight!StartOf, First!Sight!Starts,
             First!Sight!StepNotes, First!Sight!Teaches, First!Sight!Terminal
    <3>2. \A e, events, wins, tiles, showing :
            Seen!Ends(e, events, wins, tiles, showing)
              <=> First!Sight!Ends(e, events, wins, tiles, showing)
      BY SMTT(30), <3>1 DEF
             Seen!Dealt, Seen!DrawEvent, Seen!Drawn, Seen!Ends, Seen!Event, Seen!NoDecision,
             Seen!Note, Seen!Plain, Seen!ResolvedNotes, Seen!Seats, Seen!StartEvents, Seen!Turn,
             First!Sight!Dealt, First!Sight!DrawEvent, First!Sight!Drawn, First!Sight!Ends,
             First!Sight!Event, First!Sight!NoDecision, First!Sight!Note, First!Sight!Plain,
             First!Sight!ResolvedNotes, First!Sight!Seats, First!Sight!StartEvents,
             First!Sight!Turn
    <3>3. \A e, events, d :
            Seen!Goes(e, events, d)
              <=> First!Sight!Goes(e, events, d)
      BY SMTT(30) DEF
             Seen!Audiences, Seen!Cardinality, Seen!Continued, Seen!FinishCurrent, Seen!Goes,
             Seen!Learn, Seen!Logged, Seen!NoResults, Seen!Note, Seen!Public, Seen!Publish,
             Seen!Recorded, Seen!ResolvedNotes, Seen!Seats, Seen!StartOf, Seen!Starts,
             Seen!Teaches, Seen!Terminal, First!Sight!Audiences, First!Sight!Cardinality,
             First!Sight!Continued, First!Sight!FinishCurrent, First!Sight!Goes,
             First!Sight!Learn, First!Sight!Logged, First!Sight!NoResults, First!Sight!Note,
             First!Sight!Public, First!Sight!Publish, First!Sight!Recorded,
             First!Sight!ResolvedNotes, First!Sight!Seats, First!Sight!StartOf,
             First!Sight!Starts, First!Sight!Teaches, First!Sight!Terminal
    <3>4. \A e, events, s :
            Seen!DrawNext(e, events, s)
              <=> First!Sight!DrawNext(e, events, s)
      BY SMTT(30), <3>2, <3>3 DEF
             Seen!DrawEvent, Seen!DrawNext, Seen!Drawn, Seen!Event, Seen!Plain, Seen!Seats,
             Seen!Turn, First!Sight!DrawEvent, First!Sight!DrawNext, First!Sight!Drawn,
             First!Sight!Event, First!Sight!Plain, First!Sight!Seats, First!Sight!Turn
    <3>5. \A s : Seen!SelfDraw(s) <=> First!Sight!SelfDraw(s)
      BY ZenonT(60), <3>2 DEF
             Seen!Newest, Seen!SelfDraw, Seen!Win, First!Sight!Newest, First!Sight!SelfDraw,
             First!Sight!Win
    <3>6. \A s, t : Seen!Discard(s, t) <=> First!Sight!Discard(s, t)
      BY ZenonT(60), <3>3, <3>4 DEF
             Seen!Discard, Seen!Event, Seen!Following, Seen!Plain, Seen!Seats,
             First!Sight!Discard, First!Sight!Event, First!Sight!Following, First!Sight!Plain,
             First!Sight!Seats
    <3>7. \A s, c : Seen!ClosedKan(s, c) <=> First!Sight!ClosedKan(s, c)
      BY SMTT(30), <3>3 DEF
             Seen!ClosedKan, Seen!DrawEvent, Seen!Drawn, Seen!Event, Seen!Plain, Seen!Seats,
             Seen!Turn, First!Sight!ClosedKan, First!Sight!DrawEvent, First!Sight!Drawn,
             First!Sight!Event, First!Sight!Plain, First!Sight!Seats, First!Sight!Turn
    <3>8. Seen!TakeTurn => First!Sight!TakeTurn
      BY ZenonT(60), <3>5, <3>6, <3>7 DEF
             Seen!Cardinality, Seen!Newest, Seen!Oldest, Seen!Playing, Seen!TakeTurn,
             First!Sight!Cardinality, First!Sight!Newest, First!Sight!Oldest,
             First!Sight!Playing, First!Sight!TakeTurn
    <3>9. Seen!Submit => First!Sight!Submit
      BY SMTT(30) DEF
             Seen!Note, Seen!Playing, Seen!Publish, Seen!ResolvedNotes, Seen!Submit,
             First!Sight!Note, First!Sight!Playing, First!Sight!Publish,
             First!Sight!ResolvedNotes, First!Sight!Submit
    <3>10. Seen!Respond => First!Sight!Respond
      BY ZenonT(60), <3>2, <3>3, <3>4 DEF
             Seen!Cardinality, Seen!Event, Seen!Following, Seen!InOrder, Seen!Oldest,
             Seen!Plain, Seen!Playing, Seen!Respond, Seen!Seats, Seen!Turn, Seen!Win,
             First!Sight!Cardinality, First!Sight!Event, First!Sight!Following,
             First!Sight!InOrder, First!Sight!Oldest, First!Sight!Plain, First!Sight!Playing,
             First!Sight!Respond, First!Sight!Seats, First!Sight!Turn, First!Sight!Win
    <3>11. Seen!NextStep => First!Sight!NextStep
      BY ZenonT(60) DEF
             Seen!Audiences, Seen!Cardinality, Seen!Continued, Seen!FinishCurrent, Seen!Learn,
             Seen!Logged, Seen!NextStep, Seen!NoResults, Seen!Note, Seen!Public, Seen!Publish,
             Seen!PublishStep, Seen!Recorded, Seen!Seats, Seen!StartOf, Seen!Starts,
             Seen!StepNotes, Seen!Teaches, Seen!Terminal, First!Sight!Audiences,
             First!Sight!Cardinality, First!Sight!Continued, First!Sight!FinishCurrent,
             First!Sight!Learn, First!Sight!Logged, First!Sight!NextStep, First!Sight!NoResults,
             First!Sight!Note, First!Sight!Public, First!Sight!Publish, First!Sight!PublishStep,
             First!Sight!Recorded, First!Sight!Seats, First!Sight!StartOf, First!Sight!Starts,
             First!Sight!StepNotes, First!Sight!Teaches, First!Sight!Terminal
    <3>12. Seen!Release => First!Sight!Release
      BY ZenonT(60) DEF
             Seen!Archivable, Seen!Audiences, Seen!Cardinality, Seen!Continued,
             Seen!FinishCurrent, Seen!Learn, Seen!Logged, Seen!NoHold, Seen!NoResults,
             Seen!Note, Seen!Public, Seen!Publish, Seen!Published, Seen!Recorded, Seen!Release,
             Seen!Seats, Seen!StartOf, Seen!Starts, Seen!StepNotes, Seen!Teaches, Seen!Terminal,
             First!Sight!Archivable, First!Sight!Audiences, First!Sight!Cardinality,
             First!Sight!Continued, First!Sight!FinishCurrent, First!Sight!Learn,
             First!Sight!Logged, First!Sight!NoHold, First!Sight!NoResults, First!Sight!Note,
             First!Sight!Public, First!Sight!Publish, First!Sight!Published,
             First!Sight!Recorded, First!Sight!Release, First!Sight!Seats, First!Sight!StartOf,
             First!Sight!Starts, First!Sight!StepNotes, First!Sight!Teaches,
             First!Sight!Terminal
    <3>13. Seen!Deliver => First!Sight!Deliver
      BY ZenonT(60) DEF
             Seen!Cardinality, Seen!Deliver, Seen!HistoryEvent, Seen!HumanEvent, Seen!IsPrefix,
             Seen!IsSuffix, Seen!NoResults, Seen!Public, Seen!Published, Seen!Reverse,
             Seen!Seats, Seen!Table, Seen!View, Seen!VisibleDecision, Seen!VisibleMeld,
             First!Sight!Cardinality, First!Sight!Deliver, First!Sight!HistoryEvent,
             First!Sight!HumanEvent, First!Sight!IsPrefix, First!Sight!IsSuffix,
             First!Sight!NoResults, First!Sight!Public, First!Sight!Published,
             First!Sight!Reverse, First!Sight!Seats, First!Sight!Table, First!Sight!View,
             First!Sight!VisibleDecision, First!Sight!VisibleMeld
    <3>14. Seen!Reconnect => First!Sight!Reconnect
      BY DEF
             Seen!Note, Seen!Reconnect, First!Sight!Note, First!Sight!Reconnect
    <3> QED
      BY <3>8, <3>9, <3>10, <3>11, <3>12, <3>13, <3>14 DEF Seen!Next, First!Sight!Next
  <2>2. UNCHANGED vars => UNCHANGED First!Sight!vars
    BY DEF First!Sight!vars, vars, last8
  <2> QED
    BY <2>1, <2>2, SMTT(30) DEF Next
<1>4. First!Sight!SeesOnlyWhatItMay /\ First!Sight!ViewsAgree
        => Seen!SeesOnlyWhatItMay /\ Seen!ViewsAgree
  BY ZenonT(60) DEF Seen!Archivable, Seen!Audiences, Seen!Cardinality, Seen!ClientIsCurrent,
         Seen!EventTiles, Seen!EventsTiles, Seen!HandByHistory, Seen!HistoryEvent,
         Seen!HistoryTellsTheHand, Seen!HistoryView, Seen!MjaiEvent, Seen!NoResults,
         Seen!Public, Seen!Published, Seen!ResultTiles, Seen!ResultsAreFiled, Seen!Seats,
         Seen!SeesOnlyWhatItMay, Seen!Table, Seen!View, Seen!ViewTiles, Seen!ViewsAgree,
         Seen!VisibleDecision, Seen!VisibleMeld, First!Sight!Archivable, First!Sight!Audiences,
         First!Sight!Cardinality, First!Sight!ClientIsCurrent, First!Sight!EventTiles,
         First!Sight!EventsTiles, First!Sight!HandByHistory, First!Sight!HistoryEvent,
         First!Sight!HistoryTellsTheHand, First!Sight!HistoryView, First!Sight!MjaiEvent,
         First!Sight!NoResults, First!Sight!Public, First!Sight!Published,
         First!Sight!ResultTiles, First!Sight!ResultsAreFiled, First!Sight!Seats,
         First!Sight!SeesOnlyWhatItMay, First!Sight!Table, First!Sight!View,
         First!Sight!ViewTiles, First!Sight!ViewsAgree, First!Sight!VisibleDecision,
         First!Sight!VisibleMeld
<1>5. First!Sight!Spec => [](First!Sight!SeesOnlyWhatItMay /\ First!Sight!ViewsAgree)
  BY <1>1, First!ViewsShowNoMore, First!ViewsFit, PTL
<1>6. /\ Here /\ [Next]_vars => Here'
      /\ ~Here /\ [Next]_vars => (~Here)'
  BY DEF Next, vars
<1>7. Spec => [](Here => Seen!SeesOnlyWhatItMay /\ Seen!ViewsAgree)
  <2> HIDE DEF Here
  <2> QED
    BY <1>2, <1>3, <1>4, <1>5, <1>6, PTL DEF Spec, First!Sight!Spec
<1> QED
  BY <1>7

-----------------------------------------------------------------------------
\* ... and the other.
Second == INSTANCE McpProofs WITH
  Tasks <- ListenSize.Tasks, Queue <- ListenSize.Queue, MaxRev <- ListenSize.MaxRev, rev <- v1,
  mine <- v2, gone <- v3, events <- v4, lost <- v5, busy <- v6, wake <- v7, agent <- v8,
  told <- v9, S <- GatewaySize.S, Id <- GatewaySize.Id, Token <- GatewaySize.Token,
  IdOf <- GatewaySize.IdOf, TokenOf <- GatewaySize.TokenOf, Stateless <- GatewaySize.Stateless,
  MaxJoins <- GatewaySize.MaxJoins, known <- v1, live <- v2, entry <- v3, bound <- v4,
  pair <- v5, retired <- v6, banned <- v7, good <- v8, notices <- v9, asked <- v10, join <- v11,
  leaving <- v12, cleanup <- v13, closing <- v14, room <- v15, N <- SocketSize.N,
  Kyokus <- SocketSize.Kyokus, Draws <- SocketSize.Draws, Inbox <- SocketSize.Box,
  Watchers <- SocketSize.Watchers, engine <- v1, decision <- v2, log <- v3, held <- v4,
  history <- v5, aware <- v6, client <- v7

\* So is one that listens.
LEMMA ListenHolds ==
  Spec => [](part = "listen" => Listen!AgentsAreWoken)
<1>1. Second!Wake!Assumption
  BY WakeAssumption DEF Listen!Assumption, Second!Wake!Assumption
<1> DEFINE Here == part = "listen"
<1>2. Init /\ Here => Second!Wake!Init
  <2>1. Listen!Init => Second!Wake!Init
    BY DEF Listen!Init, Second!Wake!Init
  <2> QED
    BY <2>1 DEF Init
<1>3. Here /\ [Next]_vars => [Second!Wake!Next]_(Second!Wake!vars)
  <2>1. Listen!Next => Second!Wake!Next
    BY DEF Listen!Act, Listen!Due, Listen!Goes, Listen!Kinds, Listen!Look, Listen!Next,
         Listen!Notify, Listen!Publish, Listen!ReadState, Listen!Reasons, Listen!Receive,
         Listen!Record, Listen!RecordEnd, Listen!Records, Listen!Resolved, Listen!RoomChanges,
         Listen!RoomEnds, Listen!RoomResolves, Listen!Sleep, Listen!Timeout, Listen!Wake,
         Second!Wake!Act, Second!Wake!Due, Second!Wake!Goes, Second!Wake!Kinds,
         Second!Wake!Look, Second!Wake!Next, Second!Wake!Notify, Second!Wake!Publish,
         Second!Wake!ReadState, Second!Wake!Reasons, Second!Wake!Receive, Second!Wake!Record,
         Second!Wake!RecordEnd, Second!Wake!Records, Second!Wake!Resolved,
         Second!Wake!RoomChanges, Second!Wake!RoomEnds, Second!Wake!RoomResolves,
         Second!Wake!Sleep, Second!Wake!Timeout, Second!Wake!Wake
  <2>2. UNCHANGED vars => UNCHANGED Second!Wake!vars
    BY DEF Second!Wake!vars, vars, last7
  <2> QED
    BY <2>1, <2>2, SMTT(30) DEF Next
<1>4. Second!Wake!AgentsAreWoken
        => Listen!AgentsAreWoken
  BY DEF Listen!AgentsAreWoken, Listen!DecisionIsTheReason, Listen!Served,
         Listen!SleeperHasNothingToDo, Second!Wake!AgentsAreWoken,
         Second!Wake!DecisionIsTheReason, Second!Wake!Served,
         Second!Wake!SleeperHasNothingToDo
<1>5. Second!Wake!Spec => [](Second!Wake!AgentsAreWoken)
  BY <1>1, Second!NobodySleepsThrough, PTL
<1>6. /\ Here /\ [Next]_vars => Here'
      /\ ~Here /\ [Next]_vars => (~Here)'
  BY DEF Next, vars
<1>7. Spec => [](Here => Listen!AgentsAreWoken)
  <2> HIDE DEF Here
  <2> QED
    BY <1>2, <1>3, <1>4, <1>5, <1>6, PTL DEF Spec, Second!Wake!Spec
<1> QED
  BY <1>7

\* The identities of the gateway.
LEMMA GatewayHolds ==
  Spec => [](part = "gateway" => Gateway!SessionsAreSound /\ Gateway!ExpelledAreOut)
<1>1. Second!Mcp!Assumption
  BY McpAssumption DEF Gateway!Assumption, Second!Mcp!Assumption
<1> DEFINE Here == part = "gateway"
<1>2. Init /\ Here => Second!Mcp!Init
  <2>1. Gateway!Init => Second!Mcp!Init
    BY DEF Gateway!Free, Gateway!Init, Gateway!None, Gateway!P, Second!Mcp!Free, Second!Mcp!Init,
         Second!Mcp!None, Second!Mcp!P
  <2> QED
    BY <2>1 DEF Init
<1>3. Here /\ [Next]_vars => [Second!Mcp!Next]_(Second!Mcp!vars)
  <2>1. Gateway!Next => Second!Mcp!Next
    BY DEF Gateway!AskJoin, Gateway!Attach, Gateway!AttachFails, Gateway!Authenticated,
         Gateway!Bind, Gateway!Close, Gateway!Connected, Gateway!Create, Gateway!Delete,
         Gateway!Disconnected, Gateway!Enter, Gateway!Expire, Gateway!Free, Gateway!InSnapshot,
         Gateway!LeaveRoom, Gateway!LockJoin, Gateway!Look, Gateway!McpHears, Gateway!Next,
         Gateway!None, Gateway!OfToken, Gateway!Old, Gateway!Owner, Gateway!P, Gateway!Quiet,
         Gateway!Reconnect, Gateway!Register, Gateway!RemoveBinding, Gateway!Revoke,
         Gateway!Revoked, Gateway!RoomDrops, Gateway!RoomsHear, Gateway!Routed,
         Gateway!SendDisconnect, Gateway!SessionsOf, Gateway!Taken, Gateway!tables,
         Gateway!tasks, Gateway!tokens, Second!Mcp!AskJoin, Second!Mcp!Attach,
         Second!Mcp!AttachFails, Second!Mcp!Authenticated, Second!Mcp!Bind, Second!Mcp!Close,
         Second!Mcp!Connected, Second!Mcp!Create, Second!Mcp!Delete, Second!Mcp!Disconnected,
         Second!Mcp!Enter, Second!Mcp!Expire, Second!Mcp!Free, Second!Mcp!InSnapshot,
         Second!Mcp!LeaveRoom, Second!Mcp!LockJoin, Second!Mcp!Look, Second!Mcp!McpHears,
         Second!Mcp!Next, Second!Mcp!None, Second!Mcp!OfToken, Second!Mcp!Old,
         Second!Mcp!Owner, Second!Mcp!P, Second!Mcp!Quiet, Second!Mcp!Reconnect,
         Second!Mcp!Register, Second!Mcp!RemoveBinding, Second!Mcp!Revoke, Second!Mcp!Revoked,
         Second!Mcp!RoomDrops, Second!Mcp!RoomsHear, Second!Mcp!Routed,
         Second!Mcp!SendDisconnect, Second!Mcp!SessionsOf, Second!Mcp!Taken, Second!Mcp!tables,
         Second!Mcp!tasks, Second!Mcp!tokens
  <2>2. UNCHANGED vars => UNCHANGED Second!Mcp!vars
    BY DEF Second!Mcp!vars, vars, last7
  <2> QED
    BY <2>1, <2>2, SMTT(30) DEF Next
<1>4. Second!Mcp!SessionsAreSound /\ Second!Mcp!ExpelledAreOut
        => Gateway!SessionsAreSound /\ Gateway!ExpelledAreOut
  BY DEF Gateway!Cardinality, Gateway!Connected, Gateway!ExpelledAreOut, Gateway!Held,
         Gateway!InSnapshot, Gateway!NoGhostAgents, Gateway!None, Gateway!OneAgentPerToken,
         Gateway!Owner, Gateway!P, Gateway!SessionsAreSound, Gateway!SessionsOf,
         Second!Mcp!Cardinality, Second!Mcp!Connected, Second!Mcp!ExpelledAreOut,
         Second!Mcp!Held, Second!Mcp!InSnapshot, Second!Mcp!NoGhostAgents, Second!Mcp!None,
         Second!Mcp!OneAgentPerToken, Second!Mcp!Owner, Second!Mcp!P,
         Second!Mcp!SessionsAreSound, Second!Mcp!SessionsOf
<1>5. Second!Mcp!Spec => [](Second!Mcp!SessionsAreSound /\ Second!Mcp!ExpelledAreOut)
  BY <1>1, Second!OneAgentOneSession, Second!RevokedSessionsEnd, PTL
<1>6. /\ Here /\ [Next]_vars => Here'
      /\ ~Here /\ [Next]_vars => (~Here)'
  BY DEF Next, vars
<1>7. Spec => [](Here => Gateway!SessionsAreSound /\ Gateway!ExpelledAreOut)
  <2> HIDE DEF Here
  <2> QED
    BY <1>2, <1>3, <1>4, <1>5, <1>6, PTL DEF Spec, Second!Mcp!Spec
<1> QED
  BY <1>7

\* The same with the socket of one audience.
LEMMA SocketHolds ==
  Spec => [](part = "socket" => Socket!SeesOnlyWhatItMay /\ Socket!ViewsAgree)
<1>1. Second!Sight!Assumption
  BY ViewsAssumption DEF Socket!Assumption, Socket!Audiences, Socket!Public, Socket!Seats,
         Second!Sight!Assumption, Second!Sight!Audiences, Second!Sight!Public,
         Second!Sight!Seats
<1> DEFINE Here == part = "socket"
<1>2. Init /\ Here => Second!Sight!Init
  <2>1. Socket!Init => Second!Sight!Init
    BY ZenonT(60) DEF Socket!Audiences, Socket!Blank, Socket!Cardinality, Socket!Continued, Socket!Dealt,
         Socket!DrawEvent, Socket!Drawn, Socket!Event, Socket!FinishCurrent, Socket!Init,
         Socket!NoHold, Socket!NoResults, Socket!Plain, Socket!Public, Socket!Published,
         Socket!Recorded, Socket!Seats, Socket!StartEvents, Socket!StartOf, Socket!Starts,
         Socket!Table, Socket!Teaches, Socket!Terminal, Socket!Turn, Socket!View,
         Socket!VisibleDecision, Socket!VisibleMeld, Second!Sight!Audiences,
         Second!Sight!Blank, Second!Sight!Cardinality, Second!Sight!Continued,
         Second!Sight!Dealt, Second!Sight!DrawEvent, Second!Sight!Drawn, Second!Sight!Event,
         Second!Sight!FinishCurrent, Second!Sight!Init, Second!Sight!NoHold,
         Second!Sight!NoResults, Second!Sight!Plain, Second!Sight!Public,
         Second!Sight!Published, Second!Sight!Recorded, Second!Sight!Seats,
         Second!Sight!StartEvents, Second!Sight!StartOf, Second!Sight!Starts,
         Second!Sight!Table, Second!Sight!Teaches, Second!Sight!Terminal, Second!Sight!Turn,
         Second!Sight!View, Second!Sight!VisibleDecision, Second!Sight!VisibleMeld
  <2> QED
    BY <2>1 DEF Init
<1>3. Here /\ [Next]_vars => [Second!Sight!Next]_(Second!Sight!vars)
  <2>1. Socket!Next => Second!Sight!Next
    <3>1. \A h, published, notes :
            Socket!PublishStep(h, published, notes)
              <=> Second!Sight!PublishStep(h, published, notes)
      BY SMTT(30) DEF
             Socket!Audiences, Socket!Cardinality, Socket!Continued, Socket!FinishCurrent,
             Socket!Learn, Socket!Logged, Socket!NoResults, Socket!Note, Socket!Public,
             Socket!Publish, Socket!PublishStep, Socket!Recorded, Socket!Seats, Socket!StartOf,
             Socket!Starts, Socket!StepNotes, Socket!Teaches, Socket!Terminal,
             Second!Sight!Audiences, Second!Sight!Cardinality, Second!Sight!Continued,
             Second!Sight!FinishCurrent, Second!Sight!Learn, Second!Sight!Logged,
             Second!Sight!NoResults, Second!Sight!Note, Second!Sight!Public,
             Second!Sight!Publish, Second!Sight!PublishStep, Second!Sight!Recorded,
             Second!Sight!Seats, Second!Sight!StartOf, Second!Sight!Starts,
             Second!Sight!StepNotes, Second!Sight!Teaches, Second!Sight!Terminal
    <3>2. \A e, events, wins, tiles, showing :
            Socket!Ends(e, events, wins, tiles, showing)
              <=> Second!Sight!Ends(e, events, wins, tiles, showing)
      BY SMTT(30), <3>1 DEF
             Socket!Dealt, Socket!DrawEvent, Socket!Drawn, Socket!Ends, Socket!Event,
             Socket!NoDecision, Socket!Note, Socket!Plain, Socket!ResolvedNotes, Socket!Seats,
             Socket!StartEvents, Socket!Turn, Second!Sight!Dealt, Second!Sight!DrawEvent,
             Second!Sight!Drawn, Second!Sight!Ends, Second!Sight!Event, Second!Sight!NoDecision,
             Second!Sight!Note, Second!Sight!Plain, Second!Sight!ResolvedNotes,
             Second!Sight!Seats, Second!Sight!StartEvents, Second!Sight!Turn
    <3>3. \A e, events, d :
            Socket!Goes(e, events, d)
              <=> Second!Sight!Goes(e, events, d)
      BY SMTT(30) DEF
             Socket!Audiences, Socket!Cardinality, Socket!Continued, Socket!FinishCurrent,
             Socket!Goes, Socket!Learn, Socket!Logged, Socket!NoResults, Socket!Note,
             Socket!Public, Socket!Publish, Socket!Recorded, Socket!ResolvedNotes, Socket!Seats,
             Socket!StartOf, Socket!Starts, Socket!Teaches, Socket!Terminal,
             Second!Sight!Audiences, Second!Sight!Cardinality, Second!Sight!Continued,
             Second!Sight!FinishCurrent, Second!Sight!Goes, Second!Sight!Learn,
             Second!Sight!Logged, Second!Sight!NoResults, Second!Sight!Note,
             Second!Sight!Public, Second!Sight!Publish, Second!Sight!Recorded,
             Second!Sight!ResolvedNotes, Second!Sight!Seats, Second!Sight!StartOf,
             Second!Sight!Starts, Second!Sight!Teaches, Second!Sight!Terminal
    <3>4. \A e, events, s :
            Socket!DrawNext(e, events, s)
              <=> Second!Sight!DrawNext(e, events, s)
      BY SMTT(30), <3>2, <3>3 DEF
             Socket!DrawEvent, Socket!DrawNext, Socket!Drawn, Socket!Event, Socket!Plain,
             Socket!Seats, Socket!Turn, Second!Sight!DrawEvent, Second!Sight!DrawNext,
             Second!Sight!Drawn, Second!Sight!Event, Second!Sight!Plain, Second!Sight!Seats,
             Second!Sight!Turn
    <3>5. \A s : Socket!SelfDraw(s) <=> Second!Sight!SelfDraw(s)
      BY ZenonT(60), <3>2 DEF
             Socket!Newest, Socket!SelfDraw, Socket!Win, Second!Sight!Newest,
             Second!Sight!SelfDraw, Second!Sight!Win
    <3>6. \A s, t : Socket!Discard(s, t) <=> Second!Sight!Discard(s, t)
      BY ZenonT(60), <3>3, <3>4 DEF
             Socket!Discard, Socket!Event, Socket!Following, Socket!Plain, Socket!Seats,
             Second!Sight!Discard, Second!Sight!Event, Second!Sight!Following,
             Second!Sight!Plain, Second!Sight!Seats
    <3>7. \A s, c : Socket!ClosedKan(s, c) <=> Second!Sight!ClosedKan(s, c)
      BY SMTT(30), <3>3 DEF
             Socket!ClosedKan, Socket!DrawEvent, Socket!Drawn, Socket!Event, Socket!Plain,
             Socket!Seats, Socket!Turn, Second!Sight!ClosedKan, Second!Sight!DrawEvent,
             Second!Sight!Drawn, Second!Sight!Event, Second!Sight!Plain, Second!Sight!Seats,
             Second!Sight!Turn
    <3>8. Socket!TakeTurn => Second!Sight!TakeTurn
      BY ZenonT(60), <3>5, <3>6, <3>7 DEF
             Socket!Cardinality, Socket!Newest, Socket!Oldest, Socket!Playing, Socket!TakeTurn,
             Second!Sight!Cardinality, Second!Sight!Newest, Second!Sight!Oldest,
             Second!Sight!Playing, Second!Sight!TakeTurn
    <3>9. Socket!Submit => Second!Sight!Submit
      BY SMTT(30) DEF
             Socket!Note, Socket!Playing, Socket!Publish, Socket!ResolvedNotes, Socket!Submit,
             Second!Sight!Note, Second!Sight!Playing, Second!Sight!Publish,
             Second!Sight!ResolvedNotes, Second!Sight!Submit
    <3>10. Socket!Respond => Second!Sight!Respond
      BY ZenonT(60), <3>2, <3>3, <3>4 DEF
             Socket!Cardinality, Socket!Event, Socket!Following, Socket!InOrder, Socket!Oldest,
             Socket!Plain, Socket!Playing, Socket!Respond, Socket!Seats, Socket!Turn,
             Socket!Win, Second!Sight!Cardinality, Second!Sight!Event, Second!Sight!Following,
             Second!Sight!InOrder, Second!Sight!Oldest, Second!Sight!Plain,
             Second!Sight!Playing, Second!Sight!Respond, Second!Sight!Seats, Second!Sight!Turn,
             Second!Sight!Win
    <3>11. Socket!NextStep => Second!Sight!NextStep
      BY ZenonT(60) DEF
             Socket!Audiences, Socket!Cardinality, Socket!Continued, Socket!FinishCurrent,
             Socket!Learn, Socket!Logged, Socket!NextStep, Socket!NoResults, Socket!Note,
             Socket!Public, Socket!Publish, Socket!PublishStep, Socket!Recorded, Socket!Seats,
             Socket!StartOf, Socket!Starts, Socket!StepNotes, Socket!Teaches, Socket!Terminal,
             Second!Sight!Audiences, Second!Sight!Cardinality, Second!Sight!Continued,
             Second!Sight!FinishCurrent, Second!Sight!Learn, Second!Sight!Logged,
             Second!Sight!NextStep, Second!Sight!NoResults, Second!Sight!Note,
             Second!Sight!Public, Second!Sight!Publish, Second!Sight!PublishStep,
             Second!Sight!Recorded, Second!Sight!Seats, Second!Sight!StartOf,
             Second!Sight!Starts, Second!Sight!StepNotes, Second!Sight!Teaches,
             Second!Sight!Terminal
    <3>12. Socket!Release => Second!Sight!Release
      BY ZenonT(60) DEF
             Socket!Archivable, Socket!Audiences, Socket!Cardinality, Socket!Continued,
             Socket!FinishCurrent, Socket!Learn, Socket!Logged, Socket!NoHold, Socket!NoResults,
             Socket!Note, Socket!Public, Socket!Publish, Socket!Published, Socket!Recorded,
             Socket!Release, Socket!Seats, Socket!StartOf, Socket!Starts, Socket!StepNotes,
             Socket!Teaches, Socket!Terminal, Second!Sight!Archivable, Second!Sight!Audiences,
             Second!Sight!Cardinality, Second!Sight!Continued, Second!Sight!FinishCurrent,
             Second!Sight!Learn, Second!Sight!Logged, Second!Sight!NoHold,
             Second!Sight!NoResults, Second!Sight!Note, Second!Sight!Public,
             Second!Sight!Publish, Second!Sight!Published, Second!Sight!Recorded,
             Second!Sight!Release, Second!Sight!Seats, Second!Sight!StartOf,
             Second!Sight!Starts, Second!Sight!StepNotes, Second!Sight!Teaches,
             Second!Sight!Terminal
    <3>13. Socket!Deliver => Second!Sight!Deliver
      BY ZenonT(60) DEF
             Socket!Cardinality, Socket!Deliver, Socket!HistoryEvent, Socket!HumanEvent,
             Socket!IsPrefix, Socket!IsSuffix, Socket!NoResults, Socket!Public,
             Socket!Published, Socket!Reverse, Socket!Seats, Socket!Table, Socket!View,
             Socket!VisibleDecision, Socket!VisibleMeld, Second!Sight!Cardinality,
             Second!Sight!Deliver, Second!Sight!HistoryEvent, Second!Sight!HumanEvent,
             Second!Sight!IsPrefix, Second!Sight!IsSuffix, Second!Sight!NoResults,
             Second!Sight!Public, Second!Sight!Published, Second!Sight!Reverse,
             Second!Sight!Seats, Second!Sight!Table, Second!Sight!View,
             Second!Sight!VisibleDecision, Second!Sight!VisibleMeld
    <3>14. Socket!Reconnect => Second!Sight!Reconnect
      BY DEF
             Socket!Note, Socket!Reconnect, Second!Sight!Note, Second!Sight!Reconnect
    <3> QED
      BY <3>8, <3>9, <3>10, <3>11, <3>12, <3>13, <3>14 DEF Socket!Next, Second!Sight!Next
  <2>2. UNCHANGED vars => UNCHANGED Second!Sight!vars
    BY DEF Second!Sight!vars, vars, last8
  <2> QED
    BY <2>1, <2>2, SMTT(30) DEF Next
<1>4. Second!Sight!SeesOnlyWhatItMay /\ Second!Sight!ViewsAgree
        => Socket!SeesOnlyWhatItMay /\ Socket!ViewsAgree
  BY ZenonT(60) DEF Socket!Archivable, Socket!Audiences, Socket!Cardinality, Socket!ClientIsCurrent,
         Socket!EventTiles, Socket!EventsTiles, Socket!HandByHistory, Socket!HistoryEvent,
         Socket!HistoryTellsTheHand, Socket!HistoryView, Socket!MjaiEvent, Socket!NoResults,
         Socket!Public, Socket!Published, Socket!ResultTiles, Socket!ResultsAreFiled,
         Socket!Seats, Socket!SeesOnlyWhatItMay, Socket!Table, Socket!View, Socket!ViewTiles,
         Socket!ViewsAgree, Socket!VisibleDecision, Socket!VisibleMeld,
         Second!Sight!Archivable, Second!Sight!Audiences, Second!Sight!Cardinality,
         Second!Sight!ClientIsCurrent, Second!Sight!EventTiles, Second!Sight!EventsTiles,
         Second!Sight!HandByHistory, Second!Sight!HistoryEvent,
         Second!Sight!HistoryTellsTheHand, Second!Sight!HistoryView, Second!Sight!MjaiEvent,
         Second!Sight!NoResults, Second!Sight!Public, Second!Sight!Published,
         Second!Sight!ResultTiles, Second!Sight!ResultsAreFiled, Second!Sight!Seats,
         Second!Sight!SeesOnlyWhatItMay, Second!Sight!Table, Second!Sight!View,
         Second!Sight!ViewTiles, Second!Sight!ViewsAgree, Second!Sight!VisibleDecision,
         Second!Sight!VisibleMeld
<1>5. Second!Sight!Spec => [](Second!Sight!SeesOnlyWhatItMay /\ Second!Sight!ViewsAgree)
  BY <1>1, Second!ViewsShowNoMore, Second!ViewsFit, PTL
<1>6. /\ Here /\ [Next]_vars => Here'
      /\ ~Here /\ [Next]_vars => (~Here)'
  BY DEF Next, vars
<1>7. Spec => [](Here => Socket!SeesOnlyWhatItMay /\ Socket!ViewsAgree)
  <2> HIDE DEF Here
  <2> QED
    BY <1>2, <1>3, <1>4, <1>5, <1>6, PTL DEF Spec, Second!Sight!Spec
<1> QED
  BY <1>7

-----------------------------------------------------------------------------
(* The properties *)

\* What the Admin did is in the audit, or a row is left to put it there; what was
\* taken back never enters the audit (http.rs complete_admin_audit, storage.rs
\* flush_pending_audit).
THEOREM AuditIsKept == Spec => AuditIsSound
BY AuditHolds

\* A grant is redeemed once, ends when a token is replayed, and ends in time
\* (oauth_store.rs exchange_code, rotate_refresh).
THEOREM GrantsHold == Spec => []GrantsAreSound
BY OAuthHolds DEF GrantsAreSound, Of

\* An agent does not sleep through its Decision, and is told of it (mcp.rs
\* wait_until, record).
THEOREM AgentsWake == Spec => []AgentsAreWoken
<1>1. /\ part = "wake" => Wake!AgentsAreWoken
      /\ part = "listen" => Listen!AgentsAreWoken
      => AgentsAreWoken
  BY DEF AgentsAreWoken, Of
<1> QED
  BY <1>1, WakeHolds, ListenHolds, PTL

\* One identity has one Participant, one Participant one session or socket, one task at a
\* time works on it, and an agent that stays connected without one was left so by a Room too
\* busy to be told (mcp.rs join_room, disconnect_entry, http.rs operation_lock, compat.rs
\* teardown_room_connection).
THEOREM SessionsHold == Spec => []SessionsAreSound
<1>1. /\ part = "mcp" => Mcp!SessionsAreSound
      /\ part = "gateway" => Gateway!SessionsAreSound
      /\ part = "human" => Human!SessionsAreSound
      /\ part = "agent" => Agent!SessionsAreSound
      => SessionsAreSound
  BY DEF SessionsAreSound, Of
<1> QED
  BY <1>1, McpHolds, GatewayHolds, HumanHolds, AgentHolds, PTL

\* Whoever was kicked or lost its token is out everywhere once the operation is carried
\* out (mcp.rs revoke_token, http.rs admin_participant_command, compat.rs
\* deliver_revocation).
THEOREM ExpelledStayOut == Spec => []ExpelledAreOut
<1>1. /\ part = "mcp" => Mcp!ExpelledAreOut
      /\ part = "gateway" => Gateway!ExpelledAreOut
      /\ part = "human" => Human!ExpelledAreOut
      /\ part = "agent" => Agent!ExpelledAreOut
      /\ part = "tokens" => Tokens!ExpelledAreOut
      /\ part = "rooms" => Rooms!ExpelledAreOut
      => ExpelledAreOut
  BY DEF ExpelledAreOut, Of
<1> QED
  BY <1>1, McpHolds, GatewayHolds, HumanHolds, AgentHolds, TokensHolds, RoomsHolds, PTL

\* Room, database and the Matches that count agree on a Run, however it ends (room.rs
\* complete_match, finish_benchmark, storage.rs complete_match).
THEOREM RunsHold == Spec => []BenchmarkIsTruthful
BY BenchHolds DEF BenchmarkIsTruthful, Of

\* A Mjai Bot in a Room is asked about what is open for it, and its answer goes there
\* (compat.rs sync_room, room_reply).
THEOREM BotsAreHeard == Spec => []BotsAnswerWhatIsOpen
<1>1. /\ part = "player" => Player!BotsAnswer
      /\ part = "patient" => Patient!BotsAnswer
      => BotsAnswerWhatIsOpen
  BY DEF BotsAnswerWhatIsOpen, Of
<1> QED
  BY <1>1, PlayerHolds, PatientHolds, PTL

\* No view of a Match shows what its audience may not know (projection.rs, room.rs
\* project_history_event, mjai event_for_player, http.rs visible_game_event).
THEOREM ViewsShowWhatTheyMay == Spec => []SeesOnlyWhatItMay
<1>1. /\ part = "views" => Seen!SeesOnlyWhatItMay
      /\ part = "socket" => Socket!SeesOnlyWhatItMay
      => SeesOnlyWhatItMay
  BY DEF SeesOnlyWhatItMay, Of
<1> QED
  BY <1>1, SeenHolds, SocketHolds, PTL

\* The views of a Match agree with each other, with the results that are published and
\* with what a socket has been sent (match_machine.rs project, room.rs record_history,
\* archive_published, publish).
THEOREM ViewsStayInAgreement == Spec => []ViewsAgree
<1>1. /\ part = "views" => Seen!ViewsAgree
      /\ part = "socket" => Socket!ViewsAgree
      => ViewsAgree
  BY DEF ViewsAgree, Of
<1> QED
  BY <1>1, SeenHolds, SocketHolds, PTL

\* The file of a Match can be read, and its frames show the table (frames.rs
\* ReplayState::apply, mjson.rs tile_name, parse_tile).
THEOREM FramesFollowTheTable == Spec => []FramesShowTheTable
<1>1. /\ part = "yonma" => Yonma!FramesShowTheTable
      /\ part = "sanma" => Sanma!FramesShowTheTable
      => FramesShowTheTable
  BY DEF FramesShowTheTable, Of
<1> QED
  BY <1>1, YonmaHolds, SanmaHolds, PTL

\* The results the Machine files are those the reader finds in the events, and it takes no
\* others (engine.rs finish_apply, result_record, frames.rs attach_result_records,
\* validate_canonical_settlement).
THEOREM ResultsAreReported == Spec => []ResultsFitTheEvents
BY ResultsHold DEF ResultsFitTheEvents, Of

=============================================================================
