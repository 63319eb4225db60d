------------------------------ MODULE Decision ------------------------------
(***************************************************************************)
(* One Decision: the legal actions offered to each eligible Seat, the       *)
(* response every Seat has given, and the time each Seat has left           *)
(* (crates/double_riichi_core/src/decision.rs).  The operators of this      *)
(* module are the Decision's methods; MatchMachine owns the one open        *)
(* Decision and calls them.                                                 *)
(*                                                                          *)
(* A deadline is kept as the number of clock ticks left, so `left[s] = 0`   *)
(* is `now >= deadline` and Never is a Seat without a deadline.  A Seat     *)
(* with no offered action is not an entry of the Decision.                  *)
(***************************************************************************)
EXTENDS Integers

CONSTANT Seats

\* The classes of action the default rule tells apart.
Action == {"pass", "tsumogiri", "tedashi", "call", "win"}
NoAction == "none"

\* The classes default_action_id can fall back on.
SafeDefaults == {"pass", "tsumogiri", "tedashi"}

Never == -1

Ticks == Nat \cup {Never}

Timing == [left : Ticks, watchdog : BOOLEAN]

Offer == [Seats -> SUBSET Action]

EmptyOffer == [s \in Seats |-> {}]

DecisionType ==
  [id : Nat, kind : {"Turn", "Response"}, offer : Offer,
   answer : [Seats -> Action \cup {NoAction}], left : [Seats -> Ticks],
   watchdog : [Seats -> BOOLEAN], timedOut : [Seats -> BOOLEAN],
   closed : BOOLEAN]

NoDecision ==
  [id |-> 0, kind |-> "Turn", offer |-> EmptyOffer,
   answer |-> [s \in Seats |-> NoAction], left |-> [s \in Seats |-> Never],
   watchdog |-> [s \in Seats |-> FALSE], timedOut |-> [s \in Seats |-> FALSE],
   closed |-> FALSE]

Eligible(d) == {s \in Seats : d.offer[s] # {}}

\* default_action_id: Pass, else tsumogiri, else some discard.
DefaultOf(actions) ==
  IF "pass" \in actions THEN "pass"
  ELSE IF "tsumogiri" \in actions THEN "tsumogiri"
  ELSE "tedashi"

HasSafeDefault(offer) ==
  \A s \in Seats : offer[s] # {} => offer[s] \cap SafeDefaults # {}

\* from_action_ids_with_timings, for an offer with a safe default everywhere.
NewDecision(id, kind, offer, timing) ==
  [id |-> id, kind |-> kind, offer |-> offer,
   answer |-> [s \in Seats |-> NoAction],
   left |-> [s \in Seats |-> IF offer[s] = {} THEN Never ELSE timing[s].left],
   watchdog |-> [s \in Seats |-> offer[s] # {} /\ timing[s].watchdog],
   timedOut |-> [s \in Seats |-> FALSE],
   closed |-> FALSE]

Expired(d, s) == d.left[s] = 0

Complete(d) == \A s \in Eligible(d) : d.answer[s] # NoAction

\* Slip: a second response replaces the first.
CanSubmitAgain(d, s, a) == ~d.closed /\ s \in Eligible(d) /\ ~Expired(d, s) /\ a \in d.offer[s]

\* The rejections of submit_at; a rejected submission changes nothing.
CanSubmit(d, s, a) ==
  /\ ~d.closed
  /\ s \in Eligible(d)
  /\ ~Expired(d, s)
  /\ d.answer[s] = NoAction
  /\ a \in d.offer[s]

\* Slip: the last response does not close the Decision.
SubmittedOpen(d, s, a) == [d EXCEPT !.answer[s] = a]

Submitted(d, s, a) ==
  LET e == [d EXCEPT !.answer[s] = a]
  IN  [e EXCEPT !.closed = Complete(e)]

\* Slip: as soon as one Seat is late, every Seat without a response is defaulted.
EveryoneTimedOut(d) ==
  IF d.closed \/ \A s \in Eligible(d) : d.answer[s] # NoAction \/ ~Expired(d, s) THEN {}
  ELSE {s \in Eligible(d) : d.answer[s] = NoAction}

\* The Seats resolve_at gives their default at this instant.
NewlyTimedOut(d) ==
  IF d.closed THEN {}
  ELSE {s \in Eligible(d) : d.answer[s] = NoAction /\ Expired(d, s)}

TimedOutResolution(d) ==
  LET late == NewlyTimedOut(d)
      e == [d EXCEPT
              !.answer = [s \in Seats |-> IF s \in late THEN DefaultOf(d.offer[s])
                                                        ELSE d.answer[s]],
              !.timedOut = [s \in Seats |-> d.timedOut[s] \/ s \in late]]
  IN  [e EXCEPT !.closed = d.closed \/ (late # {} /\ Complete(e))]

\* retime_for: a Seat that has no entry is left alone.
Retimed(d, s, timing) ==
  IF s \notin Eligible(d) THEN d
  ELSE [d EXCEPT !.left[s] = timing.left, !.watchdog[s] = timing.watchdog]

\* Slip: no deadline is a deadline that keeps running.
AgedForever(d) == [d EXCEPT !.left = [s \in Seats |-> IF d.left[s] # 0 THEN d.left[s] - 1 ELSE 0]]

\* One tick of the monotonic clock.
Aged(d) ==
  [d EXCEPT !.left = [s \in Seats |-> IF d.left[s] > 0 THEN d.left[s] - 1 ELSE d.left[s]]]
=============================================================================
