-------------------------- MODULE DecisionContract --------------------------
(***************************************************************************)
(* What the Match Machine promises about Decisions, without clocks, the     *)
(* engine or controllers (spec/implementation-v1.md 6.4, CONTEXT.md         *)
(* "Decision"): at most one is open, ids are never used twice, one answer   *)
(* per eligible Seat, never replaced, and the engine is given exactly those *)
(* answers, once, when the last of them is in.  A Decision may also be      *)
(* withdrawn, and is then never applied.                                    *)
(***************************************************************************)
EXTENDS Integers

CONSTANTS Seats, NoAnswer

VARIABLES
  asked,     \* id of the open Decision, 0 when there is none
  used,      \* the highest id ever used
  eligible,  \* the Seats it waits for
  given,     \* their answers so far
  applied    \* the last Decision handed to the engine, with its answers

contractVars == <<asked, used, eligible, given, applied>>

Nobody == [s \in Seats |-> NoAnswer]

Init ==
  /\ asked = 0
  /\ used = 0
  /\ eligible = {}
  /\ given = Nobody
  /\ applied = [id |-> 0, answer |-> Nobody]

Answered(f) == {s \in Seats : f[s] # NoAnswer}

\* g keeps every answer f has.
Extends(f, g) == \A s \in Answered(f) : g[s] = f[s]

Idle == asked' = 0 /\ eligible' = {} /\ given' = Nobody

\* A Decision is opened; automatic answers may come with it, but not all.
Ask ==
  /\ asked = 0
  /\ used' = used + 1
  /\ asked' = used'
  /\ Answered(given') \subseteq eligible'
  /\ Answered(given') # eligible'
  /\ UNCHANGED applied

Give ==
  /\ asked # 0
  /\ UNCHANGED <<asked, used, eligible, applied>>
  /\ Extends(given, given')
  /\ Answered(given') \subseteq eligible
  /\ Answered(given') # eligible

\* The last answers complete the open Decision, or one opened in this step.
Apply ==
  /\ applied'.id = used'
  /\ \/ asked # 0 /\ used' = used /\ asked = used /\ Answered(applied'.answer) = eligible
     \/ asked = 0 /\ used' = used + 1 /\ Answered(applied'.answer) # {}
  /\ Extends(given, applied'.answer)
  /\ Idle

Withdraw ==
  /\ Idle
  /\ used' \in {used, used + 1}
  /\ UNCHANGED applied

Next == Ask \/ Give \/ Apply \/ Withdraw

Spec == Init /\ [][Next]_contractVars
=============================================================================
