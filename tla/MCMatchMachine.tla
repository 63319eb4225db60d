--------------------------- MODULE MCMatchMachine ---------------------------
(* Small instances of MatchMachine for TLC. *)
EXTENDS MatchMachine, TLC

\* Two Humans and a Built-in Bot.
HumanKind == 1 :> "Human" @@ 2 :> "Human" @@ 3 :> "BuiltInBot"

\* A Human and an agent, for the run about Kyoku and Unlimited time.
PairKind == 1 :> "Human" @@ 2 :> "MCP"

\* An ordinary turn; and a turn that offers no safe default.
DrawTurn == {{"tsumogiri", "tedashi"}}
AnyTurn == DrawTurn \cup {{"win"}}
=============================================================================
