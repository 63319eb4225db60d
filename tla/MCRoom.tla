------------------------------- MODULE MCRoom -------------------------------
(* Small instances of Room for TLC: seat counts are scaled down. *)
EXTENDS Room, TLC

CONSTANTS h, g, a, j, b, c   \* Humans, an MCP agent, an MJAI agent, bots

\* A Human, an agent and a bot at a table for two.
MixedKind == h :> "Human" @@ a :> "MCP" @@ b :> "BuiltInBot"
MixedToken == h :> "-" @@ a :> "t" @@ b :> "-"
OneMode == {"four"}
Two == "four" :> 2

\* Two Humans, an agent and a bot at a table for three, or for one in the other mode.
FullKind == h :> "Human" @@ g :> "Human" @@ a :> "MCP" @@ b :> "BuiltInBot"
FullToken == h :> "-" @@ g :> "-" @@ a :> "t" @@ b :> "-"
ThreeOrOne == "four" :> 3 @@ "three" :> 1

BothModes == {"four", "three"}
=============================================================================
