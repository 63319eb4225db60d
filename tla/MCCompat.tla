------------------------------ MODULE MCCompat ------------------------------
(* Small instances of Compat for TLC. *)
EXTENDS Compat, TLC

\* Ranked connections of two Bot Tokens, and a validation with the token of one
\* of them, which may be revoked.
TwoTokens == "a1" :> "A" @@ "a2" :> "A" @@ "b1" :> "B"
OneValidates == "a1" :> "Ranked" @@ "a2" :> "Validate" @@ "b1" :> "Ranked"
=============================================================================
