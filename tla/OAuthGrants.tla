---------------------------- MODULE OAuthGrants ----------------------------
(***************************************************************************)
(* The grants of the ChatGPT gateway (crates/double_riichi_server/src/     *)
(* oauth.rs and oauth_store.rs): a pending authorization, the consent of   *)
(* the Admin, the authorization code, and the families of access and       *)
(* refresh tokens the code and each rotation give.                         *)
(*                                                                         *)
(* A request reads the clock, then waits for the database; a statement or  *)
(* the commit may fail, and the answer may be lost.  A client asks again   *)
(* with what it holds.  Time is counted in the lives of the credentials.   *)
(***************************************************************************)
EXTENDS Naturals, Sequences, FiniteSets

CONSTANTS
  F,          \* pending authorizations: one for each page of get_authorize
  Q,          \* requests that may be under way at once
  MaxPending, \* MAX_PENDING_AUTHORIZATIONS
  FlowLife,   \* AUTHORIZATION_FLOW_LIFETIME
  CodeLife,   \* AUTHORIZATION_CODE_LIFETIME_SECONDS
  AccessLife, \* ACCESS_TOKEN_LIFETIME_SECONDS
  FamilyLife, \* REFRESH_FAMILY_LIFETIME_SECONDS
  MaxPairs,   \* bound: token pairs
  MaxTime     \* bound: the clock

\* The names of codes and of pairs are told apart.
Assumption ==
  /\ IsFiniteSet(Q) /\ Q # {} /\ "pair" \notin F
  /\ MaxPending \in Nat /\ FlowLife \in Nat /\ CodeLife \in Nat /\ AccessLife \in Nat
  /\ FamilyLife \in Nat /\ MaxPairs \in Nat /\ MaxTime \in Nat

VARIABLES
  now,     \* the clock
  shown,   \* pages of get_authorize so far
  flow,    \* pending_authorizations: the time each expires
  code,    \* oauth_codes, one for each consent
  family,  \* oauth_refresh_families
  pair,    \* oauth_refresh_tokens and oauth_access_tokens, always two at once
  request, \* what each request does
  held,    \* the codes and pairs whose answer reached the client
  replayed \* families one of whose consumed tokens was presented again

vars == <<now, shown, flow, code, family, pair, request, held, replayed>>

Time == Nat
Pairs == 1..MaxPairs

\* A code is named by its consent and by how often that consent was approved.
Codes == F \X (1..Cardinality(Q))

\* The client's name for the tokens of a pair.
Name(n) == <<"pair", n>>

Idle == [op |-> "idle"]

Code == [f : F, n : 1..Cardinality(Q), at : Time, until : Time, used : BOOLEAN]
Family == [code : Codes, until : Time, revoked : BOOLEAN]
Pair == [family : Codes, from : 0..MaxPairs, refreshUntil : Time, accessUntil : Time,
         used : BOOLEAN]
Request ==
  {Idle} \cup [op : {"issue"}, code : Codes]
         \cup [op : {"exchange"}, code : Codes, at : Time]
         \cup [op : {"rotate"}, pair : Pairs, at : Time]

TypeOK ==
  /\ now \in 0..MaxTime
  /\ shown \subseteq F /\ DOMAIN flow \subseteq shown /\ \A f \in DOMAIN flow : flow[f] \in Time
  /\ code \subseteq Code /\ family \subseteq Family
  /\ pair \in Seq(Pair) /\ Len(pair) <= MaxPairs
  /\ request \in [Q -> Request]
  /\ held \subseteq Codes \cup {Name(n) : n \in Pairs}
  /\ replayed \subseteq Codes

Init ==
  /\ now = 0
  /\ shown = {} /\ flow = [f \in {} |-> 0]
  /\ code = {} /\ family = {} /\ pair = <<>>
  /\ request = [q \in Q |-> Idle]
  /\ held = {} /\ replayed = {}

Tick ==
  /\ now < MaxTime
  /\ now' = now + 1
  /\ UNCHANGED <<shown, flow, code, family, pair, request, held, replayed>>

-----------------------------------------------------------------------------
(* Consent *)

Open == {f \in DOMAIN flow : flow[f] > now}

\* Some pending authorization that ends first, if there is no room for one more.
Evicted ==
  IF Cardinality(Open) < MaxPending THEN {{}}
  ELSE {{f} : f \in {g \in Open : \A h \in Open : flow[g] <= flow[h]}}

\* register_pending_authorization: those that expired go, and the evicted one.
Register(f) ==
  /\ f \notin shown
  /\ shown' = shown \cup {f}
  /\ \E out \in Evicted :
       flow' = [g \in (Open \ out) \cup {f} |-> IF g = f THEN now + FlowLife ELSE flow[g]]
  /\ UNCHANGED <<now, code, family, pair, request, held, replayed>>


\* post_consent: the pending authorization is consumed once; a denial ends
\* there, an approval goes on to the database.
Consent(q, f) ==
  /\ request[q] = Idle /\ f \in Open
  /\ flow' = [g \in DOMAIN flow \ {f} |-> flow[g]]
  /\ request' \in {request, [request EXCEPT ![q] = [op |-> "issue", code |-> <<f, 1>>]]}
  /\ UNCHANGED <<now, shown, code, family, pair, held, replayed>>

\* issue_authorization_code: the row, unless the database fails, and the answer,
\* unless it is lost.
Issue(q) ==
  LET c == request[q].code IN
  /\ request[q].op = "issue"
  /\ request' = [request EXCEPT ![q] = Idle]
  /\ \/ /\ code' = code \cup {[f |-> c[1], n |-> c[2], at |-> now, until |-> now + CodeLife,
                               used |-> FALSE]}
        /\ held' \in {held, held \cup {c}}
     \/ UNCHANGED <<code, held>>
  /\ UNCHANGED <<now, shown, flow, family, pair, replayed>>

-----------------------------------------------------------------------------
(* The token endpoint *)

\* exchange_code and rotate_refresh read the clock and ask for a transaction.
AskExchange(q, c) ==
  /\ request[q] = Idle /\ c \in held
  /\ request' = [request EXCEPT ![q] = [op |-> "exchange", code |-> c, at |-> now]]
  /\ UNCHANGED <<now, shown, flow, code, family, pair, held, replayed>>

AskRotate(q, n) ==
  /\ request[q] = Idle /\ Name(n) \in held
  /\ request' = [request EXCEPT ![q] = [op |-> "rotate", pair |-> n, at |-> now]]
  /\ UNCHANGED <<now, shown, flow, code, family, pair, held, replayed>>

Smaller(a, b) == IF a <= b THEN a ELSE b

\* insert_token_rows, in the transaction that consumed the code or the token.
NewPair(f, from, at, until) ==
  Append(pair, [family |-> f, from |-> from, refreshUntil |-> until,
                accessUntil |-> Smaller(at + AccessLife, until), used |-> FALSE])

Room == Len(pair) < MaxPairs

\* The answer of a transaction that committed reaches the client or is lost.
Answered(n) == held' \in {held, held \cup {Name(n)}}

\* A code that is unused and has not expired is consumed with the new family
\* and its first pair; anything else, and an error, changes nothing.
Exchange(q) ==
  LET r == request[q] IN
  /\ r.op = "exchange" /\ Room
  /\ request' = [request EXCEPT ![q] = Idle]
  /\ \/ \E c \in code :
          /\ <<c.f, c.n>> = r.code /\ ~c.used /\ c.until > r.at
          /\ code' = (code \ {c}) \cup {[c EXCEPT !.used = TRUE]}
          /\ family' = family \cup
               {[code |-> r.code, until |-> r.at + FamilyLife, revoked |-> FALSE]}
          /\ pair' = NewPair(r.code, 0, r.at, r.at + FamilyLife)
          /\ Answered(Len(pair'))
     \/ UNCHANGED <<code, family, pair, held>>
  /\ UNCHANGED <<now, shown, flow, replayed>>

\* The token is unused, and neither it nor its family has ended.
Rotates(r, g) ==
  /\ g.code = pair[r.pair].family
  /\ ~pair[r.pair].used /\ pair[r.pair].refreshUntil > r.at
  /\ ~g.revoked /\ g.until > r.at

\* Slip: each rotation gives the family a new life.
RotateExtends(q) ==
  LET r == request[q] IN
  /\ r.op = "rotate" /\ Room
  /\ request' = [request EXCEPT ![q] = Idle]
  /\ \/ \E g \in family :
          /\ Rotates(r, g)
          /\ pair' = [NewPair(g.code, r.pair, r.at, r.at + FamilyLife) EXCEPT ![r.pair].used = TRUE]
          /\ family' = (family \ {g}) \cup {[g EXCEPT !.until = r.at + FamilyLife]}
          /\ Answered(Len(pair'))
     \/ UNCHANGED <<family, pair, held>>
  /\ UNCHANGED <<now, shown, flow, code, replayed>>

\* rotate_refresh: the token is consumed with the new pair, which lives no
\* longer than the family.
Rotate(q) ==
  LET r == request[q] IN
  /\ r.op = "rotate" /\ Room
  /\ request' = [request EXCEPT ![q] = Idle]
  /\ \/ \E g \in family :
          /\ Rotates(r, g)
          /\ pair' = [NewPair(g.code, r.pair, r.at, g.until) EXCEPT ![r.pair].used = TRUE]
          /\ Answered(Len(pair'))
     \/ UNCHANGED <<pair, held>>
  /\ UNCHANGED <<now, shown, flow, code, family, replayed>>


\* rotate_refresh with a consumed token, expired or not: the whole family is
\* revoked, and the refusal is committed.
Replay(q) ==
  LET r == request[q] IN
  /\ r.op = "rotate" /\ pair[r.pair].used
  /\ request' = [request EXCEPT ![q] = Idle]
  /\ family' = {IF g.code = pair[r.pair].family THEN [g EXCEPT !.revoked = TRUE] ELSE g :
                  g \in family}
  /\ replayed' = replayed \cup {pair[r.pair].family}
  /\ UNCHANGED <<now, shown, flow, code, pair, held>>

-----------------------------------------------------------------------------

Next ==
  \/ Tick
  \/ \E f \in F : Register(f) \/ \E q \in Q : Consent(q, f)
  \/ \E q \in Q : \/ Issue(q) \/ Exchange(q) \/ Rotate(q) \/ Replay(q)
                  \/ \E c \in Codes : AskExchange(q, c)
                  \/ \E n \in Pairs : AskRotate(q, n)

\* validate_access.
Accepted(n) ==
  /\ pair[n].accessUntil > now
  /\ \E g \in family : g.code = pair[n].family /\ ~g.revoked /\ g.until > now

Spec == Init /\ [][Next]_vars

-----------------------------------------------------------------------------
(* Properties *)

\* One consent gives at most one family, and one code or refresh token at most
\* one pair, however often and however concurrently they are presented
\* (oauth.rs consume_pending_authorization; oauth_store.rs exchange_code,
\* rotate_refresh).
RedeemedOnce ==
  /\ \A g \in family, h \in family : g.code[1] = h.code[1] => g = h
  /\ \A m \in DOMAIN pair, n \in DOMAIN pair :
       m # n => <<pair[m].family, pair[m].from>> # <<pair[n].family, pair[n].from>>

\* Once a consumed refresh token was presented again, no token of its family is
\* good for anything: neither those given before nor one whose rotation was
\* under way (oauth_store.rs rotate_refresh, validate_access).
ReplayEndsTheFamily ==
  \A n \in DOMAIN pair : pair[n].family \in replayed =>
    /\ ~Accepted(n)
    /\ \A g \in family : ~Rotates([pair |-> n, at |-> now], g)

\* However often it is rotated, a grant ends: no access token is accepted later
\* than the life of a code and of a family after the code was issued
\* (oauth_store.rs access_expires_at, insert_token_rows).
GrantsEnd ==
  \A n \in DOMAIN pair : Accepted(n) =>
    \E c \in code : <<c.f, c.n>> = pair[n].family /\ now < c.at + CodeLife + FamilyLife

GrantsAreSound == RedeemedOnce /\ ReplayEndsTheFamily /\ GrantsEnd

\* The inductive invariant behind the three.  A consent is pending, about to be issued,
\* or a code: one of them, once.
Issues(q, f) == request[q].op = "issue" /\ request[q].code[1] = f

ConsentInv ==
  /\ \A c \in code : c.f \in shown \ DOMAIN flow /\ c.until = c.at + CodeLife
  /\ \A c \in code, d \in code : c.f = d.f => c = d
  /\ \A q \in Q, f \in F : Issues(q, f) =>
       /\ f \in shown \ DOMAIN flow
       /\ \A p \in Q : Issues(p, f) => p = q
       /\ \A c \in code : c.f # f

\* A family comes from a code that is used and ends in time; a replayed one is revoked.
FamilyInv ==
  /\ \A g \in family, h \in family : g.code[1] = h.code[1] => g = h
  /\ \A g \in family : \E c \in code :
       <<c.f, c.n>> = g.code /\ c.used /\ g.until < c.at + CodeLife + FamilyLife
  /\ \A g \in family : g.code \in replayed => g.revoked
  /\ \A k \in replayed : \E g \in family : g.code = k

\* A pair belongs to a family and comes from its code or from a pair that is used.
PairInv ==
  /\ \A n \in DOMAIN pair :
       /\ \E g \in family : g.code = pair[n].family
       /\ pair[n].from # 0 => pair[n].from \in DOMAIN pair /\ pair[pair[n].from].used
  /\ \A m \in DOMAIN pair, n \in DOMAIN pair :
       m # n => <<pair[m].family, pair[m].from>> # <<pair[n].family, pair[n].from>>
  /\ \A n \in Pairs : Name(n) \in held => n \in DOMAIN pair
  /\ \A q \in Q : request[q].op = "rotate" => request[q].pair \in DOMAIN pair

GrantInv == TypeOK /\ ConsentInv /\ FamilyInv /\ PairInv
=============================================================================
