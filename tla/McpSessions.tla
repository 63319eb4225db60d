---------------------------- MODULE McpSessions ----------------------------
(***************************************************************************)
(* MCP sessions and the Participants they play (crates/double_riichi_server *)
(* /src/mcp.rs): one Bot Token, or one identity behind it, joins a Room     *)
(* through a session, resumes its Participant through the next one, leaves, *)
(* goes idle, is deleted or revoked.                                        *)
(*                                                                          *)
(* The registry has one lock for its tables and one that join_room and the  *)
(* revocation hold from their first look to their last change; everything   *)
(* else interleaves between two locks.  One Room stands for all: the tables *)
(* are keyed by Room.  A client uses only the sessions issued to it.        *)
(***************************************************************************)
EXTENDS Integers, FiniteSets

CONSTANTS
  S,         \* session ids
  Id,        \* identities: a Bot Token, or a user of the gateway behind one
  Token,     \* Bot Tokens
  IdOf,      \* in [S -> Id]
  TokenOf,   \* in [Id -> Token]
  Stateless, \* session ids that stand for an identity of the gateway
  MaxJoins   \* bound: Participants an identity may create

Assumption ==
  /\ IdOf \in [S -> Id] /\ TokenOf \in [Id -> Token] /\ Stateless \subseteq S
  /\ "none" \notin S /\ MaxJoins \in Nat

VARIABLES
  known,    \* sessions the transport's own manager has
  live,     \* transport_sessions
  entry,    \* sessions: the Participant each is bound to
  bound,    \* bound_rooms
  pair,     \* participants: the Participant of each identity in the Room
  retired,  \* retired_participants
  banned,   \* revoked_tokens
  good,     \* tokens the token service accepts
  notices,  \* revocations the Rooms and this registry have not yet heard of
  asked,    \* sessions whose join_room waits for join_lock
  join,     \* the join_room that holds join_lock
  leaving,  \* leave_room between the Room and the registry
  cleanup,  \* entries taken from the registry, their disconnect not yet sent
  closing,  \* sessions the manager has still to close
  room      \* what the Room holds of each Participant

vars == <<known, live, entry, bound, pair, retired, banned, good, notices, asked, join,
          leaving, cleanup, closing, room>>

tables == <<live, entry, bound, pair, retired, banned>>
tasks == <<cleanup, closing>>
tokens == <<good, notices>>

-----------------------------------------------------------------------------

None == <<"none", 0>>

P == Id \X (1..MaxJoins)

Owner(p) == p[1]

\* "stuck": connected, and the Room was too busy for its last disconnect, which is
\* not sent again.  "auto": a Player that left, was kicked or lost its token while
\* playing.
Presence == {"unused", "here", "stuck", "away", "auto", "gone"}

\* No join_room holds the lock.
Free == [pc |-> "free", s |-> "none", p |-> None]

TypeOK ==
  /\ known \subseteq S \ Stateless /\ live \subseteq S /\ bound \subseteq S
  /\ entry \in [S -> P \cup {None}]
  /\ pair \in [Id -> P \cup {None}]
  /\ retired \subseteq Id /\ banned \subseteq Token /\ good \subseteq Token
  /\ notices \subseteq Token \X {"rooms", "mcp"}
  /\ asked \subseteq S
  /\ join = Free \/ join \in [pc : {"look", "reconnect", "enter", "bind", "attach"},
                              s : S, p : P \cup {None}]
  /\ leaving \in [S -> P \cup {None}]
  /\ cleanup \subseteq [s : S, p : P] /\ closing \subseteq S
  /\ room \in [P -> Presence]

Init ==
  /\ known = {} /\ live = {} /\ bound = {} /\ retired = {} /\ banned = {}
  /\ entry = [s \in S |-> None]
  /\ pair = [i \in Id |-> None]
  /\ good = Token /\ notices = {}
  /\ asked = {} /\ join = Free
  /\ leaving = [s \in S |-> None]
  /\ cleanup = {} /\ closing = {}
  /\ room = [p \in P |-> "unused"]

Revoked(s) == TokenOf[IdOf[s]] \in banned

\* authenticate_bot, at the start of every request.
Authenticated(s) == TokenOf[IdOf[s]] \in good

\* An agent waits for the answer of a tool before it calls the next one of the
\* same session: an assumption about the client, which the server does not
\* enforce.
Quiet(s) == s \notin asked /\ join.s # s /\ leaving[s] = None

\* Whether the transport passes a request of this session on.
Routed(s) == s \in Stateless \/ s \in known

Connected == {"here", "stuck"}

InSnapshot(p) == room[p] \in Connected \cup {"away", "auto"}

\* A disconnect leaves p as it says: away, or stuck when the Room is busy.
Disconnected(p, as) == [room EXCEPT ![p] = IF @ \in Connected THEN as ELSE @]

\* What `remove`, `expire_idle` and `revoke_token` take from the tables.
Taken(sessions) ==
  /\ live' = live \ sessions
  /\ bound' = bound \ sessions
  /\ entry' = [s \in S |-> IF s \in sessions THEN None ELSE entry[s]]
  /\ cleanup' = cleanup \cup {[s |-> s, p |-> entry[s]] : s \in {x \in sessions : entry[x] # None}}
  /\ closing' = closing \cup (sessions \cap known)

-----------------------------------------------------------------------------
(* The transport *)

\* initialize: the manager makes a session; ids are never used again.
Create(s) ==
  /\ s \notin Stateless /\ s \notin known \cup live \cup closing \cup bound /\ entry[s] = None
  /\ s \notin asked /\ Authenticated(s)
  /\ known' = known \cup {s}
  /\ UNCHANGED <<tables, tokens, asked, join, leaving, tasks, room>>

\* After the answer to any request: register_transport.
Register(s) ==
  /\ s \in known \ live /\ ~Revoked(s)
  /\ live' = live \cup {s}
  /\ UNCHANGED <<known, entry, bound, pair, retired, banned, tokens, asked, join, leaving,
                 tasks, room>>

\* expire_idle: a session without a request or a wait for longer than the
\* idle time.
Expire(s) ==
  /\ s \in live /\ Quiet(s)
  /\ Taken({s})
  /\ UNCHANGED <<known, pair, retired, banned, tokens, asked, join, leaving, room>>

\* DELETE: the manager closes the session, then `remove`.
Delete(s) ==
  /\ s \in known /\ Authenticated(s)
  /\ known' = known \ {s}
  /\ live' = live \ {s} /\ bound' = bound \ {s}
  /\ entry' = [entry EXCEPT ![s] = None]
  /\ cleanup' = IF entry[s] = None THEN cleanup ELSE cleanup \cup {[s |-> s, p |-> entry[s]]}
  /\ UNCHANGED <<pair, retired, banned, tokens, asked, join, leaving, closing, room>>

\* disconnect_entry, by the task that took the entry, and the end of a join that
\* failed: the answer of the Room is not looked at.
SendDisconnect(c) ==
  /\ c \in cleanup
  /\ cleanup' = cleanup \ {c}
  /\ \E as \in {"away", "stuck"} : room' = Disconnected(c.p, as)
  /\ UNCHANGED <<known, tables, tokens, asked, join, leaving, closing>>

\* close_sessions, after the entries were disconnected.
Close(s) ==
  /\ s \in closing /\ \A c \in cleanup : c.s # s
  /\ closing' = closing \ {s} /\ known' = known \ {s}
  /\ UNCHANGED <<tables, tokens, asked, join, leaving, cleanup, room>>

-----------------------------------------------------------------------------
(* join_room *)

AskJoin(s) ==
  /\ Routed(s) /\ Authenticated(s) /\ Quiet(s)
  /\ asked' = asked \cup {s}
  /\ UNCHANGED <<known, tables, tokens, join, leaving, tasks, room>>

\* Under join_lock: revoked, bound already, or bound once before.
LockJoin(s) ==
  /\ s \in asked /\ join = Free
  /\ asked' = asked \ {s}
  /\ join' = IF Revoked(s) \/ entry[s] # None \/ s \in bound THEN Free
             ELSE [pc |-> "look", s |-> s, p |-> pair[IdOf[s]]]
  /\ UNCHANGED <<known, tables, tokens, leaving, tasks, room>>

\* The Participant of the identity is resumed if the Room still has it, and
\* replaced unless it left of its own will; a Room that is busy refuses the look.
Look ==
  /\ join.pc = "look"
  /\ \/ join.p # None /\ join' = Free
     \/ join' = IF join.p # None /\ InSnapshot(join.p) THEN [join EXCEPT !.pc = "reconnect"]
                ELSE IF join.p # None /\ IdOf[join.s] \in retired THEN Free
                ELSE [pc |-> "enter", s |-> join.s, p |-> None]
  /\ UNCHANGED <<known, tables, tokens, asked, leaving, tasks, room>>

\* RoomCommand::reconnect; refused for a Participant that is gone or "auto", and by
\* a busy Room.
Reconnect ==
  /\ join.pc = "reconnect"
  /\ \/ /\ room[join.p] \in Connected \cup {"away"}
        /\ room' = [room EXCEPT ![join.p] = "here"] /\ join' = [join EXCEPT !.pc = "bind"]
     \/ join' = Free /\ UNCHANGED room
  /\ UNCHANGED <<known, tables, tokens, asked, leaving, tasks>>

\* RoomCommand::Join with a new Participant; the Room may be full, busy or deleted.
Enter ==
  /\ join.pc = "enter"
  /\ \/ \E n \in 1..MaxJoins :
          /\ room[<<IdOf[join.s], n>>] = "unused"
          /\ \A k \in 1..(n - 1) : room[<<IdOf[join.s], k>>] # "unused"
          /\ room' = [room EXCEPT ![<<IdOf[join.s], n>>] = "here"]
          /\ join' = [pc |-> "bind", s |-> join.s, p |-> <<IdOf[join.s], n>>]
     \/ join' = Free /\ UNCHANGED room
  /\ UNCHANGED <<known, tables, tokens, asked, leaving, tasks>>

\* The session the Participant had until now; it is invalidated.
Old == {s \in S \ {join.s} : entry[s] = join.p}

\* bind, and the closing of the old session.
Bind ==
  /\ join.pc = "bind"
  /\ live' = (live \ Old) \cup {join.s}
  /\ bound' = (bound \ Old) \cup {join.s}
  /\ entry' = [s \in S |-> IF s = join.s THEN join.p ELSE IF s \in Old THEN None ELSE entry[s]]
  /\ pair' = [pair EXCEPT ![IdOf[join.s]] = join.p]
  /\ known' = known \ Old
  /\ join' = [join EXCEPT !.pc = "attach"]
  /\ UNCHANGED <<retired, banned, tokens, asked, leaving, tasks, room>>

\* attach_watcher succeeds, unless the entry was cancelled meanwhile.
Attach ==
  /\ join.pc = "attach" /\ entry[join.s] = join.p
  /\ join' = Free
  /\ UNCHANGED <<known, tables, tokens, asked, leaving, tasks, room>>

\* attach_watcher fails: rollback_binding, then the Participant disconnects.
AttachFails ==
  /\ join.pc = "attach"
  /\ entry' = [entry EXCEPT ![join.s] = None]
  /\ bound' = bound \ {join.s}
  /\ cleanup' = cleanup \cup {[s |-> join.s, p |-> join.p]}
  /\ join' = Free
  /\ UNCHANGED <<known, live, pair, retired, banned, tokens, asked, leaving, closing, room>>

-----------------------------------------------------------------------------
(* leave_room *)

LeaveRoom(s) ==
  /\ Routed(s) /\ Authenticated(s) /\ entry[s] # None /\ Quiet(s)
  /\ InSnapshot(entry[s])
  /\ leaving' = [leaving EXCEPT ![s] = entry[s]]
  /\ \E left \in {"gone", "auto"} : room' = [room EXCEPT ![entry[s]] = left]
  /\ UNCHANGED <<known, tables, tokens, asked, join, tasks>>

\* remove_binding: bound_rooms and the transport keep the session.
RemoveBinding(s) ==
  /\ leaving[s] # None
  /\ leaving' = [leaving EXCEPT ![s] = None]
  /\ entry' = [entry EXCEPT ![s] = None]
  /\ retired' = IF entry[s] = None THEN retired ELSE retired \cup {IdOf[s]}
  /\ UNCHANGED <<known, live, bound, pair, banned, tokens, asked, join, tasks, room>>

-----------------------------------------------------------------------------
(* Revocation, and the Room's own changes *)

Revoke(t) ==
  /\ t \in good
  /\ good' = good \ {t}
  /\ notices' = notices \cup {<<t, "rooms">>, <<t, "mcp">>}
  /\ UNCHANGED <<known, tables, asked, join, leaving, tasks, room>>

OfToken(t) == {p \in P : TokenOf[Owner(p)] = t}

\* RoomRegistry::revoke_token: removed, or played automatically to the end.
RoomsHear(t) ==
  /\ <<t, "rooms">> \in notices
  /\ notices' = notices \ {<<t, "rooms">>}
  /\ \E lost \in {"gone", "auto"} :
       room' = [p \in P |-> IF p \in OfToken(t) /\ InSnapshot(p) THEN lost ELSE room[p]]
  /\ UNCHANGED <<known, tables, good, asked, join, leaving, tasks>>

SessionsOf(t) == {s \in S : TokenOf[IdOf[s]] = t}

\* McpSessionRegistry::revoke_token.
McpHears(t) ==
  /\ <<t, "mcp">> \in notices /\ join = Free
  /\ notices' = notices \ {<<t, "mcp">>}
  /\ banned' = banned \cup {t}
  /\ Taken(SessionsOf(t) \cap live)
  /\ pair' = [i \in Id |-> IF TokenOf[i] = t THEN None ELSE pair[i]]
  /\ retired' = {i \in retired : TokenOf[i] # t}
  /\ UNCHANGED <<known, good, asked, join, leaving, room>>

\* The Room forgets a Participant that stayed away, or was kicked; one that is
\* still playing is played automatically first.
RoomDrops(p) ==
  /\ InSnapshot(p)
  /\ \E lost \in {"gone", "auto"} : room' = [room EXCEPT ![p] = lost] /\ lost # room[p]
  /\ UNCHANGED <<known, tables, tokens, asked, join, leaving, tasks>>

-----------------------------------------------------------------------------

Next ==
  \/ \E s \in S : \/ Create(s) \/ Register(s) \/ Expire(s) \/ Delete(s) \/ Close(s)
                  \/ AskJoin(s) \/ LockJoin(s) \/ LeaveRoom(s) \/ RemoveBinding(s)
  \/ \E c \in cleanup : SendDisconnect(c)
  \/ Look \/ Reconnect \/ Enter \/ Bind \/ Attach \/ AttachFails
  \/ \E t \in Token : Revoke(t) \/ RoomsHear(t) \/ McpHears(t)
  \/ \E p \in P : RoomDrops(p)

Spec == Init /\ [][Next]_vars

-----------------------------------------------------------------------------
(* Properties *)

\* An identity has at most one Participant in the Room, and a Participant at
\* most one session, whatever sessions expire, are replaced, fail half-way or
\* leave meanwhile (spec/implementation-v1.md, 16.2; mcp.rs join_room, bind).
OneAgentPerToken ==
  /\ \A i \in Id : Cardinality({p \in P : Owner(p) = i /\ InSnapshot(p)}) <= 1
  /\ \A s \in S, r \in S : s # r /\ entry[s] # None => entry[s] # entry[r]

\* Whether a session plays p, or one is about to be bound to it or to let it go.
Held(p) ==
  \/ \E s \in S : entry[s] = p
  \/ join.pc = "bind" /\ join.p = p
  \/ \E c \in cleanup : c.p = p

\* A Participant that the Room thinks connected has a session, is being joined,
\* or a task is about to disconnect it, unless the Room was too busy when it was told:
\* no way out of join_room, no expiry and no revocation forgets to tell it (mcp.rs
\* disconnect_entry, rollback_binding).
NoGhostAgents == \A p \in P : room[p] = "here" => Held(p)

SessionsAreSound == OneAgentPerToken /\ NoGhostAgents

\* Once this registry has heard of a revocation, no session of the token is
\* bound or registered again, by requests authenticated before it included
\* (mcp.rs revoke_token, join_room).
ExpelledAreOut ==
  \A t \in Token : t \notin good /\ <<t, "mcp">> \notin notices =>
    \A s \in SessionsOf(t) : entry[s] = None /\ s \notin live

\* The inductive invariant behind them.  A join works for an identity that is not revoked,
\* on what its last Participant was, and makes another only when that one is out.
JoinInv ==
  LET i == IdOf[join.s] IN
  join # Free =>
    /\ ~Revoked(join.s) /\ join.s \notin asked
    /\ join.pc \in {"look", "reconnect"} => join.p = pair[i]
    /\ join.pc = "enter" => join.p = None /\ \A p \in P : Owner(p) = i => ~InSnapshot(p)
    /\ join.pc = "bind" =>
         Owner(join.p) = i /\ \A p \in P : Owner(p) = i /\ InSnapshot(p) => p = join.p
    /\ join.pc \in {"reconnect", "bind", "attach"} => join.p # None
    /\ entry[join.s] = None \/ (join.pc = "attach" /\ entry[join.s] = join.p)

PairInv ==
  /\ \A i \in Id : pair[i] # None => Owner(pair[i]) = i
  /\ \A p \in P : InSnapshot(p) /\ TokenOf[Owner(p)] \notin banned =>
       pair[Owner(p)] = p \/ (join.pc = "bind" /\ IdOf[join.s] = Owner(p))
  /\ \A p \in P, q \in P : InSnapshot(p) /\ InSnapshot(q) /\ Owner(p) = Owner(q) => p = q

\* A session is bound to a Participant of its own, and a leaving one to none that is
\* still connected.
EntryInv ==
  /\ \A s \in S, r \in S : s # r /\ entry[s] # None => entry[s] # entry[r]
  /\ \A s \in S : entry[s] # None => s \in live
  /\ \A s \in S : leaving[s] # None =>
       /\ s \notin asked /\ join.s # s /\ entry[s] \in {None, leaving[s]}
       /\ room[leaving[s]] \in {"gone", "auto"}

BannedInv ==
  /\ \A t \in Token : t \in good \/ <<t, "mcp">> \in notices \/ t \in banned
  /\ \A s \in S : Revoked(s) => entry[s] = None /\ s \notin live

SessionInv == TypeOK /\ JoinInv /\ PairInv /\ EntryInv /\ NoGhostAgents /\ BannedInv
=============================================================================
