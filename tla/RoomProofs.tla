----------------------------- MODULE RoomProofs -----------------------------
(* Theorems about Room for every set of Participants, seat count and bound. *)
EXTENDS Room, FiniteSetTheorems, TLAPS

Playing == phase = "Playing"

\* A Match has a machine and a complete roster, and nobody on it is lost.
MatchInv ==
  /\ machine.st = "none" <=> ~Playing
  /\ phase = "Lobby" => \A p \in P : roster[p] = "none" /\ member[p].role = "None"
  /\ Playing => Cardinality(Players) = Seats
  /\ \A p \in P : member[p].role = "Player" => roster[p] # "none"
  /\ Playing => \A p \in Players : member[p].role = "Player" /\ member[p].selected
  /\ phase # "Lobby" => \A p \in P : member[p].selected => roster[p] # "none"

\* Nothing is left of the absent; whoever has left plays until the Match ends;
\* Ready ends with presence, selection and the start of a Match.
MemberInv ==
  \A p \in P :
    /\ member[p].here = "Absent" => /\ member[p].role = "None"
                                   /\ ~member[p].selected /\ ~member[p].ready
                                   /\ ~member[p].leaving
    /\ member[p].leaving => /\ Playing
                            /\ member[p].role = "Player"
                            /\ member[p].here = "Disconnected"
                            /\ member[p].controller = "PermanentAuto"
                            /\ machine.ctl[p] = "PermanentAuto"
    /\ Kind[p] = "Human" /\ member[p].ready =>
         member[p].selected /\ member[p].here = "Connected" /\ ~Playing

\* Permanent Auto of the machine is known to the Room at once, and all copies
\* agree about a Player who is there.
ControlInv ==
  Playing => \A p \in Players :
    /\ machine.ctl[p] = "PermanentAuto" => member[p].controller = "PermanentAuto"
    /\ Kind[p] # "BuiltInBot" /\ member[p].here = "Connected" =>
        /\ member[p].controller = "Interactive"
        /\ roster[p] = "Interactive"
        /\ machine.ctl[p] = "Interactive"
        /\ machine.here[p] = "Connected"

StepInv ==
  /\ step.active <=> machine.st = "held"
  /\ ~step.active => step.required = {}
  /\ \A p \in step.required : Attends(member, p)

RInv == TypeOK /\ MatchInv /\ MemberInv /\ ControlInv /\ StepInv

-----------------------------------------------------------------------------
(* Types of the values a Room is made of *)

LEMMA ValueTypes ==
  /\ Absent \in Member /\ NewBot \in Member
  /\ \A role \in {"None", "Spectator", "Player"} : Newcomer(role) \in Member
  /\ NoMachine \in Machine
  /\ NoStep \in Step
  /\ EmptyRoster \in [P -> Controller \cup {"none"}]
BY DEF Absent, NewBot, Newcomer, Member, NoMachine, Machine, NoStep, Step, EmptyRoster, Controller

LEMMA DeselectedFields ==
  ASSUME NEW m \in Member
  PROVE  /\ Deselected(m) \in Member
         /\ Deselected(m).here = m.here
         /\ ~Deselected(m).selected /\ ~Deselected(m).ready
         /\ Deselected(m).role = "None"
         /\ Deselected(m).controller = m.controller
         /\ Deselected(m).leaving = m.leaving
BY DEF Deselected, Member

LEMMA UnreadyFields ==
  ASSUME NEW mem \in [P -> Member]
  PROVE  /\ Unready(mem) \in [P -> Member]
         /\ \A p \in P :
              /\ Unready(mem)[p].here = mem[p].here
              /\ Unready(mem)[p].selected = mem[p].selected
              /\ Unready(mem)[p].role = mem[p].role
              /\ Unready(mem)[p].controller = mem[p].controller
              /\ Unready(mem)[p].leaving = mem[p].leaving
              /\ Unready(mem)[p].ready => mem[p].ready
              /\ Kind[p] = "Human" /\ mem[p].selected => ~Unready(mem)[p].ready
<1> DEFINE m(p) == IF mem[p].selected /\ Kind[p] = "Human" THEN [mem[p] EXCEPT !.ready = FALSE]
                                                           ELSE mem[p]
<1>1. Unready(mem) = [p \in P |-> m(p)]
  BY DEF Unready
<1>2. \A p \in P : m(p) \in Member
  BY DEF Member
<1>3. \A p \in P : Unready(mem)[p] = m(p)
  BY <1>1
<1>4. Unready(mem) \in [P -> Member]
  BY <1>1, <1>2
<1> QED
  BY <1>3, <1>4 DEF Member

LEMMA ToLobbyFields ==
  ASSUME NEW mem \in [P -> Member]
  PROVE  /\ ToLobby(mem) \in [P -> Member]
         /\ \A p \in P :
              /\ ToLobby(mem)[p].here = mem[p].here
              /\ ToLobby(mem)[p].role = "None"
              /\ ~ToLobby(mem)[p].selected /\ ~ToLobby(mem)[p].ready
              /\ ~ToLobby(mem)[p].leaving
<1> DEFINE m(p) == [Deselected(mem[p]) EXCEPT !.controller = "Interactive", !.leaving = FALSE]
<1>1. \A p \in P : /\ m(p) \in Member
                   /\ m(p).here = mem[p].here /\ m(p).role = "None"
                   /\ ~m(p).selected /\ ~m(p).ready /\ ~m(p).leaving
  <2> TAKE p \in P
  <2> DEFINE d == Deselected(mem[p])
  <2>1. /\ d \in Member /\ d.here = mem[p].here /\ d.role = "None"
        /\ ~d.selected /\ ~d.ready
    BY DeselectedFields
  <2> HIDE DEF d
  <2>2. m(p) = [d EXCEPT !.controller = "Interactive", !.leaving = FALSE]
    BY DEF d
  <2> QED
    BY <2>1, <2>2 DEF Member, Controller
<1>2. \A p \in P : ToLobby(mem)[p] = IF mem[p].here = "Absent" THEN Absent ELSE m(p)
  BY DEF ToLobby
<1>3. ToLobby(mem) \in [P -> Member]
  BY <1>1, ValueTypes DEF ToLobby
<1> HIDE DEF m
<1> QED
  BY <1>1, <1>2, <1>3 DEF Absent

LEMMA WithoutFields ==
  ASSUME NEW mem \in [P -> Member], NEW gone
  PROVE  /\ Without(mem, gone) \in [P -> Member]
         /\ \A p \in P : Without(mem, gone)[p] = IF p \in gone THEN Absent ELSE mem[p]
BY ValueTypes DEF Without

LEMMA SyncTypes ==
  ASSUME NEW mem \in [P -> Member], NEW m \in Machine,
         roster \in [P -> Controller \cup {"none"}]
  PROVE  /\ SyncedMembers(mem, m) \in [P -> Member]
         /\ SyncedRoster(mem, m) \in [P -> Controller \cup {"none"}]
BY DEF SyncedMembers, SyncedRoster, Machine, Member, Controller

\* What a command leaves behind when it settles.
LEMMA SettledState ==
  ASSUME TypeOK, StepInv, Settles, member' \in [P -> Member], machine'.st = machine.st
  PROVE  /\ life' \in {"open", "deleted", "closed"}
         /\ step' \in Step
         /\ empty' \in BOOLEAN
         /\ task' \in 0..LoopBound
         /\ StepInv'
<1>1. empty' \in BOOLEAN /\ life' \in {"open", "deleted", "closed"}
  BY DEF Settles, TypeOK, Deserted
<1>2. CASE step.active
  <2> DEFINE left == {p \in step.required : Attends(member', p)}
  <2>1. step' = [step EXCEPT !.required = left] /\ task' = LoopBound
    BY <1>2 DEF Settles
  <2>2. left \in SUBSET P /\ left \subseteq step.required
    BY DEF TypeOK, Step
  <2>3. step' \in Step /\ step'.active = step.active /\ step'.required = left
    BY <2>1, <2>2 DEF TypeOK, Step
  <2>4. task' \in 0..LoopBound
    BY <2>1, BoundAssumption
  <2>5. \A p \in step'.required : Attends(member', p)
    BY <2>3
  <2> QED
    BY <1>1, <1>2, <2>3, <2>4, <2>5 DEF StepInv, Attends
<1>3. CASE ~step.active
  BY <1>1, <1>3 DEF Settles, TypeOK, StepInv
<1> QED
  BY <1>2, <1>3 DEF TypeOK, Step

LEMMA RecordedType ==
  ASSUME TypeOK, Recorded
  PROVE  available' \in BOOLEAN
BY DEF TypeOK, Recorded

\* A command that only touches the Participants.
LEMMA QuietCommand ==
  ASSUME RInv, Settles, member' \in [P -> Member],
         UNCHANGED <<phase, config, roster, machine, available>>
  PROVE  TypeOK' /\ StepInv'
BY SettledState DEF RInv, TypeOK

\* The roster of a Match keeps its Players if no entry comes or goes.
LEMMA SamePlayers ==
  ASSUME \A p \in P : roster'[p] = "none" <=> roster[p] = "none"
  PROVE  Players' = Players
BY DEF Players

-----------------------------------------------------------------------------
(* Every command preserves the invariant *)

\* Outside of a Match the invariant speaks about each Participant alone.
Idle(m, p) ==
  /\ ~m.leaving
  /\ m.here = "Absent" => m.role = "None" /\ ~m.selected /\ ~m.ready
  /\ Kind[p] = "Human" /\ m.ready => m.selected /\ m.here = "Connected"

LEMMA IdleNow ==
  ASSUME RInv, ~Playing
  PROVE  /\ machine.st = "none"
         /\ \A p \in P : Idle(member[p], p)
         /\ phase = "Lobby" => \A p \in P : roster[p] = "none" /\ member[p].role = "None"
         /\ phase # "Lobby" =>
              \A p \in P : member[p].role = "Player" \/ member[p].selected => roster[p] # "none"
BY DEF RInv, MatchInv, MemberInv, Idle

LEMMA IdleState ==
  ASSUME TypeOK', StepInv', ~Playing', machine'.st = "none",
         \A p \in P : Idle(member'[p], p),
         phase' = "Lobby" => \A p \in P : roster'[p] = "none" /\ member'[p].role = "None",
         phase' # "Lobby" =>
           \A p \in P : member'[p].role = "Player" \/ member'[p].selected => roster'[p] # "none"
  PROVE  RInv'
<1>1. MatchInv'
  BY DEF MatchInv
<1>2. MemberInv'
  BY DEF MemberInv, Idle
<1>3. ControlInv'
  BY DEF ControlInv
<1> QED
  BY <1>1, <1>2, <1>3 DEF RInv

LEMMA JoinKeeps ==
  ASSUME RInv, NEW p \in P, Join(p)
  PROVE  RInv'
<1> DEFINE role == IF phase = "Lobby" THEN "None" ELSE "Spectator"
<1>1. /\ member' = [member EXCEPT ![p] = Newcomer(role)]
      /\ member' \in [P -> Member]
      /\ UNCHANGED <<phase, config, roster, machine, available>>
      /\ roster[p] = "none"
  BY ValueTypes DEF Join, RInv, TypeOK
<1>2. TypeOK' /\ StepInv'
  BY <1>1, QuietCommand DEF Join
<1>3. MatchInv'
  BY <1>1 DEF RInv, TypeOK, MatchInv, Playing, Players, Seats, Newcomer
<1>4. MemberInv'
  BY <1>1 DEF RInv, TypeOK, MemberInv, MatchInv, Playing, Newcomer
<1>5. ControlInv'
  BY <1>1 DEF RInv, TypeOK, ControlInv, Playing, Players, Newcomer
<1> QED
  BY <1>2, <1>3, <1>4, <1>5 DEF RInv

\* Select, Deselect and FillWithBots end with the selected Humans not Ready.
LEMMA SelectionKeeps ==
  ASSUME RInv, phase = "Lobby", Settles,
         UNCHANGED <<phase, config, roster, machine, available>>,
         NEW mem \in [P -> Member], member' = Unready(mem),
         \A p \in P : /\ ~mem[p].leaving
                      /\ mem[p].role = "None"
                      /\ mem[p].here = "Absent" => ~mem[p].selected /\ ~mem[p].ready
                      /\ Kind[p] = "Human" /\ mem[p].ready => mem[p].selected
  PROVE  RInv'
<1>1. member' \in [P -> Member]
  BY UnreadyFields
<1>2. TypeOK' /\ StepInv'
  BY <1>1, QuietCommand
<1>3. \A p \in P : Idle(member'[p], p) /\ member'[p].role = "None"
  BY UnreadyFields DEF Idle
<1>4. machine'.st = "none" /\ \A p \in P : roster'[p] = "none"
  BY IdleNow DEF Playing
<1> QED
  BY <1>2, <1>3, <1>4, IdleState DEF Playing

LEMMA SelectKeeps ==
  ASSUME RInv, NEW p \in P, Select(p)
  PROVE  RInv'
<1> DEFINE mem == [member EXCEPT ![p].selected = TRUE]
<1>0. member \in [P -> Member]
  BY DEF RInv, TypeOK
<1>1. mem \in [P -> Member]
  <2>1. [member[p] EXCEPT !.selected = TRUE] \in Member
    BY <1>0 DEF Member
  <2> QED
    BY <1>0, <2>1
<1>2. \A q \in P : q # p => mem[q] = member[q]
  BY <1>0
<1>3. mem[p] = [member[p] EXCEPT !.selected = TRUE] /\ member[p] \in Member
  BY DEF RInv, TypeOK
<1>4. /\ mem[p].leaving = member[p].leaving /\ mem[p].role = member[p].role
      /\ mem[p].here = member[p].here /\ mem[p].selected
  BY <1>3 DEF Member
<1>5. /\ phase = "Lobby" /\ Settles /\ member' = Unready(mem) /\ member[p].here # "Absent"
      /\ UNCHANGED <<phase, config, roster, machine, available>>
  BY DEF Select, In
<1>6. \A q \in P : Idle(member[q], q) /\ member[q].role = "None"
  BY <1>5, IdleNow DEF Playing
<1> HIDE DEF mem
<1> QED
  BY <1>1, <1>2, <1>4, <1>5, <1>6, SelectionKeeps DEF Idle

LEMMA DeselectKeeps ==
  ASSUME RInv, NEW p \in P, Deselect(p)
  PROVE  RInv'
<1> DEFINE mem == [member EXCEPT ![p] = Deselected(member[p])]
<1>1. member \in [P -> Member]
  BY DEF RInv, TypeOK
<1>2. /\ mem \in [P -> Member]
      /\ \A q \in P : mem[q] = IF q = p THEN Deselected(member[p]) ELSE member[q]
  BY <1>1, DeselectedFields
<1>3. /\ phase = "Lobby" /\ Settles /\ member' = Unready(mem)
      /\ UNCHANGED <<phase, config, roster, machine, available>>
  BY DEF Deselect
<1>4. \A q \in P : Idle(member[q], q) /\ member[q].role = "None"
  BY <1>3, IdleNow DEF Playing
<1> HIDE DEF mem
<1> QED
  BY <1>1, <1>2, <1>3, <1>4, DeselectedFields, SelectionKeeps DEF Idle

LEMMA FillKeeps ==
  ASSUME RInv, NEW taken \in SUBSET P, NEW created \in SUBSET P, FillWithBots(taken, created)
  PROVE  RInv'
<1> DEFINE mem == [p \in P |-> IF p \in created THEN NewBot
                              ELSE IF p \in taken THEN [member[p] EXCEPT !.selected = TRUE]
                              ELSE member[p]]
<1>1. member \in [P -> Member]
  BY DEF RInv, TypeOK
<1>2. \A p \in P : LET m == [member[p] EXCEPT !.selected = TRUE]
                   IN  /\ m \in Member /\ m.here = member[p].here /\ m.role = member[p].role
                       /\ m.leaving = member[p].leaving /\ m.ready = member[p].ready
                       /\ m.selected
  BY <1>1 DEF Member
<1>3. mem \in [P -> Member]
  BY <1>1, <1>2, ValueTypes
<1>4. /\ phase = "Lobby" /\ Settles /\ member' = Unready(mem)
      /\ \A p \in taken : member[p].here # "Absent"
      /\ UNCHANGED <<phase, config, roster, machine, available>>
  BY DEF FillWithBots, In
<1>5. \A p \in P : Idle(member[p], p) /\ member[p].role = "None"
  BY <1>4, IdleNow DEF Playing
<1>6. \A p \in P : mem[p] = IF p \in created THEN NewBot
                            ELSE IF p \in taken THEN [member[p] EXCEPT !.selected = TRUE]
                            ELSE member[p]
  OBVIOUS
<1>7. \A p \in created : /\ ~mem[p].leaving /\ mem[p].role = "None"
                         /\ mem[p].here = "Connected" /\ mem[p].selected
  BY <1>6 DEF NewBot
<1> HIDE DEF mem
<1>8. \A p \in P : /\ ~mem[p].leaving
                   /\ mem[p].role = "None"
                   /\ mem[p].here = "Absent" => ~mem[p].selected /\ ~mem[p].ready
                   /\ Kind[p] = "Human" /\ mem[p].ready => mem[p].selected
  <2> TAKE p \in P
  <2>1. CASE p \in created
    BY <1>7, <2>1
  <2>2. CASE p \notin created /\ p \in taken
    <3> DEFINE m == [member[p] EXCEPT !.selected = TRUE]
    <3>1. /\ m.here = member[p].here /\ m.role = member[p].role
          /\ m.leaving = member[p].leaving /\ m.selected
      BY <1>2
    <3>2. mem[p] = m
      BY <1>6, <2>2
    <3> HIDE DEF m
    <3> QED
      BY <1>4, <1>5, <2>2, <3>1, <3>2 DEF Idle
  <2>3. CASE p \notin created /\ p \notin taken
    BY <1>5, <1>6, <2>3 DEF Idle
  <2> QED
    BY <2>1, <2>2, <2>3
<1> QED
  BY <1>3, <1>4, <1>8, SelectionKeeps

LEMMA ConfigureKeeps ==
  ASSUME RInv, NEW mode \in Mode, NEW limit \in Limits, NEW save \in Saves, NEW resave \in BOOLEAN,
         Configure(mode, limit, save, resave)
  PROVE  RInv'
<1>1. member \in [P -> Member]
  BY DEF RInv, TypeOK
<1>2. /\ member' \in [P -> Member]
      /\ \A p \in P : member'[p] = member[p] \/ member'[p] = Deselected(member[p])
  BY <1>1, DeselectedFields DEF Configure
<1>3. /\ phase = "Lobby" /\ Settles
      /\ UNCHANGED <<phase, roster, machine>>
      /\ available' \in BOOLEAN
      /\ config' \in [mode : Mode, limit : Limits, save : BOOLEAN]
  BY LimitAssumption DEF Configure, RInv, TypeOK
<1>4. TypeOK' /\ StepInv'
  BY <1>2, <1>3, SettledState DEF RInv, TypeOK
<1>5. \A p \in P : Idle(member'[p], p) /\ member'[p].role = "None"
  BY <1>1, <1>2, <1>3, IdleNow, DeselectedFields DEF Idle, Playing
<1> QED
  BY <1>3, <1>4, <1>5, IdleNow, IdleState DEF Playing

LEMMA SetReadyKeeps ==
  ASSUME RInv, NEW p \in P, SetReady(p)
  PROVE  RInv'
<1>1. member \in [P -> Member] /\ ~Playing
  BY DEF RInv, TypeOK, SetReady, Playing
<1>2. /\ member' \in [P -> Member]
      /\ member[p].selected /\ member[p].here = "Connected"
      /\ UNCHANGED <<phase, config, roster, machine, available>>
      /\ Settles
  <2>1. [member[p] EXCEPT !.ready = TRUE] \in Member
    BY <1>1 DEF Member
  <2>2. member' \in [P -> Member]
    BY <1>1, <2>1 DEF SetReady
  <2> QED
    BY <2>2 DEF SetReady
<1>3. \A q \in P : q # p => member'[q] = member[q]
  BY <1>1 DEF SetReady
<1>4. /\ member'[p].leaving = member[p].leaving /\ member'[p].here = member[p].here
      /\ member'[p].selected = member[p].selected /\ member'[p].role = member[p].role
  BY <1>1 DEF SetReady, Member
<1>5. TypeOK' /\ StepInv'
  BY <1>2, QuietCommand
<1>6. \A q \in P : /\ Idle(member'[q], q) /\ member'[q].role = member[q].role
                   /\ member'[q].selected = member[q].selected
  BY <1>1, <1>2, <1>3, <1>4, IdleNow DEF Idle
<1> QED
  BY <1>1, <1>2, <1>5, <1>6, IdleNow, IdleState DEF Playing

LEMMA BackToLobbyKeeps ==
  ASSUME RInv, BackToLobby
  PROVE  RInv'
<1>1. member \in [P -> Member] /\ ~Playing
  BY DEF RInv, TypeOK, BackToLobby, Playing
<1>2. /\ member' = ToLobby(member) /\ phase' = "Lobby" /\ Settles
      /\ roster' = EmptyRoster /\ machine' = NoMachine
      /\ UNCHANGED <<config, available>>
  BY DEF BackToLobby
<1>3. member' \in [P -> Member]
  BY <1>1, <1>2, ToLobbyFields
<1>4. machine.st = "none" /\ machine'.st = "none"
  BY <1>1, <1>2, IdleNow DEF NoMachine
<1>5. TypeOK' /\ StepInv'
  BY <1>2, <1>3, <1>4, SettledState, ValueTypes DEF RInv, TypeOK
<1>6. \A p \in P : Idle(member'[p], p) /\ member'[p].role = "None" /\ roster'[p] = "none"
  BY <1>1, <1>2, ToLobbyFields DEF Idle, EmptyRoster
<1> QED
  BY <1>2, <1>4, <1>5, <1>6, IdleState DEF Playing

LEMMA EndKeeps ==
  ASSUME RInv, Delete \/ Shutdown \/ PersistenceFailure \/ OpenFails
  PROVE  RInv'
<1>1. UNCHANGED <<phase, config, member, roster, machine, step, task>>
  BY DEF Delete, Shutdown, PersistenceFailure, OpenFails
<1>2. TypeOK'
  BY <1>1 DEF RInv, TypeOK, Delete, Shutdown, PersistenceFailure, OpenFails, Deserted
<1>3. MatchInv' /\ MemberInv' /\ ControlInv' /\ StepInv'
  BY <1>1 DEF RInv, MatchInv, MemberInv, ControlInv, StepInv, Playing, Players, Seats, Attends
<1> QED
  BY <1>2, <1>3 DEF RInv

-----------------------------------------------------------------------------
(* Starting a Match *)

LEMMA CommitKeeps ==
  ASSUME RInv, ~Playing, NEW chosen \in SUBSET P, CanBuild(chosen), Commit(chosen),
         \A p \in P : member[p].role = "Player" \/ member[p].selected => p \in chosen
  PROVE  RInv'
<1>1. member \in [P -> Member]
  BY DEF RInv, TypeOK
<1>2. \A p \in P : InitialController(p) \in Controller
  BY DEF InitialController, Controller
<1>3. \A p \in chosen :
        LET m == [member[p] EXCEPT !.selected = TRUE, !.ready = FALSE, !.role = "Player",
                    !.controller = InitialController(p), !.leaving = FALSE]
        IN  /\ m \in Member /\ m.here = member[p].here
            /\ m.selected /\ ~m.ready /\ m.role = "Player" /\ ~m.leaving
            /\ m.controller = InitialController(p)
  BY <1>1, <1>2 DEF Member
<1>4. /\ member' \in [P -> Member]
      /\ \A p \in P : p \notin chosen => member'[p] = member[p]
      /\ \A p \in chosen :
           /\ member'[p].here = member[p].here
           /\ member'[p].selected /\ ~member'[p].ready /\ ~member'[p].leaving
           /\ member'[p].role = "Player" /\ member'[p].controller = InitialController(p)
  BY <1>1, <1>3 DEF Commit
<1>5. /\ machine' \in Machine /\ machine'.st = "decide"
      /\ \A p \in chosen : machine'.ctl[p] = InitialController(p)
      /\ \A p \in P : machine'.here[p] = "Connected"
  <2> DEFINE ctl == [p \in P |-> IF p \in chosen THEN InitialController(p) ELSE "Interactive"]
  <2>1. ctl \in [P -> Controller]
    BY <1>2 DEF Controller
  <2>2. machine' = [NoMachine EXCEPT !.st = "decide", !.ctl = ctl]
    BY DEF Commit
  <2>3. \A p \in chosen : ctl[p] = InitialController(p)
    OBVIOUS
  <2> HIDE DEF ctl
  <2>4. machine' = [st |-> "decide", wins |-> 0, final |-> FALSE, ctl |-> ctl,
                    here |-> [p \in P |-> "Connected"]]
    BY <2>2 DEF NoMachine
  <2> QED
    BY <2>1, <2>3, <2>4 DEF Machine
<1>6. /\ roster' \in [P -> Controller \cup {"none"}]
      /\ \A p \in P : roster'[p] = IF p \in chosen THEN InitialController(p) ELSE "none"
  BY <1>2 DEF Commit
<1>7. Players' = chosen /\ phase' = "Playing" /\ step' = NoStep
  BY <1>2, <1>6 DEF Players, Controller, Commit
<1>8. TypeOK'
  <2>1. UNCHANGED <<life, config, available>> /\ empty' = FALSE /\ task' = LoopBound
    BY DEF Commit
  <2>2. task' \in 0..LoopBound
    BY <2>1, BoundAssumption
  <2>3. member' \in [P -> Member] /\ machine' \in Machine /\ roster' \in [P -> Controller \cup {"none"}]
    BY <1>4, <1>5, <1>6
  <2>4. step' \in Step
    BY <1>7, ValueTypes
  <2> QED
    BY <1>7, <2>1, <2>2, <2>3, <2>4 DEF RInv, TypeOK
<1>9. \A p \in chosen : member[p].here = "Connected"
  BY DEF CanBuild
<1>10. MatchInv'
  <2>1. Cardinality(Players') = Seats'
    BY <1>7 DEF CanBuild, Seats, Commit
  <2>2. \A p \in P : member'[p].role = "Player" => roster'[p] # "none"
    BY <1>2, <1>4, <1>6 DEF Controller
  <2>3. \A p \in P : member'[p].selected => roster'[p] # "none"
    BY <1>2, <1>4, <1>6 DEF Controller
  <2> QED
    BY <1>4, <1>5, <1>7, <2>1, <2>2, <2>3 DEF MatchInv, Playing
<1>11. MemberInv'
  <2>1. \A p \in P : Idle(member[p], p)
    BY IdleNow
  <2> QED
    BY <1>4, <1>7, <1>9, <2>1 DEF MemberInv, Playing, Idle
<1>12. ControlInv'
  BY <1>4, <1>5, <1>6, <1>7 DEF ControlInv, InitialController
<1>13. StepInv'
  BY <1>5, <1>7 DEF StepInv, NoStep
<1> QED
  BY <1>8, <1>10, <1>11, <1>12, <1>13 DEF RInv

LEMMA StartKeeps ==
  ASSUME RInv, Start \/ Rematch
  PROVE  RInv'
<1>1. CASE Start
  <2>1. Selected \in SUBSET P /\ ~Playing /\ CanBuild(Selected)
    BY <1>1 DEF Start, Selected, Playing
  <2>2. \A p \in P : member[p].role = "Player" \/ member[p].selected => p \in Selected
    BY <1>1 DEF Start, Selected, RInv, MatchInv
  <2>3. CASE Commit(Selected)
    BY <2>1, <2>2, <2>3, CommitKeeps
  <2>4. CASE OpenFails
    BY <2>4, EndKeeps
  <2> QED
    BY <1>1, <2>3, <2>4 DEF Start
<1>2. CASE Rematch
  <2>1. Players \in SUBSET P /\ ~Playing /\ CanBuild(Players)
    BY <1>2 DEF Rematch, CanRematch, Players, Playing
  <2>2. \A p \in P : member[p].role = "Player" \/ member[p].selected => p \in Players
    BY <1>2 DEF Rematch, CanRematch, Players, RInv, MatchInv
  <2>3. CASE Commit(Players)
    BY <2>1, <2>2, <2>3, CommitKeeps
  <2>4. CASE OpenFails
    BY <2>4, EndKeeps
  <2> QED
    BY <1>2, <2>3, <2>4 DEF Rematch
<1> QED
  BY <1>1, <1>2

-----------------------------------------------------------------------------
(* A Match is played *)

\* What the Participants mem and the machine m must agree on during a Match.
Table(mem, m) ==
  \A p \in P :
    /\ mem[p].here = "Absent" => mem[p].role = "None" /\ ~mem[p].leaving
    /\ ~(Kind[p] = "Human" /\ mem[p].ready)
    /\ ~(mem[p].here = "Absent" /\ mem[p].ready)
    /\ mem[p].role = "Player" <=> p \in Players
    /\ mem[p].selected <=> p \in Players
    /\ mem[p].leaving => /\ p \in Players
                         /\ mem[p].here = "Disconnected"
                         /\ m.ctl[p] = "PermanentAuto"
    /\ p \in Players /\ Kind[p] # "BuiltInBot" /\ mem[p].here = "Connected" =>
         m.ctl[p] = "Interactive" /\ m.here[p] = "Connected"

LEMMA TableNow ==
  ASSUME RInv, Playing
  PROVE  /\ Table(member, machine)
         /\ machine.st # "none"
         /\ \A p \in Players : machine.ctl[p] = "PermanentAuto" => member[p].controller = "PermanentAuto"
<1>1. \A p \in P : p \in Players <=> roster[p] # "none"
  BY DEF Players
<1>2. \A p \in P : member[p].role = "Player" <=> p \in Players
  BY <1>1 DEF RInv, MatchInv
<1>3. \A p \in P : member[p].selected <=> p \in Players
  BY <1>1 DEF RInv, MatchInv, Playing
<1>4. Table(member, machine)
  BY <1>2, <1>3 DEF Table, RInv, MemberInv, ControlInv
<1> QED
  BY <1>4 DEF RInv, MatchInv, ControlInv

LEMMA SyncFields ==
  ASSUME NEW mem \in [P -> Member], NEW m \in Machine,
         roster \in [P -> Controller \cup {"none"}]
  PROVE  \A p \in P :
           LET c == SyncedMembers(mem, m)[p]
           IN  /\ c.here = mem[p].here /\ c.selected = mem[p].selected
               /\ c.ready = mem[p].ready /\ c.role = mem[p].role
               /\ c.leaving = mem[p].leaving
               /\ p \in Players /\ mem[p].here # "Absent" =>
                    c.controller = m.ctl[p] /\ SyncedRoster(mem, m)[p] = m.ctl[p]
               /\ SyncedRoster(mem, m)[p] = "none" <=> roster[p] = "none"
<1> TAKE p \in P
<1>1. m.ctl[p] \in Controller /\ mem[p] \in Member
  BY DEF Machine
<1>2. CASE p \in Players \cap In(mem)
  <2>1. /\ SyncedMembers(mem, m)[p] = [mem[p] EXCEPT !.controller = m.ctl[p]]
        /\ SyncedRoster(mem, m)[p] = m.ctl[p]
    BY <1>2 DEF SyncedMembers, SyncedRoster
  <2> QED
    BY <1>1, <1>2, <2>1 DEF Member, Controller, Players
<1>3. CASE p \notin Players \cap In(mem)
  BY <1>3 DEF SyncedMembers, SyncedRoster, In
<1> QED
  BY <1>2, <1>3

LEMMA TableState ==
  ASSUME RInv, Playing, Playing', config' = config,
         NEW mem \in [P -> Member], NEW m \in Machine, Table(mem, m),
         member' = SyncedMembers(mem, m), roster' = SyncedRoster(mem, m),
         machine'.st # "none", machine'.ctl = m.ctl, machine'.here = m.here
  PROVE  /\ member' \in [P -> Member] /\ roster' \in [P -> Controller \cup {"none"}]
         /\ MatchInv' /\ MemberInv' /\ ControlInv'
<1>1. roster \in [P -> Controller \cup {"none"}]
  BY DEF RInv, TypeOK
<1>2. member' \in [P -> Member] /\ roster' \in [P -> Controller \cup {"none"}]
  BY <1>1, SyncTypes
<1>3. \A p \in P : /\ member'[p].here = mem[p].here /\ member'[p].selected = mem[p].selected
                   /\ member'[p].ready = mem[p].ready /\ member'[p].role = mem[p].role
                   /\ member'[p].leaving = mem[p].leaving
                   /\ p \in Players /\ mem[p].here # "Absent" =>
                        member'[p].controller = m.ctl[p] /\ roster'[p] = m.ctl[p]
                   /\ roster'[p] = "none" <=> roster[p] = "none"
  BY <1>1, SyncFields
<1>4. Players' = Players /\ \A p \in P : p \in Players <=> roster'[p] # "none"
  BY <1>3, SamePlayers DEF Players
<1>5. \A p \in Players : mem[p].here # "Absent"
  BY DEF Table, Players
<1>6. MatchInv'
  <2>1. Cardinality(Players') = Seats'
    BY <1>4 DEF RInv, MatchInv, Seats
  <2>2. \A p \in P : member'[p].role = "Player" => roster'[p] # "none"
    BY <1>3, <1>4 DEF Table
  <2>3. \A p \in Players : p \in P /\ member'[p].role = "Player" /\ member'[p].selected
    BY <1>3 DEF Table, Players
  <2>4. \A p \in P : member'[p].selected => roster'[p] # "none"
    BY <1>3, <1>4 DEF Table
  <2>5. \A p \in Players' : member'[p].role = "Player" /\ member'[p].selected
    BY <1>4, <2>3
  <2> QED
    BY <2>1, <2>2, <2>4, <2>5 DEF MatchInv, Playing
<1>7. MemberInv'
  BY <1>3, <1>5 DEF MemberInv, Table
<1>8. ControlInv'
  <2>1. Players \subseteq P
    BY DEF Players
  <2>2. \A p \in Players :
          /\ member'[p].controller = m.ctl[p] /\ roster'[p] = m.ctl[p]
          /\ member'[p].here = mem[p].here
          /\ Kind[p] # "BuiltInBot" /\ mem[p].here = "Connected" =>
               m.ctl[p] = "Interactive" /\ m.here[p] = "Connected"
    BY <1>3, <1>5, <2>1 DEF Table
  <2> QED
    BY <1>4, <2>2 DEF ControlInv
<1> QED
  BY <1>2, <1>6, <1>7, <1>8

\* A new result step waits only for Players the Table shows as present.
LEMMA NewStepWaits ==
  ASSUME RInv, NEW i \in Nat, member' \in [P -> Member],
         \A p \in Players : Attends(member, p) => Attends(member', p),
         step' = NewStep(i), machine'.st = "held"
  PROVE  step' \in Step /\ StepInv'
<1>1. Players \in SUBSET P
  BY DEF Players
<1>2. {p \in Players : Attends(member, p)} \in SUBSET P
  BY <1>1
<1>3. step' \in Step
  BY <1>2 DEF NewStep, Step
<1> QED
  BY <1>3 DEF NewStep, StepInv, Attends

\* Synchronized, a Player who attended still does.
LEMMA StillAttends ==
  ASSUME RInv, NEW mem \in [P -> Member], NEW m \in Machine, Table(mem, m),
         member' = SyncedMembers(mem, m),
         \A p \in Players : mem[p].here = member[p].here
  PROVE  \A p \in Players : Attends(member, p) => Attends(member', p)
<1> TAKE p \in Players
<1> HAVE Attends(member, p)
<1>1. p \in P /\ roster \in [P -> Controller \cup {"none"}]
  BY DEF Players, RInv, TypeOK
<1>2. mem[p].here = "Connected" /\ mem[p].role = "Player" /\ Kind[p] = "Human"
  BY <1>1 DEF Attends, Table
<1>3. m.ctl[p] = "Interactive"
  BY <1>1, <1>2 DEF Table
<1> QED
  BY <1>1, <1>2, <1>3, SyncFields DEF Attends

-----------------------------------------------------------------------------
(* Coming and going *)

LEMMA DisconnectKeeps ==
  ASSUME RInv, NEW p \in P, Disconnect(p)
  PROVE  RInv'
<1> DEFINE m == IF machine.st # "none" /\ member[p].role = "Player"
                THEN [machine EXCEPT !.here[p] = "Disconnected"] ELSE machine
           mem == [member EXCEPT ![p].here = "Disconnected", ![p].clock = TRUE, ![p].ready = FALSE]
<1>1. member \in [P -> Member] /\ machine \in Machine
  BY DEF RInv, TypeOK
<1>2. /\ mem \in [P -> Member]
      /\ \A q \in P : q # p => mem[q] = member[q]
      /\ mem[p].here = "Disconnected" /\ ~mem[p].ready
      /\ mem[p].selected = member[p].selected /\ mem[p].role = member[p].role
      /\ mem[p].leaving = member[p].leaving
  <2> DEFINE away == [member[p] EXCEPT !.here = "Disconnected", !.clock = TRUE, !.ready = FALSE]
  <2>1. away \in Member
    BY <1>1 DEF Member
  <2>2. /\ away.here = "Disconnected" /\ ~away.ready
        /\ away.selected = member[p].selected /\ away.role = member[p].role
        /\ away.leaving = member[p].leaving
    BY <1>1 DEF Member
  <2>3. mem = [member EXCEPT ![p] = away]
    BY <1>1
  <2> HIDE DEF away, mem
  <2> QED
    BY <1>1, <2>1, <2>2, <2>3
<1>3. /\ m \in Machine /\ m.st = machine.st /\ m.ctl = machine.ctl
      /\ \A q \in P : q # p => m.here[q] = machine.here[q]
  BY <1>1 DEF Machine
<1>4. /\ machine' = m /\ UNCHANGED <<phase, config>> /\ Recorded /\ Settles
      /\ IF m.st = "none" THEN member' = mem /\ UNCHANGED roster
         ELSE member' = SyncedMembers(mem, m) /\ roster' = SyncedRoster(mem, m)
  BY DEF Disconnect
<1> HIDE DEF m, mem
<1>5. CASE Playing
  <2>1. Table(mem, m)
    <3>1. Table(member, machine)
      BY <1>5, TableNow
    <3> QED
      BY <1>2, <1>3, <3>1 DEF Table
  <2>2. m.st # "none"
    BY <1>3, <1>5, TableNow
  <2>3. /\ member' \in [P -> Member] /\ roster' \in [P -> Controller \cup {"none"}]
        /\ MatchInv' /\ MemberInv' /\ ControlInv'
    BY <1>2, <1>3, <1>4, <1>5, <2>1, <2>2, TableState DEF Playing
  <2>4. TypeOK' /\ StepInv'
    BY <1>3, <1>4, <2>3, SettledState, RecordedType DEF RInv, TypeOK
  <2> QED
    BY <2>3, <2>4 DEF RInv
<1>6. CASE ~Playing
  <2>1. m.st = "none" /\ member' = mem /\ roster' = roster
    BY <1>3, <1>4, <1>6, IdleNow
  <2>2. TypeOK' /\ StepInv'
    BY <1>2, <1>3, <1>4, <2>1, SettledState, RecordedType DEF RInv, TypeOK
  <2>3. \A q \in P : /\ Idle(member'[q], q) /\ member'[q].role = member[q].role
                     /\ member'[q].selected = member[q].selected
    BY <1>2, <1>6, <2>1, IdleNow DEF Idle
  <2> QED
    BY <1>4, <1>6, <2>1, <2>2, <2>3, IdleNow, IdleState DEF Playing
<1> QED
  BY <1>5, <1>6

\* A command that changes Participants, roster and machine by itself.
LEMMA TableHolds ==
  ASSUME RInv, Playing, Playing', config' = config, machine'.st # "none",
         Table(member', machine'),
         \A p \in P : roster'[p] = "none" <=> roster[p] = "none",
         \A p \in Players :
           /\ machine'.ctl[p] = "PermanentAuto" => member'[p].controller = "PermanentAuto"
           /\ Kind[p] # "BuiltInBot" /\ member'[p].here = "Connected" =>
                member'[p].controller = "Interactive" /\ roster'[p] = "Interactive"
  PROVE  MatchInv' /\ MemberInv' /\ ControlInv'
<1>1. Players' = Players /\ Players \subseteq P /\ \A p \in P : p \in Players <=> roster'[p] # "none"
  BY SamePlayers DEF Players
<1>2. MatchInv'
  <2>1. Cardinality(Players') = Seats'
    BY <1>1 DEF RInv, MatchInv, Seats
  <2>2. \A p \in P : member'[p].role = "Player" => roster'[p] # "none"
    BY <1>1 DEF Table
  <2>3. \A p \in P : member'[p].selected => roster'[p] # "none"
    BY <1>1 DEF Table
  <2>4. \A p \in Players' : member'[p].role = "Player" /\ member'[p].selected
    BY <1>1 DEF Table
  <2> QED
    BY <2>1, <2>2, <2>3, <2>4 DEF MatchInv, Playing
<1>3. MemberInv'
  BY <1>1 DEF MemberInv, Table
<1>4. ControlInv'
  <2>1. \A p \in Players :
          Kind[p] # "BuiltInBot" /\ member'[p].here = "Connected" =>
            machine'.ctl[p] = "Interactive" /\ machine'.here[p] = "Connected"
    BY <1>1 DEF Table
  <2> QED
    BY <1>1, <2>1 DEF ControlInv
<1> QED
  BY <1>2, <1>3, <1>4

LEMMA ReconnectKeeps ==
  ASSUME RInv, NEW p \in P, Reconnect(p)
  PROVE  RInv'
<1>1. /\ member \in [P -> Member] /\ machine \in Machine
      /\ roster \in [P -> Controller \cup {"none"}]
  BY DEF RInv, TypeOK
<1>2. /\ UNCHANGED <<phase, config>> /\ Recorded /\ Settles
      /\ member[p].controller # "PermanentAuto" /\ member[p].here # "Absent"
  BY DEF Reconnect, In
<1>3. /\ member' \in [P -> Member]
      /\ \A q \in P : q # p => member'[q] = member[q]
      /\ member'[p].here = "Connected" /\ member'[p].controller = "Interactive"
      /\ member'[p].ready => member[p].ready /\ phase # "Lobby"
      /\ member'[p].selected = member[p].selected /\ member'[p].role = member[p].role
      /\ member'[p].leaving = member[p].leaving
  <2> DEFINE ready == IF phase = "Lobby" THEN FALSE ELSE member[p].ready
             m == [member[p] EXCEPT !.here = "Connected", !.clock = FALSE,
                     !.controller = "Interactive", !.ready = ready]
  <2>0. ready \in BOOLEAN
    BY <1>1 DEF Member
  <2>1. m.here = "Connected" /\ m.controller = "Interactive"
    BY <1>1 DEF Member
  <2>2. m.ready => member[p].ready /\ phase # "Lobby"
    BY <1>1 DEF Member
  <2>3. /\ m.selected = member[p].selected /\ m.role = member[p].role
        /\ m.leaving = member[p].leaving
    BY <1>1 DEF Member
  <2>4. m \in Member
    <3> HIDE DEF ready
    <3> QED
      BY <1>1, <2>0 DEF Member, Controller
  <2>5. member' = [member EXCEPT ![p] = m]
    BY <1>1 DEF Reconnect
  <2> HIDE DEF m
  <2> QED
    BY <1>1, <2>1, <2>2, <2>3, <2>4, <2>5
<1>4. /\ roster' \in [P -> Controller \cup {"none"}]
      /\ \A q \in P : roster'[q] = IF q = p /\ p \in Players THEN "Interactive" ELSE roster[q]
  BY <1>1 DEF Reconnect, Controller
<1>5. \A q \in P : roster'[q] = "none" <=> roster[q] = "none"
  BY <1>4 DEF Players
<1>6. CASE Playing
  <2>1. Table(member, machine) /\ machine.st # "none"
    BY <1>6, TableNow
  <2>2. /\ machine' \in Machine /\ machine'.st = machine.st
        /\ \A q \in P : q # p => machine'.ctl[q] = machine.ctl[q] /\ machine'.here[q] = machine.here[q]
    BY <1>1 DEF Reconnect, Machine, Controller
  <2>3. p \in Players => machine'.ctl[p] = "Interactive" /\ machine'.here[p] = "Connected"
    <3> HAVE p \in Players
    <3>1. member[p].role = "Player"
      BY <2>1 DEF Table
    <3>2. machine.ctl[p] \in Controller \ {"PermanentAuto"}
      BY <1>1, <1>2, <1>6, TableNow DEF Machine
    <3> QED
      BY <1>1, <2>1, <3>1, <3>2 DEF Reconnect, Machine, Controller
  <2>4. ~member[p].leaving
    BY <1>2, <1>6 DEF RInv, MemberInv
  <2>5. Table(member', machine')
    BY <1>2, <1>3, <2>1, <2>2, <2>3, <2>4 DEF Table
  <2>6. \A q \in Players :
           /\ machine'.ctl[q] = "PermanentAuto" => member'[q].controller = "PermanentAuto"
           /\ Kind[q] # "BuiltInBot" /\ member'[q].here = "Connected" =>
                member'[q].controller = "Interactive" /\ roster'[q] = "Interactive"
    BY <1>3, <1>4, <1>6, <2>2, <2>3, TableNow DEF RInv, ControlInv, Players
  <2>7. MatchInv' /\ MemberInv' /\ ControlInv'
    BY <1>2, <1>5, <1>6, <2>1, <2>2, <2>5, <2>6, TableHolds DEF Playing
  <2>8. TypeOK' /\ StepInv'
    BY <1>2, <1>3, <1>4, <2>2, SettledState, RecordedType DEF RInv, TypeOK
  <2> QED
    BY <2>7, <2>8 DEF RInv
<1>7. CASE ~Playing
  <2>1. machine' = machine /\ machine.st = "none"
    BY <1>7, IdleNow DEF Reconnect
  <2>2. TypeOK' /\ StepInv'
    BY <1>2, <1>3, <1>4, <2>1, SettledState, RecordedType DEF RInv, TypeOK
  <2>3. \A q \in P : /\ Idle(member'[q], q) /\ member'[q].role = member[q].role
                     /\ member'[q].selected = member[q].selected
    BY <1>3, <1>7, IdleNow DEF Idle
  <2> QED
    BY <1>2, <1>5, <1>7, <2>1, <2>2, <2>3, IdleNow, IdleState DEF Playing
<1> QED
  BY <1>6, <1>7

LEMMA GoesKeeps ==
  ASSUME RInv, NEW gone \in SUBSET P, Goes(gone)
  PROVE  RInv'
<1> DEFINE retained == IF phase = "Playing" THEN {p \in gone : member[p].role = "Player"} ELSE {}
           gives(p) == [member[p] EXCEPT !.leaving = TRUE, !.here = "Disconnected",
                          !.controller = "PermanentAuto"]
<1>1. /\ member \in [P -> Member] /\ machine \in Machine
      /\ roster \in [P -> Controller \cup {"none"}]
  BY DEF RInv, TypeOK
<1>2. UNCHANGED <<phase, config>> /\ Recorded /\ Settles
  BY DEF Goes
<1>3. \A p \in P : /\ gives(p) \in Member
                   /\ gives(p).leaving /\ gives(p).here = "Disconnected"
                   /\ gives(p).controller = "PermanentAuto" /\ gives(p).ready = member[p].ready
                   /\ gives(p).selected = member[p].selected /\ gives(p).role = member[p].role
  <2> TAKE p \in P
  <2>1. member[p] \in Member
    BY <1>1
  <2>2. /\ gives(p).leaving /\ gives(p).here = "Disconnected"
        /\ gives(p).controller = "PermanentAuto"
    BY <2>1 DEF Member
  <2>3. /\ gives(p).ready = member[p].ready
        /\ gives(p).selected = member[p].selected /\ gives(p).role = member[p].role
    BY <2>1 DEF Member
  <2>4. gives(p) \in Member
    BY <2>1 DEF Member, Controller
  <2> QED
    BY <2>2, <2>3, <2>4
<1>4. /\ member' = [p \in P |-> IF p \in retained THEN gives(p)
                                ELSE IF p \in gone THEN Absent ELSE member[p]]
      /\ machine' = IF machine.st = "none" THEN machine
                    ELSE [machine EXCEPT !.ctl = [p \in P |-> IF p \in retained
                                                    THEN "PermanentAuto" ELSE @[p]]]
      /\ roster' = [p \in P |-> IF p \in retained \cap Players THEN "PermanentAuto"
                                                               ELSE roster[p]]
  BY DEF Goes
<1>5. /\ retained \subseteq gone
      /\ \A p \in retained : member[p].role = "Player" /\ phase = "Playing"
      /\ phase = "Playing" => \A p \in gone \ retained : member[p].role # "Player"
  OBVIOUS
<1> HIDE DEF retained, gives
<1>6. member' \in [P -> Member] /\ roster' \in [P -> Controller \cup {"none"}]
  BY <1>1, <1>3, <1>4, ValueTypes DEF Controller
<1>7. /\ \A p \in P : roster'[p] = IF p \in retained \cap Players THEN "PermanentAuto" ELSE roster[p]
      /\ \A p \in P : roster'[p] = "none" <=> roster[p] = "none"
  BY <1>4 DEF Players
<1>8. \A p \in P : /\ p \in retained => member'[p] = gives(p)
                   /\ p \in gone /\ p \notin retained => member'[p] = Absent
                   /\ p \notin gone => member'[p] = member[p]
  BY <1>4, <1>5
<1>9. machine' \in Machine /\ machine'.st = machine.st
  BY <1>1, <1>4 DEF Machine, Controller
<1>10. TypeOK' /\ StepInv'
  BY <1>2, <1>6, <1>9, SettledState, RecordedType DEF RInv, TypeOK
<1>11. CASE Playing
  <2>1. Table(member, machine) /\ machine.st # "none"
    BY <1>11, TableNow
  <2>2. /\ machine'.here = machine.here
        /\ \A p \in P : machine'.ctl[p] = IF p \in retained THEN "PermanentAuto" ELSE machine.ctl[p]
    BY <1>1, <1>4, <2>1 DEF Machine
  <2>3. \A p \in retained : p \in P /\ p \in Players
    BY <1>5, <2>1 DEF Table
  <2>4. \A p \in Players : p \in P /\ (p \in retained \/ p \notin gone)
    BY <1>5, <1>11, <2>1 DEF Table, Players, Playing
  <2>5. Table(member', machine')
    <3>1. \A p \in retained :
            /\ member'[p].leaving /\ member'[p].here = "Disconnected"
            /\ member'[p].ready = member[p].ready
            /\ member'[p].selected = member[p].selected /\ member'[p].role = member[p].role
            /\ machine'.ctl[p] = "PermanentAuto"
      BY <1>3, <1>8, <2>2, <2>3
    <3>2. \A p \in gone \ retained :
            /\ p \notin Players
            /\ member'[p].here = "Absent" /\ member'[p].role = "None"
            /\ ~member'[p].selected /\ ~member'[p].ready /\ ~member'[p].leaving
      BY <1>8, <2>4 DEF Absent
    <3>3. \A p \in P \ gone : /\ member'[p] = member[p]
                              /\ machine'.ctl[p] = machine.ctl[p]
      BY <1>5, <1>8, <2>2
    <3> QED
      BY <1>5, <2>1, <2>2, <2>3, <3>1, <3>2, <3>3 DEF Table
  <2>6. \A p \in Players :
           /\ machine'.ctl[p] = "PermanentAuto" => member'[p].controller = "PermanentAuto"
           /\ Kind[p] # "BuiltInBot" /\ member'[p].here = "Connected" =>
                member'[p].controller = "Interactive" /\ roster'[p] = "Interactive"
    <3> TAKE p \in Players
    <3>1. CASE p \in retained
      BY <1>3, <1>8, <2>3, <3>1
    <3>2. CASE p \notin gone
      BY <1>5, <1>7, <1>8, <1>11, <2>2, <2>4, <3>2, TableNow DEF RInv, ControlInv
    <3> QED
      BY <2>4, <3>1, <3>2
  <2>7. MatchInv' /\ MemberInv' /\ ControlInv'
    BY <1>2, <1>7, <1>9, <1>11, <2>1, <2>5, <2>6, TableHolds DEF Playing
  <2> QED
    BY <1>10, <2>7 DEF RInv
<1>12. CASE ~Playing
  <2>1. \A p \in P : member'[p] = Absent \/ member'[p] = member[p]
    BY <1>5, <1>8, <1>12 DEF Playing
  <2>2. \A p \in P : /\ Idle(member'[p], p)
                     /\ phase = "Lobby" => member'[p].role = "None"
                     /\ member'[p].role = "Player" => member[p].role = "Player"
                     /\ member'[p].selected => member[p].selected
    BY <1>12, <2>1, IdleNow DEF Idle, Absent
  <2> QED
    BY <1>2, <1>7, <1>9, <1>10, <1>12, <2>2, IdleNow, IdleState DEF Playing
<1> QED
  BY <1>11, <1>12

-----------------------------------------------------------------------------
(* The machine plays *)

LEMMA PlayedFields ==
  ASSUME NEW m \in Machine, NEW n \in Played(m)
  PROVE  /\ n \in Machine /\ n.ctl = m.ctl /\ n.here = m.here
         /\ n = m \/ n.st = "held"
<1>1. ASSUME NEW wins \in 0..MaxWins, NEW final \in BOOLEAN
      PROVE  LET k == Held(m, wins, final)
             IN  k \in Machine /\ k.ctl = m.ctl /\ k.here = m.here /\ k.st = "held"
  <2>1. wins \in Nat
    BY LimitAssumption
  <2> QED
    BY <2>1 DEF Machine, Held
<1>2. CASE n # m
  <2>1. \E wins \in 0..MaxWins, final \in BOOLEAN : n = Held(m, wins, final)
    BY <1>2 DEF Played
  <2> QED
    BY <1>1, <2>1
<1> QED
  BY <1>2

LEMMA ExpiredFields ==
  ASSUME machine \in Machine, NEW m \in Expired(machine)
  PROVE  /\ m \in Machine /\ m.st = machine.st /\ m.here = machine.here
         /\ \A p \in P : \/ m.ctl[p] = machine.ctl[p]
                         \/ /\ m.ctl[p] = "TemporaryAuto" /\ p \in Players
                            /\ machine.here[p] = "Disconnected"
                            /\ machine.ctl[p] = "Interactive"
<1>1. PICK late \in SUBSET {p \in Players : machine.here[p] = "Disconnected"
                                            /\ machine.ctl[p] = "Interactive"} :
        m = [machine EXCEPT !.ctl = [p \in P |-> IF p \in late THEN "TemporaryAuto" ELSE @[p]]]
  BY DEF Expired
<1> DEFINE ctl == [p \in P |-> IF p \in late THEN "TemporaryAuto" ELSE machine.ctl[p]]
<1>2. ctl \in [P -> Controller]
  BY DEF Machine, Controller
<1>3. m = [machine EXCEPT !.ctl = ctl]
  BY <1>1
<1>4. \A p \in P : ctl[p] = IF p \in late THEN "TemporaryAuto" ELSE machine.ctl[p]
  OBVIOUS
<1> HIDE DEF ctl
<1>5. m \in Machine /\ m.st = machine.st /\ m.here = machine.here /\ m.ctl = ctl
  BY <1>2, <1>3 DEF Machine
<1> QED
  BY <1>1, <1>4, <1>5

\* The machine may go on as long as nobody who is there loses control.
Moves(m) ==
  /\ m \in Machine
  /\ m.here = machine.here
  /\ \A p \in P : \/ m.ctl[p] = machine.ctl[p]
                  \/ /\ m.ctl[p] = "TemporaryAuto" /\ p \in Players
                     /\ machine.here[p] = "Disconnected"
                     /\ machine.ctl[p] = "Interactive"

LEMMA MovesTable ==
  ASSUME NEW mem, NEW m, Table(mem, machine), Moves(m)
  PROVE  Table(mem, m)
<1> SUFFICES ASSUME NEW p \in P
             PROVE  /\ mem[p].leaving => m.ctl[p] = "PermanentAuto"
                    /\ p \in Players /\ Kind[p] # "BuiltInBot" /\ mem[p].here = "Connected" =>
                         m.ctl[p] = "Interactive" /\ m.here[p] = "Connected"
  BY DEF Table
<1>1. mem[p].leaving => machine.ctl[p] = "PermanentAuto"
  BY DEF Table
<1>2. p \in Players /\ Kind[p] # "BuiltInBot" /\ mem[p].here = "Connected" =>
        machine.ctl[p] = "Interactive" /\ machine.here[p] = "Connected"
  BY DEF Table
<1> QED
  BY <1>1, <1>2 DEF Moves

\* Whatever only moves the machine keeps the Room and the machine in agreement.
LEMMA MoveKeeps ==
  ASSUME RInv, Playing, UNCHANGED <<phase, config, member, roster>>,
         Moves(machine'), machine'.st # "none"
  PROVE  MatchInv' /\ MemberInv' /\ ControlInv'
<1>1. Table(member, machine)
  BY TableNow
<1>2. Table(member', machine')
  BY <1>1, MovesTable
<1>3. \A p \in Players :
           /\ machine'.ctl[p] = "PermanentAuto" => member'[p].controller = "PermanentAuto"
           /\ Kind[p] # "BuiltInBot" /\ member'[p].here = "Connected" =>
                member'[p].controller = "Interactive" /\ roster'[p] = "Interactive"
  BY DEF Moves, Players, RInv, ControlInv
<1> QED
  BY <1>2, <1>3, TableHolds DEF Playing

\* Results of a Decision are presented as soon as they are there.
LEMMA ResultStep ==
  ASSUME RInv, machine.st = "decide", NEW m \in Machine, m.st \in {"decide", "held"},
         HandleResult(m), member' \in [P -> Member],
         \A p \in Players : Attends(member, p) => Attends(member', p)
  PROVE  step' \in Step /\ StepInv' /\ available' \in BOOLEAN /\ machine' = m
<1>1. machine' = m /\ available' \in BOOLEAN
  BY RecordedType DEF HandleResult, RInv
<1>2. CASE m.st = "held"
  BY <1>1, <1>2, NewStepWaits DEF HandleResult
<1>3. CASE m.st = "decide"
  <2>1. step' = step /\ ~step.active /\ step.required = {}
    BY <1>3 DEF HandleResult, RInv, StepInv
  <2> QED
    BY <1>1, <1>3, <2>1 DEF RInv, TypeOK, StepInv
<1> QED
  BY <1>1, <1>2, <1>3

LEMMA SubmitKeeps ==
  ASSUME RInv, NEW p \in P, SubmitAction(p)
  PROVE  RInv'
<1>1. /\ member \in [P -> Member] /\ machine \in Machine
      /\ roster \in [P -> Controller \cup {"none"}]
  BY DEF RInv, TypeOK
<1>2. PICK m \in Played(machine) :
        /\ HandleResult(m)
        /\ member' = SyncedMembers(member, m)
        /\ roster' = SyncedRoster(member, m)
  BY DEF SubmitAction
<1>3. /\ machine.st = "decide" /\ UNCHANGED <<life, phase, config, empty>> /\ task' = LoopBound
  BY DEF SubmitAction
<1>4. Playing
  BY <1>3 DEF RInv, MatchInv
<1>5. m \in Machine /\ m.st \in {"decide", "held"} /\ Moves(m)
  BY <1>1, <1>3, PlayedFields DEF Moves
<1>6. Table(member, m)
  BY <1>4, <1>5, TableNow, MovesTable
<1>7. machine' = m
  BY <1>2 DEF HandleResult
<1>8. /\ member' \in [P -> Member] /\ roster' \in [P -> Controller \cup {"none"}]
      /\ MatchInv' /\ MemberInv' /\ ControlInv'
  BY <1>1, <1>2, <1>3, <1>4, <1>5, <1>6, <1>7, TableState DEF Playing
<1>9. \A q \in Players : Attends(member, q) => Attends(member', q)
  BY <1>1, <1>2, <1>5, <1>6, StillAttends
<1>10. step' \in Step /\ StepInv' /\ available' \in BOOLEAN
  BY <1>2, <1>3, <1>5, <1>8, <1>9, ResultStep
<1>11. TypeOK'
  BY <1>3, <1>5, <1>7, <1>8, <1>10, BoundAssumption DEF RInv, TypeOK
<1> QED
  BY <1>8, <1>10, <1>11 DEF RInv

LEMMA SubmissionFailsKeeps ==
  ASSUME RInv, NEW p \in P, SubmissionFails(p)
  PROVE  RInv'
<1>1. /\ machine \in Machine /\ machine.st = "decide"
      /\ machine' = [machine EXCEPT !.st = "aborted"]
      /\ UNCHANGED <<life, phase, config, member, roster, step, available, empty, task>>
  BY DEF RInv, TypeOK, SubmissionFails
<1>2. machine' \in Machine /\ machine'.st = "aborted" /\ Moves(machine')
  BY <1>1 DEF Machine, Moves
<1>3. MatchInv' /\ MemberInv' /\ ControlInv'
  BY <1>1, <1>2, MoveKeeps DEF RInv, MatchInv
<1>4. StepInv'
  BY <1>1, <1>2 DEF RInv, StepInv
<1>5. TypeOK'
  BY <1>1, <1>2 DEF RInv, TypeOK
<1> QED
  BY <1>3, <1>4, <1>5 DEF RInv

LEMMA ResultClockKeeps ==
  ASSUME RInv, StepFallsDue \/ \E p \in P : ConfirmResult(p)
  PROVE  RInv'
<1>1. /\ step.active /\ step \in Step
      /\ UNCHANGED <<life, phase, config, member, roster, machine, available, empty>>
      /\ task' \in 0..LoopBound
  BY BoundAssumption DEF RInv, TypeOK, StepFallsDue, ConfirmResult
<1>2. /\ step' \in Step /\ step'.active = step.active /\ step'.required = step.required
  <2>1. \/ step' = step
        \/ step' = [step EXCEPT !.due = TRUE]
        \/ \E p \in P : step' = [step EXCEPT !.confirmed = @ \cup {p}]
    BY DEF StepFallsDue, ConfirmResult
  <2>2. \A p \in P : step.confirmed \cup {p} \in SUBSET P
    BY <1>1 DEF Step
  <2> QED
    BY <1>1, <2>1, <2>2 DEF Step
<1>3. machine.st = "held" /\ Playing
  BY <1>1 DEF RInv, StepInv, MatchInv
<1>4. MatchInv' /\ MemberInv' /\ ControlInv'
  BY <1>1, <1>3, MoveKeeps DEF Moves, RInv, TypeOK
<1>5. StepInv'
  BY <1>1, <1>2 DEF RInv, StepInv, Attends
<1>6. TypeOK'
  BY <1>1, <1>2 DEF RInv, TypeOK
<1> QED
  BY <1>4, <1>5, <1>6 DEF RInv

-----------------------------------------------------------------------------
(* The end of a Match without results, and the Tick *)

LEMMA AbortKeeps ==
  ASSUME RInv, NEW mem \in [P -> Member], Abort(mem), empty' \in BOOLEAN
  PROVE  RInv'
<1>1. /\ phase' = "Lobby" /\ machine' = NoMachine /\ step' = NoStep /\ roster' = EmptyRoster
      /\ member' = ToLobby(mem) /\ task' = 0 /\ UNCHANGED <<life, config>>
      /\ available' \in BOOLEAN
  BY DEF Abort, RInv, TypeOK
<1>2. /\ member' \in [P -> Member]
      /\ \A p \in P : Idle(member'[p], p) /\ member'[p].role = "None" /\ roster'[p] = "none"
  BY <1>1, ToLobbyFields DEF Idle, EmptyRoster
<1>3. machine'.st = "none" /\ ~step'.active /\ step'.required = {}
  BY <1>1 DEF NoMachine, NoStep
<1>4. StepInv'
  BY <1>3 DEF StepInv
<1>5. TypeOK'
  BY <1>1, <1>2, ValueTypes, BoundAssumption DEF RInv, TypeOK
<1> QED
  BY <1>1, <1>2, <1>3, <1>4, <1>5, IdleState DEF Playing

LEMMA ForgottenFields ==
  ASSUME RInv, NEW late \in SUBSET P
  PROVE  LET left == Without(member, Forgotten(late))
         IN  /\ left \in [P -> Member]
             /\ \A p \in P : \/ left[p] = member[p]
                             \/ left[p] = Absent /\ member[p].role # "Player"
<1>1. member \in [P -> Member]
  BY DEF RInv, TypeOK
<1> QED
  BY <1>1, WithoutFields DEF Forgotten

LEMMA TickKeeps ==
  ASSUME RInv, NEW late \in SUBSET P, Tick(late)
  PROVE  RInv'
<1> DEFINE left == Without(member, Forgotten(late))
<1>1. /\ left \in [P -> Member]
      /\ \A p \in P : \/ left[p] = member[p]
                      \/ left[p] = Absent /\ member[p].role # "Player"
  BY ForgottenFields
<1>2. /\ member \in [P -> Member] /\ machine \in Machine
      /\ roster \in [P -> Controller \cup {"none"}]
  BY DEF RInv, TypeOK
<1>3. config' = config
  BY DEF Tick
<1>4. \/ member' = left /\ (TickWithoutMatch \/ TickWithResults)
      \/ TickWithDecision(left)
      \/ TickAborts(left)
  BY DEF Tick
<1>5. Playing => \A p \in Players : left[p] = member[p]
  BY <1>1 DEF Players, RInv, MatchInv
<1> HIDE DEF left
<1>6. Playing => Table(left, machine)
  <2> HAVE Playing
  <2>1. Table(member, machine)
    BY TableNow
  <2> SUFFICES ASSUME NEW p \in P, left[p] = Absent, member[p].role # "Player"
               PROVE  p \notin Players /\ left[p].role = "None" /\ left[p].here = "Absent"
                      /\ ~left[p].leaving /\ ~left[p].ready /\ ~left[p].selected
    BY <1>1, <2>1 DEF Table
  <2> QED
    BY <2>1 DEF Table, Absent
<1>7. CASE member' = left /\ TickWithoutMatch
  <2>1. /\ machine.st = "none" /\ UNCHANGED <<phase, roster, machine, step, available, task>>
        /\ empty' \in BOOLEAN /\ life' \in {"open", "deleted", "closed"}
    BY <1>7 DEF TickWithoutMatch, Deserted, RInv, TypeOK
  <2>2. ~Playing
    BY <2>1 DEF RInv, MatchInv
  <2>3. TypeOK'
    BY <1>1, <1>3, <1>7, <2>1 DEF RInv, TypeOK
  <2>4. StepInv'
    BY <2>1 DEF RInv, StepInv
  <2>5. \A p \in P : /\ Idle(member'[p], p)
                     /\ member'[p].role = "Player" => member[p].role = "Player"
                     /\ phase = "Lobby" => member'[p].role = "None"
                     /\ member'[p].selected => member[p].selected
    BY <1>1, <1>7, <2>2, IdleNow DEF Idle, Absent
  <2> QED
    BY <2>1, <2>2, <2>3, <2>4, <2>5, IdleNow, IdleState DEF Playing
<1>8. CASE member' = left /\ TickWithResults
  <2>1. /\ UNCHANGED <<life, phase, roster, machine, step, available, empty>>
        /\ task' = LoopBound /\ machine.st # "none" /\ Playing
    BY <1>8 DEF TickWithResults, RInv, MatchInv
  <2>2. \A p \in Players : left[p] = member[p]
    BY <1>5, <2>1
  <2>3. MatchInv' /\ MemberInv' /\ ControlInv'
    BY <1>3, <1>6, <1>8, <2>1, <2>2, TableHolds DEF Playing, RInv, ControlInv
  <2>4. StepInv'
    <3> SUFFICES ASSUME NEW p \in step.required PROVE Attends(member', p)
      BY <2>1 DEF RInv, StepInv
    <3>1. Attends(member, p) /\ p \in P
      BY DEF RInv, StepInv, TypeOK, Step
    <3>2. left[p] = member[p]
      BY <1>1, <3>1 DEF Attends
    <3> QED
      BY <1>8, <3>1, <3>2 DEF Attends
  <2>5. TypeOK'
    BY <1>1, <1>3, <1>8, <2>1, BoundAssumption DEF RInv, TypeOK
  <2> QED
    BY <2>3, <2>4, <2>5 DEF RInv
<1>9. CASE TickWithDecision(left)
  <2>1. PICK m \in Expired(machine) :
          /\ HandleResult(m) \/ \E n \in Played(m) : HandleResult(n)
          /\ member' = SyncedMembers(left, machine')
          /\ roster' = SyncedRoster(left, machine')
    BY <1>9 DEF TickWithDecision
  <2>2. /\ machine.st = "decide" /\ UNCHANGED <<life, phase, empty>> /\ task' = LoopBound
    BY <1>9 DEF TickWithDecision
  <2>3. PICK n : HandleResult(n) /\ (n = m \/ n \in Played(m))
    BY <2>1
  <2>4. /\ m \in Machine /\ m.st = "decide" /\ Moves(m)
    BY <1>2, <2>2, ExpiredFields DEF Moves
  <2>5. n \in Machine /\ n.st \in {"decide", "held"} /\ Moves(n)
    <3>1. n \in Machine /\ n.ctl = m.ctl /\ n.here = m.here /\ (n = m \/ n.st = "held")
      BY <2>3, <2>4, PlayedFields
    <3> QED
      BY <2>4, <3>1 DEF Moves
  <2>6. Playing /\ Table(left, n)
    <3>1. Playing
      BY <2>2 DEF RInv, MatchInv
    <3> QED
      BY <1>6, <2>5, <3>1, MovesTable
  <2>7. machine' = n
    BY <2>3 DEF HandleResult
  <2>8. /\ member' \in [P -> Member] /\ roster' \in [P -> Controller \cup {"none"}]
        /\ MatchInv' /\ MemberInv' /\ ControlInv'
    BY <1>1, <1>3, <2>1, <2>2, <2>5, <2>6, <2>7, TableState DEF Playing
  <2>9. \A p \in Players : Attends(member, p) => Attends(member', p)
    <3>1. \A p \in Players : left[p].here = member[p].here
      BY <1>5, <2>6
    <3> QED
      BY <1>1, <2>1, <2>5, <2>6, <2>7, <3>1, StillAttends
  <2>10. step' \in Step /\ StepInv' /\ available' \in BOOLEAN
    BY <2>2, <2>3, <2>5, <2>8, <2>9, ResultStep
  <2>11. TypeOK'
    BY <1>3, <2>2, <2>5, <2>7, <2>8, <2>10, BoundAssumption DEF RInv, TypeOK
  <2> QED
    BY <2>8, <2>10, <2>11 DEF RInv
<1>10. CASE TickAborts(left)
  <2>1. Abort(left) /\ empty' \in BOOLEAN
    BY <1>10 DEF TickAborts, Deserted
  <2> QED
    BY <1>1, <2>1, AbortKeeps
<1> QED
  BY <1>4, <1>7, <1>8, <1>9, <1>10

-----------------------------------------------------------------------------
(* The loop of advance_match *)

LEMMA PauseKeeps ==
  ASSUME RInv, AwaitConfirmation \/ AwaitAction
  PROVE  RInv'
<1>1. /\ UNCHANGED <<life, phase, config, member, roster, machine, step, available, empty>>
      /\ task' = 0
  BY DEF AwaitConfirmation, AwaitAction
<1>2. TypeOK'
  BY <1>1, BoundAssumption DEF RInv, TypeOK
<1>3. MatchInv' /\ MemberInv' /\ ControlInv' /\ StepInv'
  BY <1>1 DEF RInv, MatchInv, MemberInv, ControlInv, StepInv, Playing, Players, Seats, Attends
<1> QED
  BY <1>2, <1>3 DEF RInv

LEMMA ResultsKeep ==
  ASSUME RInv, task > 0, NextResultStep \/ FinishResults
  PROVE  RInv'
<1>1. /\ machine.st = "held" /\ machine \in Machine /\ step \in Step /\ member \in [P -> Member]
      /\ task' = task - 1 /\ UNCHANGED <<life, phase, config, member, roster, available, empty>>
  BY DEF RInv, TypeOK, NextResultStep, FinishResults
<1>2. task' \in 0..LoopBound
  BY <1>1, BoundAssumption DEF RInv, TypeOK
<1>3. Playing
  BY <1>1 DEF RInv, MatchInv
<1>4. CASE NextResultStep
  <2>1. machine' = machine /\ step' = NewStep(step.index + 1) /\ step.index + 1 \in Nat
    BY <1>1, <1>4 DEF NextResultStep, Step
  <2>2. member' \in [P -> Member] /\ \A p \in Players : Attends(member, p) => Attends(member', p)
    BY <1>1 DEF Attends
  <2>3. step' \in Step /\ StepInv'
    BY <1>1, <2>1, <2>2, NewStepWaits
  <2>4. MatchInv' /\ MemberInv' /\ ControlInv'
    BY <1>1, <1>3, <2>1, MoveKeeps DEF Moves
  <2>5. TypeOK'
    BY <1>1, <1>2, <2>1, <2>3 DEF RInv, TypeOK
  <2> QED
    BY <2>3, <2>4, <2>5 DEF RInv
<1>5. CASE FinishResults
  <2> DEFINE next == IF machine.final THEN "complete" ELSE "decide"
  <2>1. machine' = [machine EXCEPT !.st = next, !.wins = 0] /\ step' = NoStep
    BY <1>5 DEF FinishResults
  <2>2. next \in {"complete", "decide"}
    OBVIOUS
  <2> HIDE DEF next
  <2>3. machine' \in Machine /\ machine'.st = next /\ Moves(machine')
    BY <1>1, <2>1, <2>2 DEF Machine, Moves
  <2>4. MatchInv' /\ MemberInv' /\ ControlInv'
    BY <1>1, <1>3, <2>2, <2>3, MoveKeeps
  <2>5. StepInv'
    BY <2>1, <2>2, <2>3 DEF StepInv, NoStep
  <2>6. TypeOK'
    BY <1>1, <1>2, <2>1, <2>3, ValueTypes DEF RInv, TypeOK
  <2> QED
    BY <2>4, <2>5, <2>6 DEF RInv
<1> QED
  BY <1>4, <1>5

LEMMA CompleteKeeps ==
  ASSUME RInv, CompleteMatch
  PROVE  RInv'
<1>1. /\ machine.st = "complete" /\ phase' = "PostMatch" /\ machine' = NoMachine /\ step' = NoStep
      /\ member' = Without(member, {p \in P : member[p].leaving})
      /\ empty' \in BOOLEAN /\ task' = 0 /\ UNCHANGED <<life, config, roster>>
      /\ available' \in BOOLEAN
  BY RecordedType DEF CompleteMatch, Deserted, RInv
<1>2. Playing /\ member \in [P -> Member]
  BY <1>1 DEF RInv, MatchInv, TypeOK
<1>3. /\ member' \in [P -> Member]
      /\ \A p \in P : member'[p] = IF member[p].leaving THEN Absent ELSE member[p]
  BY <1>1, <1>2, WithoutFields
<1>4. TypeOK'
  BY <1>1, <1>3, ValueTypes, BoundAssumption DEF RInv, TypeOK
<1>5. machine'.st = "none" /\ StepInv'
  BY <1>1 DEF NoMachine, NoStep, StepInv
<1>6. \A p \in P : Idle(member'[p], p)
  BY <1>3 DEF Idle, Absent, RInv, MemberInv
<1>7. \A p \in P : member'[p].role = "Player" \/ member'[p].selected => roster'[p] # "none"
  BY <1>1, <1>2, <1>3 DEF Absent, RInv, MatchInv, Playing
<1> QED
  BY <1>1, <1>4, <1>5, <1>6, <1>7, IdleState DEF Playing

LEMMA AutoKeeps ==
  ASSUME RInv, task > 0, AutoPlays
  PROVE  RInv'
<1>1. /\ machine.st = "decide" /\ machine \in Machine /\ member \in [P -> Member]
      /\ step \in Step /\ UNCHANGED <<life, phase, config, member, roster, empty>>
  BY DEF RInv, TypeOK, AutoPlays
<1>2. PICK m \in Expired(machine) :
       \/ HandleResult(m) /\ task' = task - 1
       \/ \E n \in Played(m) : HandleResult(n) /\ task' = task - 1
       \/ machine' = m /\ task' = 0 /\ UNCHANGED <<step, available>>
  BY DEF AutoPlays
<1>3. task' \in 0..LoopBound
  BY <1>2, BoundAssumption DEF RInv, TypeOK
<1>4. m \in Machine /\ m.st = "decide" /\ Moves(m)
  BY <1>1, ExpiredFields DEF Moves
<1>5. Playing
  BY <1>1 DEF RInv, MatchInv
<1>6. CASE \E n \in {m} \cup Played(m) : HandleResult(n)
  <2>1. PICK n \in {m} \cup Played(m) : HandleResult(n)
    BY <1>6
  <2>2. n \in Machine /\ n.st \in {"decide", "held"} /\ Moves(n)
    <3>1. n \in Machine /\ n.ctl = m.ctl /\ n.here = m.here /\ (n = m \/ n.st = "held")
      BY <1>4, <2>1, PlayedFields
    <3> QED
      BY <1>4, <3>1 DEF Moves
  <2>3. member' \in [P -> Member] /\ \A p \in Players : Attends(member, p) => Attends(member', p)
    BY <1>1 DEF Attends
  <2>4. step' \in Step /\ StepInv' /\ available' \in BOOLEAN /\ machine' = n
    BY <1>1, <2>1, <2>2, <2>3, ResultStep
  <2>5. MatchInv' /\ MemberInv' /\ ControlInv'
    BY <1>1, <1>5, <2>2, <2>4, MoveKeeps
  <2>6. TypeOK'
    BY <1>1, <1>3, <2>2, <2>4 DEF RInv, TypeOK
  <2> QED
    BY <2>4, <2>5, <2>6 DEF RInv
<1>7. CASE machine' = m /\ UNCHANGED <<step, available>>
  <2>1. MatchInv' /\ MemberInv' /\ ControlInv'
    BY <1>1, <1>4, <1>5, <1>7, MoveKeeps
  <2>2. StepInv'
    BY <1>1, <1>4, <1>7 DEF RInv, StepInv
  <2>3. TypeOK'
    BY <1>1, <1>3, <1>4, <1>7 DEF RInv, TypeOK
  <2> QED
    BY <2>1, <2>2, <2>3 DEF RInv
<1> QED
  BY <1>2, <1>6, <1>7

LEMMA AdvanceKeeps ==
  ASSUME RInv, Advance
  PROVE  RInv'
<1>1. CASE AdvanceAborts
  <2>1. Abort(member) /\ empty' \in BOOLEAN /\ member \in [P -> Member]
    BY <1>1 DEF AdvanceAborts, RInv, TypeOK
  <2> QED
    BY <2>1, AbortKeeps
<1> QED
  BY <1>1, PauseKeeps, ResultsKeep, CompleteKeeps, AutoKeeps DEF Advance

-----------------------------------------------------------------------------
(* The invariant and what follows from it *)

LEMMA InitRInv ==
  ASSUME Init
  PROVE  RInv
<1>1. /\ phase = "Lobby" /\ step = NoStep /\ machine = NoMachine /\ roster = EmptyRoster
      /\ member = [p \in P |-> Absent]
  BY DEF Init
<1>2. config \in [mode : Mode, limit : Limits, save : BOOLEAN] /\ config.save \in BOOLEAN
  BY LimitAssumption DEF Init
<1>3. TypeOK
  BY <1>1, <1>2, ValueTypes, BoundAssumption DEF Init, TypeOK
<1>4. /\ machine.st = "none" /\ ~step.active /\ step.required = {}
      /\ \A p \in P : Idle(member[p], p) /\ member[p].role = "None" /\ roster[p] = "none"
  BY <1>1 DEF NoMachine, NoStep, Idle, Absent, EmptyRoster
<1>5. MatchInv /\ MemberInv /\ ControlInv /\ StepInv
  BY <1>1, <1>4 DEF MatchInv, MemberInv, ControlInv, StepInv, Playing, Idle
<1> QED
  BY <1>3, <1>5 DEF RInv

LEMMA StutterKeeps ==
  ASSUME RInv, UNCHANGED vars
  PROVE  RInv'
<1>1. TypeOK'
  BY DEF RInv, TypeOK, vars
<1>2. MatchInv' /\ MemberInv' /\ ControlInv' /\ StepInv'
  BY DEF RInv, MatchInv, MemberInv, ControlInv, StepInv, Playing, Players, Seats, Attends, vars
<1> QED
  BY <1>1, <1>2 DEF RInv

LEMMA NextRInv ==
  ASSUME RInv, [Next]_vars
  PROVE  RInv'
<1>1. ASSUME NEW p \in P,
             \/ Join(p) \/ Select(p) \/ Deselect(p) \/ SetReady(p) \/ Disconnect(p)
             \/ Reconnect(p) \/ LeaveOrKick(p) \/ SubmitAction(p) \/ SubmissionFails(p)
             \/ ConfirmResult(p)
      PROVE  RInv'
  <2>1. CASE LeaveOrKick(p)
    BY <2>1, GoesKeeps DEF LeaveOrKick
  <2>2. CASE ConfirmResult(p)
    BY <2>2, ResultClockKeeps
  <2> QED
    BY <1>1, <2>1, <2>2, JoinKeeps, SelectKeeps, DeselectKeeps, SetReadyKeeps, DisconnectKeeps,
       ReconnectKeeps, SubmitKeeps, SubmissionFailsKeeps
<1>2. ASSUME NEW t, RevokeToken(t) PROVE RInv'
  <2>1. {p \in In(member) : Token[p] = t} \in SUBSET P
    BY DEF In
  <2> QED
    BY <1>2, <2>1, GoesKeeps DEF RevokeToken
<1>3. CASE \E taken, created \in SUBSET P : FillWithBots(taken, created)
  BY <1>3, FillKeeps
<1>4. CASE \E mode \in Mode, limit \in Limits, save \in Saves, resave \in BOOLEAN :
             Configure(mode, limit, save, resave)
  BY <1>4, ConfigureKeeps
<1>5. CASE \E late \in SUBSET P : Tick(late)
  BY <1>5, TickKeeps
<1> QED
  BY <1>1, <1>2, <1>3, <1>4, <1>5, BackToLobbyKeeps, EndKeeps, StartKeeps, ResultClockKeeps,
     AdvanceKeeps, StutterKeeps DEF Next

\* Every reachable Room satisfies the inductive invariant.
THEOREM RoomInvariant == Spec => []RInv
BY InitRInv, NextRInv, PTL DEF Spec

\* Every variable of a Room keeps its type.
THEOREM TypeCorrect == Spec => []TypeOK
<1>1. RInv => TypeOK
  BY DEF RInv
<1> QED
  BY <1>1, RoomInvariant, PTL

\* While a Match is played its roster is exactly the Participants with a Seat,
\* one for each Seat, whoever leaves, is kicked, revoked or times out.
THEOREM RosterIsSound == Spec => []RosterSound
<1>1. RInv => RosterSound
  <2> SUFFICES ASSUME RInv PROVE RosterSound
    OBVIOUS
  <2>1. \A p \in P : p \in Players <=> roster[p] # "none"
    BY DEF Players
  <2>2. phase = "Lobby" => Players = {}
    BY <2>1 DEF RInv, MatchInv, Players
  <2>3. Playing => Players = {p \in In(member) : member[p].role = "Player"}
    <3> HAVE Playing
    <3>1. \A p \in P : p \in Players <=> p \in In(member) /\ member[p].role = "Player"
      BY <2>1 DEF RInv, MatchInv, MemberInv, In
    <3> QED
      BY <3>1 DEF Players, In
  <2> QED
    BY <2>1, <2>2, <2>3 DEF RInv, MatchInv, RosterSound, Playing
<1> QED
  BY <1>1, RoomInvariant, PTL

\* A Player who is connected controls its own Seat: in the Room, on the roster
\* and in the machine, after any disconnection, reconnection or expiry.
THEOREM PresentPlayersControl == Spec => []PresentPlayersPlay
<1>1. RInv => PresentPlayersPlay
  BY DEF RInv, ControlInv, PresentPlayersPlay, Playing
<1> QED
  BY <1>1, RoomInvariant, PTL

\* A result step is shown exactly while the machine holds results, and waits
\* only for Humans who are there to confirm it.
THEOREM NoWaitForTheGone == Spec => []ResultsWaitForPresentHumans
<1>1. RInv => ResultsWaitForPresentHumans
  BY DEF RInv, StepInv, ResultsWaitForPresentHumans
<1> QED
  BY <1>1, RoomInvariant, PTL

\* A Ready Human is selected, connected and not in a Match.
THEOREM NobodyAwayIsReady == Spec => []ReadyMeansPresent
<1>1. RInv => ReadyMeansPresent
  BY DEF RInv, MemberInv, ReadyMeansPresent, Playing
<1> QED
  BY <1>1, RoomInvariant, PTL

-----------------------------------------------------------------------------
(* What a step may not do *)

\* No command of the Lobby is handled during a Match.
LEMMA LobbyCommands ==
  ASSUME Playing
  PROVE  /\ \A p \in P : ~Select(p) /\ ~Deselect(p) /\ ~SetReady(p)
         /\ \A taken, created \in SUBSET P : ~FillWithBots(taken, created)
         /\ \A mode, limit, save, resave : ~Configure(mode, limit, save, resave)
         /\ ~BackToLobby /\ ~Delete /\ ~Start /\ ~Rematch
BY DEF Playing, Select, Deselect, SetReady, FillWithBots, Configure, BackToLobby, Delete, Start,
       Rematch, CanRematch

LEMMA SettledStep ==
  ASSUME Settles, step \in Step
  PROVE  step'.index = step.index /\ step'.active = step.active
BY DEF Settles, Step

\* A result step is left only when it is due or everybody it still waits for
\* has confirmed it.
THEOREM ResultsSeen == Spec => ResultsAreSeen
<1>1. ASSUME RInv, [Next]_vars, step.active, step'.index # step.index \/ ~step'.active
      PROVE  step.due \/ Confirmed
  <2>1. machine.st = "held" /\ Playing /\ step \in Step
    BY <1>1 DEF RInv, StepInv, MatchInv, TypeOK
  <2>2. step' # step /\ ~Settles
    BY <1>1, <2>1, SettledStep
  <2>3. ASSUME NEW gone PROVE ~Goes(gone)
    BY <2>2 DEF Goes
  <2>4. ASSUME NEW p \in P
        PROVE  /\ ~Join(p) /\ ~Disconnect(p) /\ ~Reconnect(p) /\ ~LeaveOrKick(p)
               /\ ~SubmitAction(p) /\ ~SubmissionFails(p) /\ ~ConfirmResult(p)
    <3>1. ~Join(p) /\ ~Disconnect(p) /\ ~Reconnect(p) /\ ~LeaveOrKick(p)
      BY <2>2, <2>3 DEF Join, Disconnect, Reconnect, LeaveOrKick
    <3>2. ~SubmitAction(p) /\ ~SubmissionFails(p)
      BY <2>1 DEF SubmitAction, SubmissionFails
    <3>3. ~ConfirmResult(p)
      BY <1>1, <2>1 DEF ConfirmResult, Step
    <3> QED
      BY <3>1, <3>2, <3>3
  <2>5. \A t : ~RevokeToken(t)
    BY <2>3 DEF RevokeToken
  <2>6. ~Shutdown /\ ~PersistenceFailure /\ ~StepFallsDue /\ ~(UNCHANGED vars)
    BY <1>1, <2>1, <2>2 DEF Shutdown, PersistenceFailure, StepFallsDue, Step, vars
  <2>7. \A late \in SUBSET P : ~Tick(late)
    BY <2>1, <2>2 DEF Tick, TickWithoutMatch, TickWithResults, TickWithDecision, TickAborts
  <2>8. Advance
    BY <1>1, <2>1, <2>4, <2>5, <2>6, <2>7, LobbyCommands DEF Next
  <2>9. NextResultStep \/ FinishResults
    BY <2>1, <2>2, <2>8 DEF Advance, AwaitConfirmation, CompleteMatch, AwaitAction, AutoPlays,
       AdvanceAborts
  <2> QED
    BY <2>9 DEF NextResultStep, FinishResults
<1>2. RInv /\ [Next]_vars =>
        [step.active /\ (step'.index # step.index \/ ~step'.active) => step.due \/ Confirmed]_vars
  BY <1>1
<1> QED
  BY <1>2, RoomInvariant, PTL DEF Spec, ResultsAreSeen

\* A replay that was lost stays lost until the Admin asks for one again in the
\* Lobby.
THEOREM LostStaysLost == Spec => LostReplayStaysLost
<1>1. ASSUME RInv, [Next]_vars, ~available, phase # "Lobby", available'
      PROVE  FALSE
  <2>1. available' # available /\ ~Recorded
    BY <1>1 DEF Recorded
  <2>2. ASSUME NEW gone PROVE ~Goes(gone)
    BY <2>1 DEF Goes
  <2>3. ASSUME NEW p \in P
        PROVE  /\ ~Join(p) /\ ~Select(p) /\ ~Deselect(p) /\ ~SetReady(p)
               /\ ~Disconnect(p) /\ ~Reconnect(p) /\ ~LeaveOrKick(p)
               /\ ~SubmitAction(p) /\ ~SubmissionFails(p) /\ ~ConfirmResult(p)
    <3>1. ~Join(p) /\ ~Select(p) /\ ~Deselect(p) /\ ~SetReady(p)
      BY <2>1 DEF Join, Select, Deselect, SetReady
    <3>2. ~Disconnect(p) /\ ~Reconnect(p) /\ ~LeaveOrKick(p)
      BY <2>1, <2>2 DEF Disconnect, Reconnect, LeaveOrKick
    <3>3. ~SubmitAction(p) /\ ~SubmissionFails(p) /\ ~ConfirmResult(p)
      BY <2>1 DEF SubmitAction, SubmissionFails, ConfirmResult, HandleResult
    <3> QED
      BY <3>1, <3>2, <3>3
  <2>4. \A t : ~RevokeToken(t)
    BY <2>2 DEF RevokeToken
  <2>5. /\ \A taken, created \in SUBSET P : ~FillWithBots(taken, created)
        /\ \A mode, limit, save, resave : ~Configure(mode, limit, save, resave)
    BY <1>1, <2>1 DEF FillWithBots, Configure
  <2>6. /\ ~BackToLobby /\ ~Delete /\ ~Shutdown /\ ~PersistenceFailure /\ ~StepFallsDue
        /\ ~(UNCHANGED vars)
    BY <1>1, <2>1 DEF BackToLobby, Delete, Shutdown, PersistenceFailure, StepFallsDue, vars
  <2>7. ~Start /\ ~Rematch
    BY <1>1, <2>1 DEF Start, Rematch, Commit, OpenFails
  <2>8. ASSUME NEW mem PROVE ~Abort(mem)
    BY <1>1 DEF Abort
  <2>9. \A late \in SUBSET P : ~Tick(late)
    BY <2>1, <2>8 DEF Tick, TickWithoutMatch, TickWithResults, TickWithDecision, TickAborts,
       HandleResult
  <2>10. ~Advance
    BY <2>1, <2>8 DEF Advance, AwaitConfirmation, NextResultStep, FinishResults, CompleteMatch,
       AwaitAction, AutoPlays, AdvanceAborts, HandleResult
  <2> QED
    BY <1>1, <2>3, <2>4, <2>5, <2>6, <2>7, <2>9, <2>10 DEF Next
<1>2. RInv /\ [Next]_vars => [~available /\ phase # "Lobby" => ~available']_vars
  BY <1>1
<1> QED
  BY <1>2, RoomInvariant, PTL DEF Spec, LostReplayStaysLost

\* Whoever left, was kicked or lost its token during a Match never plays it
\* again, and is gone when the Match completes.
THEOREM LeaversStay == Spec => LeaversStayOut
<1> DEFINE Out(p) ==
             /\ phase' = "Playing" => member'[p].leaving /\ member'[p].here = "Disconnected"
             /\ phase' = "PostMatch" => member'[p] = Absent
<1>1. ASSUME RInv, [Next]_vars, NEW p \in P, member[p].leaving
      PROVE  Out(p)
  <2>1. /\ member \in [P -> Member] /\ machine \in Machine
        /\ roster \in [P -> Controller \cup {"none"}]
    BY <1>1 DEF RInv, TypeOK
  <2>2. /\ Playing /\ machine.st # "none" /\ member[p].role = "Player"
        /\ member[p].here = "Disconnected" /\ member[p].controller = "PermanentAuto"
    BY <1>1, TableNow DEF RInv, MemberInv
  <2>3. Playing /\ member'[p] = member[p] /\ phase' = phase => Out(p)
    BY <1>1, <2>2 DEF Playing
  <2>4. ASSUME NEW mem \in [P -> Member], NEW m \in Machine, member' = SyncedMembers(mem, m),
               mem[p].leaving, mem[p].here = "Disconnected", phase' = phase
        PROVE  Out(p)
    BY <2>1, <2>2, <2>4, SyncFields DEF Playing
  <2>5. ASSUME NEW q \in P, Join(q) PROVE Out(p)
    <3>1. q # p
      BY <1>1, <2>5 DEF Join, Absent
    <3> QED
      BY <2>1, <2>2, <2>3, <2>5, <3>1 DEF Join
  <2>6. ASSUME NEW q \in P, Disconnect(q) PROVE Out(p)
    <3> DEFINE m == IF machine.st # "none" /\ member[q].role = "Player"
                    THEN [machine EXCEPT !.here[q] = "Disconnected"] ELSE machine
               mem == [member EXCEPT ![q].here = "Disconnected", ![q].clock = TRUE,
                                     ![q].ready = FALSE]
    <3>1. /\ mem \in [P -> Member]
          /\ mem[p].here = "Disconnected" /\ mem[p].leaving
      <4> DEFINE gone == [member[q] EXCEPT !.here = "Disconnected", !.clock = TRUE,
                            !.ready = FALSE]
      <4>0. gone \in Member
        BY <2>1 DEF Member
      <4>1. gone.here = "Disconnected" /\ gone.leaving = member[q].leaving
        BY <2>1 DEF Member
      <4>2. mem = [member EXCEPT ![q] = gone]
        BY <2>1
      <4> HIDE DEF gone, mem
      <4> QED
        BY <1>1, <2>1, <2>2, <4>0, <4>1, <4>2
    <3>2. m \in Machine /\ m.st # "none"
      BY <2>1, <2>2 DEF Machine
    <3>3. m.st # "none" => member' = SyncedMembers(mem, m)
      BY <2>6 DEF Disconnect
    <3>4. phase' = phase
      BY <2>6 DEF Disconnect
    <3> HIDE DEF m, mem
    <3> QED
      BY <2>4, <3>1, <3>2, <3>3, <3>4
  <2>7. ASSUME NEW q \in P, Reconnect(q) PROVE Out(p)
    <3>1. q # p /\ phase' = phase
      BY <2>2, <2>7 DEF Reconnect
    <3>2. member'[p] = member[p]
      BY <2>1, <2>7, <3>1 DEF Reconnect
    <3> QED
      BY <2>2, <2>3, <3>1, <3>2
  <2>8. ASSUME NEW gone \in SUBSET P, Goes(gone) PROVE Out(p)
    <3> DEFINE m == [member[p] EXCEPT !.leaving = TRUE, !.here = "Disconnected",
                       !.controller = "PermanentAuto"]
    <3>1. m.leaving /\ m.here = "Disconnected"
      BY <2>1 DEF Member
    <3>2. phase' = phase
      BY <2>8 DEF Goes
    <3>3. member'[p] = IF p \in gone THEN m ELSE member[p]
      BY <2>2, <2>8 DEF Goes, Playing
    <3> HIDE DEF m
    <3> QED
      BY <2>2, <2>3, <3>1, <3>2, <3>3 DEF Playing
  <2>9. ASSUME NEW q \in P, SubmitAction(q) PROVE Out(p)
    <3>1. PICK m \in Played(machine) : member' = SyncedMembers(member, m)
      BY <2>9 DEF SubmitAction
    <3>2. m \in Machine /\ phase' = phase
      BY <2>1, <2>9, PlayedFields DEF SubmitAction
    <3> QED
      BY <1>1, <2>1, <2>2, <2>4, <3>1, <3>2
  <2>10. ASSUME NEW late \in SUBSET P, Tick(late) PROVE Out(p)
    <3> DEFINE left == Without(member, Forgotten(late))
    <3>1. left \in [P -> Member] /\ left[p] = member[p]
      BY <1>1, <2>2, ForgottenFields
    <3> HIDE DEF left
    <3>2. \/ member' = left /\ (TickWithoutMatch \/ TickWithResults)
          \/ TickWithDecision(left)
          \/ TickAborts(left)
      BY <2>10 DEF Tick, left
    <3>3. CASE member' = left /\ (TickWithoutMatch \/ TickWithResults)
      BY <2>2, <2>3, <3>1, <3>3 DEF TickWithoutMatch, TickWithResults
    <3>4. CASE TickWithDecision(left)
      <4>1. PICK m \in Expired(machine) :
              /\ HandleResult(m) \/ \E n \in Played(m) : HandleResult(n)
              /\ member' = SyncedMembers(left, machine')
        BY <3>4 DEF TickWithDecision
      <4>2. machine' \in Machine
        BY <2>1, <4>1, ExpiredFields, PlayedFields DEF HandleResult
      <4>3. phase' = phase
        BY <3>4 DEF TickWithDecision
      <4> QED
        BY <1>1, <2>2, <2>4, <3>1, <4>1, <4>2, <4>3
    <3>5. CASE TickAborts(left)
      BY <3>5 DEF TickAborts, Abort
    <3> QED
      BY <3>2, <3>3, <3>4, <3>5
  <2>11. ASSUME Advance PROVE Out(p)
    <3>1. CASE CompleteMatch
      <4>1. /\ phase' = "PostMatch"
            /\ member' = Without(member, {q \in P : member[q].leaving})
        BY <3>1 DEF CompleteMatch
      <4> QED
        BY <1>1, <2>1, <4>1, WithoutFields
    <3>2. CASE AdvanceAborts
      BY <3>2 DEF AdvanceAborts, Abort
    <3>3. CASE AwaitConfirmation \/ NextResultStep \/ FinishResults \/ AwaitAction \/ AutoPlays
      BY <2>2, <2>3, <3>3 DEF AwaitConfirmation, NextResultStep, FinishResults, AwaitAction,
         AutoPlays
    <3> QED
      BY <2>11, <3>1, <3>2, <3>3 DEF Advance
  <2>12. ASSUME NEW t, RevokeToken(t) PROVE Out(p)
    <3>1. {q \in In(member) : Token[q] = t} \in SUBSET P
      BY DEF In
    <3> QED
      BY <2>8, <2>12, <3>1 DEF RevokeToken
  <2>13. ASSUME NEW q \in P, LeaveOrKick(q) PROVE Out(p)
    BY <2>8, <2>13 DEF LeaveOrKick
  <2>14. ASSUME NEW q \in P, SubmissionFails(q) \/ ConfirmResult(q) PROVE Out(p)
    BY <2>2, <2>3, <2>14 DEF SubmissionFails, ConfirmResult
  <2>15. ASSUME Shutdown \/ PersistenceFailure \/ StepFallsDue \/ UNCHANGED vars PROVE Out(p)
    BY <2>2, <2>3, <2>15 DEF Shutdown, PersistenceFailure, StepFallsDue, vars
  <2> HIDE DEF Out
  <2> QED
    BY <1>1, <2>2, <2>5, <2>6, <2>7, <2>9, <2>10, <2>11, <2>12, <2>13, <2>14, <2>15,
       LobbyCommands DEF Next
<1>2. RInv /\ [Next]_vars =>
        [\A p \in P :
           member[p].leaving =>
             /\ phase' = "Playing" => member'[p].leaving /\ member'[p].here = "Disconnected"
             /\ phase' = "PostMatch" => member'[p] = Absent]_vars
  BY <1>1
<1> QED
  BY <1>2, RoomInvariant, PTL DEF Spec, LeaversStayOut

\* Only a Room without connected Participants runs the clock that deletes it.
THEOREM OnlyDesertedExpire == Spec => []OnlyDesertedRoomsExpire
<1>1. Init => OnlyDesertedRoomsExpire
  BY DEF Init, OnlyDesertedRoomsExpire, Deserted, Absent
<1>2. ASSUME RInv, OnlyDesertedRoomsExpire, [Next]_vars
      PROVE  OnlyDesertedRoomsExpire'
  <2>1. empty' = Deserted(member', phase') => OnlyDesertedRoomsExpire'
    BY DEF OnlyDesertedRoomsExpire
  <2>2. UNCHANGED <<empty, member, phase>> => OnlyDesertedRoomsExpire'
    BY <1>2 DEF OnlyDesertedRoomsExpire, Deserted
  <2>3. ~empty' => OnlyDesertedRoomsExpire'
    BY DEF OnlyDesertedRoomsExpire
  <2>4. Playing => ~empty
    BY <1>2 DEF OnlyDesertedRoomsExpire, Deserted, Playing
  <2>5. machine.st # "none" => ~empty
    BY <1>2, <2>4 DEF RInv, MatchInv
  <2>6. Settles => OnlyDesertedRoomsExpire'
    BY <2>1 DEF Settles
  <2>7. ASSUME NEW gone, Goes(gone) PROVE OnlyDesertedRoomsExpire'
    BY <2>6, <2>7 DEF Goes
  <2>8. ASSUME NEW p \in P,
               \/ Join(p) \/ Select(p) \/ Deselect(p) \/ SetReady(p) \/ Disconnect(p)
               \/ Reconnect(p) \/ LeaveOrKick(p)
        PROVE  OnlyDesertedRoomsExpire'
    BY <2>6, <2>7, <2>8 DEF Join, Select, Deselect, SetReady, Disconnect, Reconnect, LeaveOrKick
  <2>9. ASSUME NEW p \in P, SubmitAction(p) \/ SubmissionFails(p) \/ ConfirmResult(p)
        PROVE  OnlyDesertedRoomsExpire'
    BY <2>2, <2>3, <2>5, <2>9 DEF SubmitAction, SubmissionFails, ConfirmResult
  <2>10. ASSUME NEW t, RevokeToken(t) PROVE OnlyDesertedRoomsExpire'
    BY <2>7, <2>10 DEF RevokeToken
  <2>11. ASSUME NEW taken, NEW created, FillWithBots(taken, created)
         PROVE  OnlyDesertedRoomsExpire'
    BY <2>6, <2>11 DEF FillWithBots
  <2>12. ASSUME NEW mode, NEW limit, NEW save, NEW resave, Configure(mode, limit, save, resave)
         PROVE  OnlyDesertedRoomsExpire'
    BY <2>6, <2>12 DEF Configure
  <2>13. ASSUME \/ BackToLobby \/ Delete \/ Shutdown \/ StepFallsDue \/ PersistenceFailure
                \/ UNCHANGED vars
         PROVE  OnlyDesertedRoomsExpire'
    BY <2>1, <2>2, <2>6, <2>13 DEF BackToLobby, Delete, Shutdown, StepFallsDue,
       PersistenceFailure, vars
  <2>14. ASSUME Start \/ Rematch PROVE OnlyDesertedRoomsExpire'
    BY <2>2, <2>3, <2>14 DEF Start, Rematch, Commit, OpenFails
  <2>15. ASSUME NEW late \in SUBSET P, Tick(late) PROVE OnlyDesertedRoomsExpire'
    <3>1. CASE machine.st = "none"
      BY <2>1, <2>15, <3>1 DEF Tick, TickWithoutMatch, TickWithResults, TickWithDecision,
         TickAborts
    <3>2. CASE machine.st # "none"
      <4> DEFINE left == Without(member, Forgotten(late))
      <4>1. TickWithResults \/ TickWithDecision(left) \/ TickAborts(left)
        BY <2>15, <3>2 DEF Tick, TickWithoutMatch
      <4> HIDE DEF left
      <4>2. CASE TickWithResults \/ TickWithDecision(left)
        BY <2>3, <2>5, <3>2, <4>2 DEF TickWithResults, TickWithDecision
      <4>3. CASE TickAborts(left)
        <5>1. phase' = "Lobby" /\ empty' = Deserted(member', "Lobby")
          BY <4>3 DEF TickAborts, Abort
        <5> QED
          BY <2>1, <5>1
      <4> QED
        BY <4>1, <4>2, <4>3
    <3> QED
      BY <3>1, <3>2
  <2>16. ASSUME Advance PROVE OnlyDesertedRoomsExpire'
    BY <2>1, <2>3, <2>5, <2>16 DEF Advance, AwaitConfirmation, NextResultStep, FinishResults,
       CompleteMatch, AwaitAction, AutoPlays, AdvanceAborts
  <2> QED
    BY <1>2, <2>8, <2>9, <2>10, <2>11, <2>12, <2>13, <2>14, <2>15, <2>16 DEF Next
<1> QED
  BY <1>1, <1>2, RoomInvariant, PTL DEF Spec
=============================================================================
