------------------------ MODULE SessionLobby_proofs ------------------------
(***************************************************************************)
(* For any number of users and of requests under way: rooms never          *)
(* overfill, one start wins, and the status of a room only goes forward;   *)
(* requests that come one at a time leave the first member as host.        *)
(***************************************************************************)
EXTENDS SessionLobby, FiniteSetTheorems, WellFoundedInduction, TLAPS

Dealing == {"deal", "insert"}

\* While a room waits nobody deals, and there is no game.
Undealt ==
  room # NoRoom /\ Waiting =>
    game = NoGame /\ \A t \in Tasks : task[t].step \notin Dealing

\* The inductive invariant.
LobbyInv == TypeOK /\ OneStartWins /\ Undealt

-----------------------------------------------------------------------------
\* A list of members is a function on a party.
LEMMA MembersAre ==
  ASSUME NEW f \in Members
  PROVE  DOMAIN f \in Parties /\ f \in [DOMAIN f -> 0 .. MaxJoins]
  BY DEF Members

\* Whoever leaves makes no party too big.
LEMMA SmallerParty ==
  ASSUME NEW S \in Parties, NEW T \in SUBSET S
  PROVE  T \in Parties
<1>1. IsFiniteSet(S) /\ S \subseteq Users
  BY LobbyAssumption, FS_Subset DEF Parties
<1>2. Cardinality(T) \in Nat /\ Cardinality(S) \in Nat /\ Cardinality(T) <= Cardinality(S)
  BY <1>1, FS_Subset, FS_CardinalityType
<1> QED BY <1>1, <1>2, LobbyAssumption DEF Parties

\* Whoever takes a free seat neither.
LEMMA BiggerParty ==
  ASSUME NEW S \in Parties, Cardinality(S) < MaxPlayers, NEW u \in Users
  PROVE  S \cup {u} \in Parties
<1>1. IsFiniteSet(S) /\ S \subseteq Users
  BY LobbyAssumption, FS_Subset DEF Parties
<1>2. Cardinality(S) \in Nat
  BY <1>1, FS_CardinalityType
<1>3. Cardinality(S \cup {u}) \in {Cardinality(S), Cardinality(S) + 1}
  BY <1>1, FS_AddElement
<1> QED BY <1>1, <1>2, <1>3, LobbyAssumption DEF Parties

\* A set of clock readings has an earliest.
LEMMA HasEarliest ==
  ASSUME NEW T, T \subseteq Nat, T # {}
  PROVE  \E m \in T : \A k \in T : m <= k
<1> DEFINE Before == {ss \in Nat \X Nat : ss[1] < ss[2]}
<1>1. IsWellFoundedOn(Before, Nat)
  BY NatLessThanWellFounded DEF OpToRel
<1>2. PICK m \in T : \A k \in T : ~ (<<k, m>> \in Before)
  <2> HIDE DEF Before
  <2> QED BY <1>1, WFMin
<1>3. ASSUME NEW k \in T PROVE m <= k
  <2>1. k \in Nat /\ m \in Nat
    OBVIOUS
  <2>2. ~ (k < m)
    BY <1>2, <2>1
  <2> QED BY <2>1, <2>2
<1> QED BY <1>3

\* The heir of a room that is not empty is one of its members.
LEMMA HeirIsMember ==
  ASSUME NEW f \in Members, DOMAIN f # {}
  PROVE  Heir(f) \in DOMAIN f
<1> DEFINE Stamps == {f[u] : u \in DOMAIN f}
<1>1. Stamps \in SUBSET Nat /\ Stamps # {}
  <2>1. \A u \in DOMAIN f : f[u] \in Nat
    BY MembersAre, LobbyAssumption
  <2> QED BY <2>1
<1>2. \E m \in Stamps : \A k \in Stamps : m <= k
  BY <1>1, HasEarliest
<1>3. \E u \in DOMAIN f : \A v \in DOMAIN f : f[u] <= f[v]
  BY <1>2
<1> QED BY <1>3 DEF Heir

-----------------------------------------------------------------------------
\* A room has its fields.
LEMMA RoomHas ==
  ASSUME TypeOK, room # NoRoom
  PROVE  /\ room \in Room
         /\ room.members \in Members /\ room.hosts \in SUBSET Users
         /\ Seated \in Parties
         /\ room.members \in [Seated -> 0 .. MaxJoins]
  BY MembersAre DEF TypeOK, Room, Seated

\* A task has the fields of its step.
LEMMA TaskHas ==
  ASSUME TypeOK, NEW t \in Tasks
  PROVE  /\ At(t, "join") => task[t].user \in Users /\ task[t].joined \in 1 .. MaxJoins
         /\ At(t, "grace") \/ At(t, "leave") \/ At(t, "kick") \/ At(t, "elect")
              => task[t].user \in Users
         /\ At(t, "rehost") => task[t].user \in Users /\ task[t].members \in Members
         /\ At(t, "deal") \/ At(t, "insert") => task[t].members \in Members
  BY DEF TypeOK, Task, NoTask, At

\* Taking a member out leaves a room.
LEMMA WithoutIsRoom ==
  ASSUME TypeOK, room # NoRoom, NEW u \in Users
  PROVE  /\ Without(u) \in Room
         /\ Without(u).status = room.status
         /\ Without(u).members \in Members
<1>1. Seated \ {u} \in Parties
  BY RoomHas, SmallerParty
<1>2. Restrict(room.members, Seated \ {u}) \in [Seated \ {u} -> 0 .. MaxJoins]
  BY RoomHas DEF Restrict
<1>3. Restrict(room.members, Seated \ {u}) \in Members
  BY <1>1, <1>2 DEF Members
<1>4. room.hosts \ {u} \in SUBSET Users
  BY RoomHas
<1> QED BY <1>3, <1>4, RoomHas DEF Without, Room

-----------------------------------------------------------------------------
\* Tasks that may follow a request's checks or a step, and deal nothing.
LEMMA QuietTasks ==
  /\ NoTask \in Task \cup {NoTask} /\ NoTask.step \notin Dealing
  /\ \A u \in Users : \A name \in {"grace", "leave", "kick", "elect"} :
       [step |-> name, user |-> u] \in Task
  /\ \A u \in Users, f \in Members : [step |-> "rehost", user |-> u, members |-> f] \in Task
  /\ \A name \in {"delete", "start"} : [step |-> name] \in Task
  /\ \A f \in Members : \A name \in Dealing : [step |-> name, members |-> f] \in Task
  BY DEF Task, NoTask, Dealing

\* A step preserves the invariant if it neither makes a room wait again, nor
\* deals, nor creates a game.
LEMMA QuietKeeps ==
  ASSUME LobbyInv, NEW t \in Tasks,
         NEW what \in Task \cup {NoTask}, what.step \notin Dealing,
         task' = task \/ task' = [task EXCEPT ![t] = what],
         room' \in Room \cup {NoRoom},
         room' # NoRoom /\ room'.status = "waiting" => room # NoRoom /\ Waiting,
         game' = game,
         joins' \in 0 .. MaxJoins, failures' \in 0 .. MaxFailures, overlapped' \in BOOLEAN
  PROVE  LobbyInv'
<1>1. TypeOK'
  BY DEF LobbyInv, TypeOK
<1>2. \A s \in Tasks : task'[s].step \in Dealing => task[s].step \in Dealing
  BY DEF LobbyInv, TypeOK
<1>3. OneStartWins'
  BY <1>2 DEF LobbyInv, OneStartWins, Dealing
<1>4. Undealt'
  BY <1>2 DEF LobbyInv, Undealt, Waiting
<1> QED BY <1>1, <1>3, <1>4 DEF LobbyInv

\* Beginning a request preserves the invariant.
LEMMA RequestKeeps ==
  ASSUME LobbyInv, NEW t \in Tasks, Request(t)
  PROVE  LobbyInv'
<1>1. PICK u \in Users, v \in Users :
        BeginJoin(t, u) \/ BeginLeave(t, u) \/ BeginGrace(t, u) \/ BeginStart(t, u)
          \/ BeginKick(t, u, v)
  BY DEF Request
<1>2. TypeOK /\ joins \in 0 .. MaxJoins /\ failures \in 0 .. MaxFailures
  BY DEF LobbyInv, TypeOK
<1>3. /\ room \in Room \cup {NoRoom}
      /\ (overlapped \/ ~Idle) \in BOOLEAN
  BY <1>2 DEF TypeOK
<1>4. ASSUME NEW what \in Task, what.step \notin Dealing, Begin(t, what),
             joins' \in 0 .. MaxJoins
      PROVE  LobbyInv'
  BY <1>2, <1>3, <1>4, QuietKeeps DEF Begin, Waiting
<1>5. CASE BeginJoin(t, u)
  <2> DEFINE what == [step |-> "join", user |-> u, joined |-> joins + 1]
  <2>1. joins + 1 \in 1 .. MaxJoins /\ joins + 1 \in 0 .. MaxJoins
    BY <1>2, <1>5, LobbyAssumption DEF BeginJoin
  <2>2. what \in Task /\ what.step \notin Dealing
    BY <2>1 DEF Task, Dealing
  <2> QED BY <1>4, <1>5, <2>1, <2>2 DEF BeginJoin
<1>6. CASE BeginLeave(t, u)
  BY <1>2, <1>4, <1>6, QuietTasks DEF BeginLeave, Dealing
<1>7. CASE BeginGrace(t, u)
  BY <1>2, <1>4, <1>7, QuietTasks DEF BeginGrace, Dealing
<1>8. CASE BeginStart(t, u)
  BY <1>2, <1>4, <1>8, QuietTasks DEF BeginStart, Dealing
<1>9. CASE BeginKick(t, u, v)
  BY <1>2, <1>4, <1>9, QuietTasks DEF BeginKick, Dealing
<1> QED BY <1>1, <1>5, <1>6, <1>7, <1>8, <1>9

\* So does going on with one, on the same terms.
LEMMA ContinueKeeps ==
  ASSUME LobbyInv, NEW t \in Tasks, NEW step,
         NEW what \in Task \cup {NoTask}, what.step \notin Dealing,
         Continue(t, step, what),
         room' \in Room \cup {NoRoom},
         room' # NoRoom /\ room'.status = "waiting" => room # NoRoom /\ Waiting,
         game' = game
  PROVE  LobbyInv'
<1>1. joins' \in 0 .. MaxJoins /\ failures' \in 0 .. MaxFailures /\ overlapped' \in BOOLEAN
  BY DEF Continue, LobbyInv, TypeOK
<1> QED BY <1>1, QuietKeeps DEF Continue

\* A join that finds a free seat preserves the invariant, and the status.
LEMMA AddMemberKeeps ==
  ASSUME LobbyInv, NEW t \in Tasks, AddMember(t)
  PROVE  LobbyInv' /\ room' # NoRoom /\ room # NoRoom /\ room'.status = room.status
<1> DEFINE u == task[t].user
           f == [v \in Seated \cup {u} |-> IF v \in Seated THEN room.members[v]
                                          ELSE task[t].joined]
<1>1. TypeOK /\ room # NoRoom /\ Cardinality(Seated) < MaxPlayers /\ At(t, "join")
  BY DEF LobbyInv, AddMember, MayAdd, Stop, Continue
<1>2. u \in Users /\ task[t].joined \in 1 .. MaxJoins
  BY <1>1, TaskHas
<1>3. /\ room \in Room /\ Seated \in Parties
      /\ room.members \in [Seated -> 0 .. MaxJoins]
  BY <1>1, RoomHas
<1>4. Seated \cup {u} \in Parties
  BY <1>1, <1>2, <1>3, BiggerParty
<1>5. f \in [Seated \cup {u} -> 0 .. MaxJoins]
  BY <1>2, <1>3, LobbyAssumption
<1>6. f \in Members
  BY <1>4, <1>5 DEF Members
<1>7. room' = [room EXCEPT !.members = f]
  BY DEF AddMember
<1>8. room' \in Room /\ room'.status = room.status
  BY <1>3, <1>6, <1>7 DEF Room
<1>9. room' # NoRoom
  BY <1>8 DEF Room, NoRoom, Statuses
<1>10. LobbyInv'
  BY <1>1, <1>8, QuietTasks, ContinueKeeps DEF AddMember, Stop, Waiting
<1> QED BY <1>1, <1>8, <1>9, <1>10

\* What a leave goes on with is an heir to elect, a room to delete, or nothing.
LEMMA AfterLeaveIsQuiet ==
  ASSUME NEW u \in Users, NEW after, after.members \in Members
  PROVE  AfterLeave(u, after) \in Task \cup {NoTask} /\ AfterLeave(u, after).step \notin Dealing
<1>1. CASE DOMAIN after.members = {}
  BY <1>1, QuietTasks DEF AfterLeave, Dealing
<1>2. CASE DOMAIN after.members # {} /\ after.host = u
  <2>1. Heir(after.members) \in Users
    BY <1>2, HeirIsMember, MembersAre DEF Parties
  <2> QED BY <1>2, <2>1, QuietTasks DEF AfterLeave, Dealing
<1>3. CASE DOMAIN after.members # {} /\ after.host # u
  BY <1>3, QuietTasks DEF AfterLeave
<1> QED BY <1>1, <1>2, <1>3

\* A member taken out, by a leave or a kick, preserves the invariant and the status.
LEMMA RemovalKeeps ==
  ASSUME LobbyInv, NEW t \in Tasks, RemoveMember(t) \/ KickMember(t)
  PROVE  LobbyInv' /\ room' # NoRoom /\ room # NoRoom /\ room'.status = room.status
<1>1. /\ TypeOK /\ room # NoRoom /\ task[t].user \in Users
      /\ room' = Without(task[t].user)
      /\ game' = game
  BY TaskHas DEF LobbyInv, RemoveMember, KickMember
<1>2. /\ room' \in Room /\ room'.members \in Members
      /\ room'.status = room.status
  BY <1>1, WithoutIsRoom
<1>3. room' # NoRoom
  BY <1>2 DEF Room, NoRoom, Statuses
<1>4. CASE RemoveMember(t)
  <2>1. Continue(t, "leave", AfterLeave(task[t].user, room'))
    BY <1>4 DEF RemoveMember
  <2>2. LobbyInv'
    BY <1>1, <1>2, <2>1, AfterLeaveIsQuiet, ContinueKeeps DEF Waiting
  <2> QED BY <1>1, <1>2, <1>3, <2>2
<1>5. CASE KickMember(t)
  <2>1. LobbyInv'
    BY <1>1, <1>2, <1>5, QuietTasks, ContinueKeeps DEF KickMember, Stop, Waiting
  <2> QED BY <1>1, <1>2, <1>3, <2>1
<1> QED BY <1>4, <1>5

\* So does the change of host: the list it writes back was a party when it was read.
LEMMA UpdateHostKeeps ==
  ASSUME LobbyInv, NEW t \in Tasks, UpdateHost(t)
  PROVE  LobbyInv' /\ room' # NoRoom /\ room # NoRoom /\ room'.status = room.status
<1>1. /\ TypeOK /\ room # NoRoom
      /\ task[t].user \in Users /\ task[t].members \in Members
  BY TaskHas DEF LobbyInv, UpdateHost
<1>2. room' \in Room /\ room'.status = room.status
  <2> DEFINE led == {task[t].user} \cap DOMAIN task[t].members
  <2>1. led \in SUBSET Users
    BY <1>1
  <2>2. room' = [room EXCEPT !.host = task[t].user, !.members = task[t].members, !.hosts = led]
    BY DEF UpdateHost
  <2> HIDE DEF led
  <2> QED BY <1>1, <2>1, <2>2, RoomHas DEF Room
<1>3. room' # NoRoom
  BY <1>2 DEF Room, NoRoom, Statuses
<1>4. LobbyInv'
  BY <1>1, <1>2, QuietTasks, ContinueKeeps DEF UpdateHost, Stop, Waiting
<1> QED BY <1>1, <1>2, <1>3, <1>4

\* The start that finds the room waiting is the only one that deals.
LEMMA SetInProgressKeeps ==
  ASSUME LobbyInv, NEW t \in Tasks, SetInProgress(t)
  PROVE  LobbyInv'
<1> DEFINE what == [step |-> "deal", members |-> room.members]
<1>1. /\ TypeOK /\ room # NoRoom /\ Waiting
      /\ room' = [room EXCEPT !.status = "in_progress"]
      /\ task' = [task EXCEPT ![t] = what]
      /\ UNCHANGED <<game, joins, failures, overlapped>>
  BY DEF LobbyInv, SetInProgress, MaySetStatus, Waiting, Continue
<1>2. room \in Room /\ what \in Task
  BY <1>1, RoomHas, QuietTasks DEF Dealing
<1>3. room' \in Room /\ room'.status = "in_progress"
  BY <1>1, <1>2 DEF Room, Statuses
<1>4. TypeOK'
  BY <1>1, <1>2, <1>3 DEF TypeOK
<1>5. game = NoGame /\ \A s \in Tasks : task[s].step \notin Dealing
  BY <1>1 DEF LobbyInv, Undealt
<1>6. \A s \in Tasks : s # t => task'[s] = task[s]
  BY <1>1 DEF TypeOK
<1>7. OneStartWins'
  BY <1>1, <1>5, <1>6 DEF OneStartWins, Dealing
<1>8. Undealt'
  BY <1>3 DEF Undealt, Waiting
<1> QED BY <1>4, <1>7, <1>8 DEF LobbyInv

\* It goes on to create the game.
LEMMA DealKeeps ==
  ASSUME LobbyInv, NEW t \in Tasks, FindNoGame(t) \/ InsertGame(t)
  PROVE  LobbyInv' /\ room' = room
<1>1. /\ TypeOK /\ task[t].members \in Members /\ task[t].step \in Dealing
      /\ UNCHANGED <<room, joins, failures, overlapped>>
  BY TaskHas DEF LobbyInv, FindNoGame, InsertGame, Untouched, Stop, Continue, At, Dealing
<1>2. ~(room # NoRoom /\ Waiting)
  BY <1>1 DEF LobbyInv, Undealt
<1>3. Undealt'
  BY <1>1, <1>2 DEF Undealt, Waiting
<1>4. \A s \in Tasks : task[s].step \in Dealing => s = t
  BY <1>1 DEF LobbyInv, OneStartWins, Dealing
<1>5. CASE FindNoGame(t)
  <2> DEFINE what == [step |-> "insert", members |-> task[t].members]
  <2>1. game = NoGame /\ game' = game /\ task' = [task EXCEPT ![t] = what]
    BY <1>5 DEF FindNoGame, Untouched, Continue
  <2>2. what \in Task
    BY <1>1, QuietTasks DEF Dealing
  <2>3. TypeOK'
    BY <1>1, <2>1, <2>2 DEF TypeOK
  <2>4. \A s \in Tasks : s # t => task'[s] = task[s]
    BY <1>1, <2>1 DEF TypeOK
  <2>5. OneStartWins'
    BY <1>4, <2>1, <2>4 DEF OneStartWins, Dealing
  <2> QED BY <1>1, <1>3, <2>3, <2>5 DEF LobbyInv
<1>6. CASE InsertGame(t)
  <2>1. game' = [roster |-> DOMAIN task[t].members] /\ task' = [task EXCEPT ![t] = NoTask]
    BY <1>6 DEF InsertGame, Stop, Continue
  <2>2. DOMAIN task[t].members \in Parties
    BY <1>1, MembersAre
  <2>3. TypeOK'
    BY <1>1, <2>1, <2>2 DEF TypeOK
  <2>4. \A s \in Tasks : task'[s].step \notin Dealing
    BY <1>1, <1>4, <2>1, QuietTasks DEF TypeOK
  <2>5. OneStartWins'
    BY <2>4 DEF OneStartWins, Dealing
  <2> QED BY <1>1, <1>3, <2>3, <2>5 DEF LobbyInv
<1> QED BY <1>5, <1>6

-----------------------------------------------------------------------------
\* A new room satisfies the invariant.
LEMMA InitLobby == Init => LobbyInv
<1> SUFFICES ASSUME Init PROVE LobbyInv
  OBVIOUS
<1>1. /\ {Creator} \in Parties
      /\ [u \in {Creator} |-> 0] \in [{Creator} -> 0 .. MaxJoins]
  BY LobbyAssumption, FS_Singleton DEF Parties
<1>2. [u \in {Creator} |-> 0] \in Members
  BY <1>1 DEF Members
<1>3. TypeOK
  <2>1. room \in Room
    <3> DEFINE first == [u \in {Creator} |-> 0]
    <3>1. first \in Members
      BY <1>2
    <3>2. room = [status |-> "waiting", host |-> Creator, hosts |-> {Creator}, members |-> first]
      BY DEF Init
    <3> HIDE DEF first
    <3> QED BY <3>1, <3>2, LobbyAssumption DEF Room, Statuses
  <2>2. task \in [Tasks -> Task \cup {NoTask}]
    BY DEF Init
  <2>3. joins \in 0 .. MaxJoins /\ failures \in 0 .. MaxFailures
    BY LobbyAssumption DEF Init
  <2> QED BY <2>1, <2>2, <2>3 DEF Init, TypeOK
<1>4. \A t \in Tasks : task[t].step = "idle"
  BY DEF Init, NoTask
<1>5. OneStartWins /\ Undealt
  BY <1>4 DEF Init, OneStartWins, Undealt, Dealing
<1> QED BY <1>3, <1>5 DEF LobbyInv

\* What a step may do to the status.
Forward ==
  room' # NoRoom /\ room'.status # room.status =>
    \/ room.status = "waiting" /\ room'.status = "in_progress"
    \/ room.status = "in_progress" /\ room'.status = "finished"

\* A step that only ends a task, or goes on to a leave, preserves the invariant.
LEMMA IdleStepKeeps ==
  ASSUME LobbyInv, NEW t \in Tasks, NEW step, NEW what \in Task \cup {NoTask},
         what.step \notin Dealing, Continue(t, step, what), Untouched
  PROVE  LobbyInv' /\ Forward
<1>1. room \in Room \cup {NoRoom}
  BY DEF LobbyInv, TypeOK
<1>2. LobbyInv'
  BY <1>1, ContinueKeeps DEF Untouched, Waiting
<1> QED BY <1>2 DEF Untouched, Forward

\* Every step of a request preserves the invariant and only moves the status on.
LEMMA ProceedKeeps ==
  ASSUME LobbyInv, NEW t \in Tasks, Proceed(t)
  PROVE  LobbyInv' /\ Forward
<1>1. CASE AddMember(t)
  BY <1>1, AddMemberKeeps DEF Forward
<1>2. CASE AddRefused(t) \/ GraceOver(t) \/ StartRefused(t) \/ RoomGone(t)
  <2>1. Untouched /\ \E step : Continue(t, step, NoTask)
    BY <1>2 DEF AddRefused, GraceOver, StartRefused, RoomGone, Stop
  <2> QED BY <2>1, QuietTasks, IdleStepKeeps
<1>3. CASE GraceLeave(t)
  <2>1. task[t].user \in Users
    BY <1>3, TaskHas DEF LobbyInv, GraceLeave
  <2>2. [step |-> "leave", user |-> task[t].user] \in Task
    BY <2>1, QuietTasks
  <2> QED BY <1>3, <2>2, IdleStepKeeps DEF GraceLeave, Dealing
<1>4. CASE RemoveMember(t) \/ KickMember(t)
  BY <1>4, RemovalKeeps DEF Forward
<1>5. CASE DeleteRoom(t)
  <2>1. LobbyInv'
    BY <1>5, QuietTasks, ContinueKeeps DEF DeleteRoom, Stop
  <2> QED BY <1>5, <2>1 DEF DeleteRoom, Forward
<1>6. CASE ReadMembers(t)
  <2>1. task[t].user \in Users /\ room.members \in Members
    BY <1>6, TaskHas, RoomHas DEF LobbyInv, ReadMembers
  <2>2. [step |-> "rehost", user |-> task[t].user, members |-> room.members] \in Task
    BY <2>1, QuietTasks
  <2> QED BY <1>6, <2>2, IdleStepKeeps DEF ReadMembers, Dealing
<1>7. CASE UpdateHost(t)
  BY <1>7, UpdateHostKeeps DEF Forward
<1>8. CASE SetInProgress(t)
  <2>1. room # NoRoom /\ Waiting /\ room' = [room EXCEPT !.status = "in_progress"]
    BY <1>8 DEF SetInProgress, MaySetStatus, Waiting
  <2>2. room'.status = "in_progress"
    BY <2>1, RoomHas DEF LobbyInv, Room
  <2> QED BY <1>8, <2>1, <2>2, SetInProgressKeeps DEF Forward, Waiting
<1>9. CASE FindNoGame(t) \/ InsertGame(t)
  BY <1>9, DealKeeps DEF Forward
<1> QED BY <1>1, <1>2, <1>3, <1>4, <1>5, <1>6, <1>7, <1>8, <1>9 DEF Proceed

\* So does every step of the lobby.
LEMMA NextLobby ==
  ASSUME LobbyInv, Next
  PROVE  LobbyInv' /\ Forward
<1>1. ASSUME NEW t \in Tasks, Request(t)
      PROVE  LobbyInv' /\ Forward
  <2>1. room' = room
    BY <1>1 DEF Request, BeginJoin, BeginLeave, BeginGrace, BeginStart, BeginKick, Begin
  <2> QED BY <1>1, <2>1, RequestKeeps DEF Forward
<1>2. ASSUME NEW t \in Tasks, Proceed(t)
      PROVE  LobbyInv' /\ Forward
  BY <1>2, ProceedKeeps
<1>3. ASSUME NEW t \in Tasks, Fail(t)
      PROVE  LobbyInv' /\ Forward
  <2>1. /\ room \in Room \cup {NoRoom} /\ joins \in 0 .. MaxJoins
        /\ failures + 1 \in 0 .. MaxFailures /\ overlapped \in BOOLEAN
    BY <1>3, LobbyAssumption DEF LobbyInv, TypeOK, Fail
  <2>2. LobbyInv'
    BY <1>3, <2>1, QuietTasks, QuietKeeps DEF Fail, Waiting
  <2> QED BY <1>3, <2>2 DEF Fail, Forward
<1>4. ASSUME MarkFinished
      PROVE  LobbyInv' /\ Forward
  <2>1. /\ room # NoRoom /\ room.status = "in_progress"
        /\ room' = [room EXCEPT !.status = "finished"]
        /\ UNCHANGED <<game, task, joins, failures, overlapped>>
    BY <1>4 DEF MarkFinished, MaySetStatus
  <2>2. room' \in Room /\ room'.status = "finished"
    BY <2>1, RoomHas DEF LobbyInv, Room, Statuses
  <2>3. TypeOK'
    BY <2>1, <2>2 DEF LobbyInv, TypeOK
  <2>4. OneStartWins'
    BY <2>1 DEF LobbyInv, OneStartWins
  <2>5. Undealt'
    BY <2>2 DEF Undealt, Waiting
  <2> QED BY <2>1, <2>2, <2>3, <2>4, <2>5 DEF LobbyInv, Forward
<1> QED BY <1>1, <1>2, <1>3, <1>4 DEF Next

\* A step that changes nothing preserves it.
LEMMA StutterLobby ==
  ASSUME LobbyInv, UNCHANGED vars
  PROVE  LobbyInv'
BY DEF vars, LobbyInv, TypeOK, OneStartWins, Undealt, Waiting

-----------------------------------------------------------------------------
\* The invariant holds in every reachable state of the lobby.
THEOREM LobbySafe == Spec => []LobbyInv
<1>1. LobbyInv /\ [Next]_vars => LobbyInv'
  BY NextLobby, StutterLobby
<1> QED BY <1>1, InitLobby, PTL DEF Spec

\* The lobby's variables keep their types, remembered lists of members included.
THEOREM LobbyTypeCorrect == Spec => []TypeOK
<1>1. LobbyInv => TypeOK
  BY DEF LobbyInv
<1> QED BY <1>1, LobbySafe, PTL

\* Neither a room nor a game ever holds more than max_players.
THEOREM NeverOverfull == Spec => []RoomBound
<1>1. LobbyInv => RoomBound
  <2> SUFFICES ASSUME LobbyInv PROVE RoomBound
    OBVIOUS
  <2>1. room # NoRoom => Seated \in Parties
    BY RoomHas DEF LobbyInv
  <2>2. game # NoGame => game.roster \in Parties
    BY DEF LobbyInv, TypeOK
  <2> QED BY <2>1, <2>2 DEF RoomBound, Parties
<1> QED BY <1>1, LobbySafe, PTL

\* At most one start creates the game of a room.
THEOREM OneGamePerRoom == Spec => []OneStartWins
<1>1. LobbyInv => OneStartWins
  BY DEF LobbyInv
<1> QED BY <1>1, LobbySafe, PTL

\* The status of a room goes forward one by one, whatever was read before.
THEOREM StatusOnlyForward == Spec => StatusForward
<1>1. LobbyInv /\ [Next]_vars =>
        [room' # NoRoom /\ room'.status # room.status
         => \/ room.status = "waiting" /\ room'.status = "in_progress"
            \/ room.status = "in_progress" /\ room'.status = "finished"]_room
  BY NextLobby DEF vars, Forward
<1> QED BY <1>1, LobbySafe, PTL DEF Spec, StatusForward

-----------------------------------------------------------------------------
(***************************************************************************)
(* Who presides while requests come one at a time                          *)
(***************************************************************************)

\* The host, by name and by role, is the member who joined first.
Presided ==
  /\ room.host \in Seated /\ room.hosts = {room.host}
  /\ \A u \in Seated : room.members[room.host] <= room.members[u]

Alone == \A s, t \in Tasks : task[s] # NoTask /\ task[t] # NoTask => s = t

\* The steps of a leave between the departure of a host and its replacement.
Changing == {"elect", "rehost", "delete"}

\* What a request remembers is still true of the room.
Fitting(t) ==
  /\ At(t, "join") => task[t].joined = joins
  /\ At(t, "kick") => task[t].user # room.host
  /\ At(t, "elect") \/ At(t, "rehost") => Seated # {} /\ task[t].user = Heir(room.members)
  /\ At(t, "rehost") => task[t].members = room.members

InTurn ==
  ~overlapped /\ failures = 0 =>
    /\ Alone
    /\ room # NoRoom =>
         /\ \A u \in Seated : room.members[u] <= joins
         /\ \A t \in Tasks : Fitting(t)
         /\ (\A t \in Tasks : task[t].step \notin Changing) => Presided

\* The heir is the earliest of the members.
LEMMA HeirIsEarliest ==
  ASSUME NEW f \in Members, DOMAIN f # {}
  PROVE  Heir(f) \in DOMAIN f /\ \A v \in DOMAIN f : f[Heir(f)] <= f[v]
<1> DEFINE Stamps == {f[u] : u \in DOMAIN f}
<1>1. Stamps \in SUBSET Nat /\ Stamps # {}
  <2>1. \A u \in DOMAIN f : f[u] \in Nat
    BY MembersAre, LobbyAssumption
  <2> QED BY <2>1
<1>2. \E m \in Stamps : \A k \in Stamps : m <= k
  BY <1>1, HasEarliest
<1>3. \E u \in DOMAIN f : \A v \in DOMAIN f : f[u] <= f[v]
  BY <1>2
<1> QED BY <1>3 DEF Heir

\* The only request that is under way, or the first after none, takes a step.
LEMMA OneGoesOn ==
  ASSUME TypeOK, NEW t \in Tasks, NEW what, Alone, task[t] # NoTask \/ Idle,
         task' = [task EXCEPT ![t] = what],
         room' # NoRoom =>
           /\ \A u \in Seated' : room'.members[u] <= joins'
           /\ Fitting(t)'
           /\ what.step \notin Changing => Presided'
  PROVE  InTurn'
<1>1. task'[t] = what /\ \A s \in Tasks : s # t => task[s] = NoTask /\ task'[s] = NoTask
  BY DEF TypeOK, Alone, Idle
<1>2. Alone'
  BY <1>1 DEF Alone
<1>3. \A s \in Tasks : s # t => Fitting(s)'
  BY <1>1 DEF Fitting, At, NoTask
<1> QED BY <1>1, <1>2, <1>3 DEF InTurn

\* A request that begins has checked the room as it is.
LEMMA RequestInTurn ==
  ASSUME LobbyInv, InTurn, NEW t \in Tasks, Request(t)
  PROVE  InTurn'
<1> SUFFICES ASSUME ~overlapped', failures' = 0 PROVE InTurn'
  BY DEF InTurn
<1>1. PICK u \in Users, v \in Users :
        BeginJoin(t, u) \/ BeginLeave(t, u) \/ BeginGrace(t, u) \/ BeginStart(t, u)
          \/ BeginKick(t, u, v)
  BY DEF Request
<1>2. PICK what : Begin(t, what) /\ room # NoRoom /\ what.step \notin Changing
                  /\ what.step \notin {"elect", "rehost"}
                  /\ (joins' = joins \/ joins' = joins + 1)
                  /\ (what.step = "join" => what.joined = joins')
                  /\ (what.step = "kick" => what.user # room.host)
  <2>1. CASE BeginJoin(t, u)
    <3> DEFINE what == [step |-> "join", user |-> u, joined |-> joins + 1]
    <3>1. what.step = "join" /\ what.joined = joins + 1
      OBVIOUS
    <3>2. Begin(t, what) /\ room # NoRoom /\ joins' = joins + 1
      BY <2>1 DEF BeginJoin
    <3> HIDE DEF what
    <3> QED BY <3>1, <3>2 DEF Changing
  <2>2. CASE BeginLeave(t, u)
    <3> DEFINE what == [step |-> "leave", user |-> u]
    <3>1. what.step = "leave" /\ Begin(t, what) /\ room # NoRoom /\ joins' = joins
      BY <2>2 DEF BeginLeave
    <3> HIDE DEF what
    <3> QED BY <3>1 DEF Changing
  <2>3. CASE BeginGrace(t, u)
    <3> DEFINE what == [step |-> "grace", user |-> u]
    <3>1. what.step = "grace" /\ Begin(t, what) /\ room # NoRoom /\ joins' = joins
      BY <2>3 DEF BeginGrace
    <3> HIDE DEF what
    <3> QED BY <3>1 DEF Changing
  <2>4. CASE BeginStart(t, u)
    <3> DEFINE what == [step |-> "start"]
    <3>1. what.step = "start" /\ Begin(t, what) /\ room # NoRoom /\ joins' = joins
      BY <2>4 DEF BeginStart
    <3> HIDE DEF what
    <3> QED BY <3>1 DEF Changing
  <2>5. CASE BeginKick(t, u, v)
    <3> DEFINE what == [step |-> "kick", user |-> v]
    <3>1. what.step = "kick" /\ what.user = v /\ Begin(t, what) /\ joins' = joins
      BY <2>5 DEF BeginKick
    <3>2. room # NoRoom /\ u \in room.hosts /\ u # v
      BY <2>5 DEF BeginKick, IsHost
    <3>3. Idle /\ ~overlapped /\ failures = 0
      BY <3>1 DEF Begin
    <3>4. \A s \in Tasks : task[s].step \notin Changing
      BY <3>3 DEF Idle, NoTask, Changing
    <3>5. Presided
      BY <3>2, <3>3, <3>4 DEF InTurn
    <3>6. what.user # room.host
      BY <3>1, <3>2, <3>5 DEF Presided
    <3> HIDE DEF what
    <3> QED BY <3>1, <3>2, <3>6 DEF Changing
  <2> QED BY <1>1, <2>1, <2>2, <2>3, <2>4, <2>5
<1>3. TypeOK /\ joins \in Nat
  BY LobbyAssumption DEF LobbyInv, TypeOK
<1>4. /\ Idle /\ ~overlapped /\ failures = 0 /\ room' = room
      /\ task' = [task EXCEPT ![t] = what] /\ task'[t] = what
  BY <1>2, <1>3 DEF Begin, TypeOK
<1>5. \A s \in Tasks : task[s].step \notin Changing
  BY <1>4 DEF Idle, NoTask, Changing
<1>6. Alone /\ Presided /\ \A x \in Seated : room.members[x] <= joins
  BY <1>2, <1>4, <1>5 DEF InTurn
<1>7. \A x \in Seated : room.members[x] \in Nat
  BY <1>2, <1>3, RoomHas, LobbyAssumption
<1>8. \A x \in Seated' : room'.members[x] <= joins'
  BY <1>2, <1>3, <1>4, <1>6, <1>7 DEF Seated
<1>9. Fitting(t)'
  BY <1>2, <1>4 DEF Fitting, At
<1>10. Presided'
  BY <1>4, <1>6 DEF Presided, Seated
<1> QED BY <1>3, <1>4, <1>6, <1>8, <1>9, <1>10, OneGoesOn

\* Whoever joined first of the rest stays so when somebody else goes.
LEMMA GoingKeepsOrder ==
  ASSUME TypeOK, room # NoRoom, NEW u \in Users, room' = Without(u)
  PROVE  /\ room'.host = room.host /\ room'.hosts = room.hosts \ {u}
         /\ Seated' = Seated \ {u}
         /\ \A v \in Seated' : room'.members[v] = room.members[v]
         /\ Presided /\ u # room.host => Presided'
<1> DEFINE f == Restrict(room.members, Seated \ {u})
<1>1. room' = [room EXCEPT !.members = f, !.hosts = @ \ {u}] /\ room \in Room
  BY RoomHas DEF Without
<1> HIDE DEF f
<1>2. room'.host = room.host /\ room'.members = f /\ room'.hosts = room.hosts \ {u}
  BY <1>1 DEF Room
<1>3. DOMAIN f = Seated \ {u} /\ \A v \in Seated \ {u} : f[v] = room.members[v]
  BY DEF f, Restrict
<1>4. Seated' = Seated \ {u} /\ \A v \in Seated' : room'.members[v] = room.members[v]
  BY <1>2, <1>3 DEF Seated
<1> QED BY <1>2, <1>4 DEF Presided

\* Every step of the only request leaves the room with its first member as host, or
\* on the way there.
LEMMA ProceedInTurn ==
  ASSUME LobbyInv, InTurn, NEW t \in Tasks, Proceed(t)
  PROVE  InTurn'
<1> SUFFICES ASSUME ~overlapped', failures' = 0 PROVE InTurn'
  BY DEF InTurn
<1>1. TypeOK
  BY DEF LobbyInv
<1>2. /\ task[t] # NoTask /\ UNCHANGED <<joins, failures, overlapped>>
      /\ \E what : task' = [task EXCEPT ![t] = what]
  <2>1. \E step, what : Continue(t, step, what) /\ step # "idle"
    BY DEF Proceed, AddMember, AddRefused, GraceLeave, GraceOver, RemoveMember, DeleteRoom, ReadMembers, UpdateHost, KickMember, SetInProgress, StartRefused, FindNoGame, InsertGame, RoomGone, Stop
  <2>2. PICK step, what : Continue(t, step, what) /\ step # "idle"
    BY <2>1
  <2>3. NoTask.step = "idle"
    BY DEF NoTask
  <2> QED BY <2>2, <2>3 DEF Continue, At
<1>3. /\ Alone
      /\ room # NoRoom =>
           /\ \A u \in Seated : room.members[u] <= joins
           /\ Fitting(t)
           /\ task[t].step \notin Changing => Presided
  <2>1. ~overlapped /\ failures = 0
    BY <1>2
  <2>2. Alone
    BY <2>1 DEF InTurn
  <2>3. \A s \in Tasks : s # t => task[s].step \notin Changing
    BY <1>2, <2>2 DEF Alone, NoTask, Changing
  <2> QED BY <2>1, <2>2, <2>3 DEF InTurn
<1>4. ASSUME NEW what, task' = [task EXCEPT ![t] = what],
             room' # NoRoom =>
               /\ \A u \in Seated' : room'.members[u] <= joins'
               /\ Fitting(t)'
               /\ what.step \notin Changing => Presided'
      PROVE  InTurn'
  BY <1>1, <1>2, <1>3, <1>4, OneGoesOn
<1>5. ASSUME NEW what, task' = [task EXCEPT ![t] = what] PROVE task'[t] = what
  BY <1>1, <1>5 DEF TypeOK
<1>6. ASSUME task' = [task EXCEPT ![t] = NoTask] PROVE Fitting(t)'
  <2>1. task'[t].step = "idle"
    BY <1>5, <1>6 DEF NoTask
  <2> QED BY <2>1 DEF Fitting, At
\* A step on which nothing depends any more.
<1>7. ASSUME NEW what, task' = [task EXCEPT ![t] = what], task[t].step \notin Changing,
             what.step \notin {"join", "kick", "elect", "rehost"},
             room' # NoRoom => /\ room # NoRoom
                               /\ room'.members = room.members /\ room'.host = room.host
                               /\ room'.hosts = room.hosts
      PROVE  InTurn'
  <2> SUFFICES ASSUME room' # NoRoom
               PROVE  /\ \A u \in Seated' : room'.members[u] <= joins'
                      /\ Fitting(t)' /\ Presided'
    BY <1>4, <1>7
  <2>1. Fitting(t)'
    BY <1>5, <1>7 DEF Fitting, At
  <2> QED BY <1>2, <1>3, <1>7, <2>1 DEF Seated, Presided
<1>8. CASE AddRefused(t) \/ GraceOver(t) \/ StartRefused(t)
  <2>1. Untouched /\ task' = [task EXCEPT ![t] = NoTask] /\ task[t].step \notin Changing
    BY <1>8 DEF AddRefused, GraceOver, StartRefused, Stop, Continue, At, Changing
  <2>2. NoTask.step \notin {"join", "kick", "elect", "rehost"}
    BY DEF NoTask
  <2> QED BY <1>7, <2>1, <2>2 DEF Untouched
<1>9. CASE RoomGone(t)
  <2>1. room' = NoRoom /\ task' = [task EXCEPT ![t] = NoTask]
    BY <1>9 DEF RoomGone, Untouched, Stop, Continue
  <2> QED BY <1>4, <2>1
<1>10. CASE DeleteRoom(t)
  <2>1. room' = NoRoom /\ task' = [task EXCEPT ![t] = NoTask]
    BY <1>10 DEF DeleteRoom, Stop, Continue
  <2> QED BY <1>4, <2>1
<1>11. CASE GraceLeave(t)
  <2> DEFINE what == [step |-> "leave", user |-> task[t].user]
  <2>1. what.step = "leave"
    OBVIOUS
  <2>2. Untouched /\ task' = [task EXCEPT ![t] = what] /\ task[t].step \notin Changing
    BY <1>11 DEF GraceLeave, Continue, At, Changing
  <2> HIDE DEF what
  <2> QED BY <1>7, <2>1, <2>2 DEF Untouched
<1>12. CASE FindNoGame(t)
  <2> DEFINE what == [step |-> "insert", members |-> task[t].members]
  <2>1. what.step = "insert"
    OBVIOUS
  <2>2. Untouched /\ task' = [task EXCEPT ![t] = what] /\ task[t].step \notin Changing
    BY <1>12 DEF FindNoGame, Continue, At, Changing
  <2> HIDE DEF what
  <2> QED BY <1>7, <2>1, <2>2 DEF Untouched
<1>13. CASE InsertGame(t)
  <2>1. room' = room /\ task' = [task EXCEPT ![t] = NoTask] /\ task[t].step \notin Changing
    BY <1>13 DEF InsertGame, Stop, Continue, At, Changing
  <2>2. NoTask.step \notin {"join", "kick", "elect", "rehost"}
    BY DEF NoTask
  <2> QED BY <1>7, <2>1, <2>2
<1>14. CASE SetInProgress(t)
  <2> DEFINE what == [step |-> "deal", members |-> room.members]
  <2>1. what.step = "deal"
    OBVIOUS
  <2>2. /\ room # NoRoom /\ room' = [room EXCEPT !.status = "in_progress"]
        /\ task' = [task EXCEPT ![t] = what] /\ task[t].step \notin Changing
    BY <1>14 DEF SetInProgress, MaySetStatus, Continue, At, Changing
  <2>3. room'.members = room.members /\ room'.host = room.host /\ room'.hosts = room.hosts
    BY <1>1, <2>2, RoomHas DEF Room
  <2> HIDE DEF what
  <2> QED BY <1>7, <2>1, <2>2, <2>3
<1>15. CASE AddMember(t)
  <2> DEFINE u == task[t].user
             f == [v \in Seated \cup {u} |-> IF v \in Seated THEN room.members[v] ELSE task[t].joined]
  <2>1. /\ room # NoRoom /\ room' = [room EXCEPT !.members = f] /\ u \notin Seated
        /\ task' = [task EXCEPT ![t] = NoTask] /\ At(t, "join")
    BY <1>15 DEF AddMember, MayAdd, Stop, Continue
  <2>2. room'.members = f /\ room'.host = room.host /\ room'.hosts = room.hosts
    BY <1>1, <2>1, RoomHas DEF Room
  <2>3. task[t].joined = joins /\ Presided /\ joins \in Nat /\ \A x \in Seated : room.members[x] <= joins
    BY <1>1, <1>3, <2>1, LobbyAssumption DEF Fitting, At, Changing, TypeOK
  <2>4. \A x \in Seated : f[x] = room.members[x]
    OBVIOUS
  <2>5. f[u] = joins /\ DOMAIN f = Seated \cup {u}
    BY <2>1, <2>3
  <2> HIDE DEF f, u
  <2>6. Seated' = Seated \cup {u}
    BY <2>2, <2>5 DEF Seated
  <2>7. \A x \in Seated' : room'.members[x] <= joins'
    BY <1>2, <2>2, <2>3, <2>4, <2>5, <2>6
  <2>8. Presided'
    BY <2>2, <2>3, <2>4, <2>5, <2>6 DEF Presided
  <2>9. Fitting(t)'
    BY <1>6, <2>1
  <2> QED BY <1>4, <2>1, <2>7, <2>8, <2>9
<1>16. CASE KickMember(t)
  <2>1. /\ room # NoRoom /\ room' = Without(task[t].user) /\ At(t, "kick") /\ task[t].user \in Users
        /\ task' = [task EXCEPT ![t] = NoTask]
    BY <1>1, <1>16, TaskHas DEF KickMember, Stop, Continue
  <2>2. task[t].user # room.host /\ Presided /\ \A x \in Seated : room.members[x] <= joins
    BY <1>3, <2>1 DEF Fitting, At, Changing
  <2>3. /\ Seated' = Seated \ {task[t].user} /\ \A v \in Seated' : room'.members[v] = room.members[v]
        /\ Presided'
    BY <1>1, <2>1, <2>2, GoingKeepsOrder
  <2>4. \A x \in Seated' : room'.members[x] <= joins'
    BY <1>2, <2>2, <2>3
  <2>5. Fitting(t)'
    BY <1>6, <2>1
  <2> QED BY <1>4, <2>1, <2>3, <2>4, <2>5
<1>17. CASE RemoveMember(t)
  <2> DEFINE u == task[t].user
             what == AfterLeave(u, room')
  <2>1. /\ room # NoRoom /\ room' = Without(u) /\ At(t, "leave") /\ u \in Users
        /\ task' = [task EXCEPT ![t] = what]
    BY <1>1, <1>17, TaskHas DEF RemoveMember, Continue
  <2>2. Presided /\ \A x \in Seated : room.members[x] <= joins
    BY <1>3, <2>1 DEF At, Changing
  <2>3. /\ Seated' = Seated \ {u} /\ \A v \in Seated' : room'.members[v] = room.members[v]
        /\ room'.host = room.host /\ (u # room.host => Presided')
    BY <1>1, <2>1, <2>2, GoingKeepsOrder
  <2>4. \A x \in Seated' : room'.members[x] <= joins'
    BY <1>2, <2>2, <2>3
  <2>5. task'[t] = what
    BY <1>5, <2>1
  <2>6. CASE Seated' = {}
    <3>1. what = [step |-> "delete"]
      BY <2>6 DEF AfterLeave, Seated
    <3>2. what.step = "delete"
      BY <3>1
    <3> HIDE DEF what
    <3>3. Fitting(t)'
      BY <2>5, <3>2 DEF Fitting, At
    <3> QED BY <1>4, <2>1, <2>4, <3>2, <3>3 DEF Changing
  <2>7. CASE Seated' # {} /\ u = room.host
    <3>1. what = [step |-> "elect", user |-> Heir(room'.members)]
      BY <2>3, <2>7 DEF AfterLeave, Seated
    <3>2. what.step = "elect" /\ what.user = Heir(room'.members)
      BY <3>1
    <3> HIDE DEF what
    <3>3. Fitting(t)'
      BY <2>5, <2>7, <3>2 DEF Fitting, At
    <3> QED BY <1>4, <2>1, <2>4, <3>2, <3>3 DEF Changing
  <2>8. CASE Seated' # {} /\ u # room.host
    <3>1. what = NoTask
      BY <2>3, <2>8 DEF AfterLeave, Seated
    <3> HIDE DEF what
    <3>2. Fitting(t)'
      BY <2>5, <3>1 DEF Fitting, At, NoTask
    <3> QED BY <1>4, <2>1, <2>3, <2>4, <2>8, <3>2
  <2> QED BY <2>6, <2>7, <2>8
<1>18. CASE ReadMembers(t)
  <2> DEFINE what == [step |-> "rehost", user |-> task[t].user, members |-> room.members]
  <2>1. what.step = "rehost" /\ what.user = task[t].user /\ what.members = room.members
    OBVIOUS
  <2>2. room # NoRoom /\ room' = room /\ At(t, "elect") /\ task' = [task EXCEPT ![t] = what]
    BY <1>18 DEF ReadMembers, Continue, Untouched
  <2> HIDE DEF what
  <2>3. /\ Seated # {} /\ task[t].user = Heir(room.members)
        /\ \A x \in Seated : room.members[x] <= joins
    BY <1>3, <2>2 DEF Fitting
  <2>4. Fitting(t)'
    BY <1>5, <2>1, <2>2, <2>3 DEF Fitting, At, Seated
  <2>5. \A x \in Seated' : room'.members[x] <= joins'
    BY <1>2, <2>2, <2>3 DEF Seated
  <2> QED BY <1>4, <2>1, <2>2, <2>4, <2>5 DEF Changing
<1>19. CASE UpdateHost(t)
  <2>1. /\ room # NoRoom /\ At(t, "rehost") /\ task' = [task EXCEPT ![t] = NoTask]
        /\ room' = [room EXCEPT !.host = task[t].user, !.members = task[t].members,
                                !.hosts = {task[t].user} \cap DOMAIN task[t].members]
    BY <1>19 DEF UpdateHost, Stop, Continue
  <2>2. /\ Seated # {} /\ task[t].user = Heir(room.members) /\ task[t].members = room.members
        /\ \A x \in Seated : room.members[x] <= joins
    BY <1>3, <2>1 DEF Fitting
  <2>3. room \in Room /\ room.members \in Members
    BY <1>1, <2>1, RoomHas
  <2>4. /\ room'.host = Heir(room.members) /\ room'.members = room.members
        /\ room'.hosts = {Heir(room.members)} \cap Seated
    BY <2>1, <2>2, <2>3 DEF Room, Seated
  <2>5. Presided'
    BY <2>2, <2>3, <2>4, HeirIsEarliest DEF Presided, Seated
  <2>6. \A x \in Seated' : room'.members[x] <= joins'
    BY <1>2, <2>2, <2>4 DEF Seated
  <2>7. Fitting(t)'
    BY <1>6, <2>1
  <2> QED BY <1>4, <2>1, <2>5, <2>6, <2>7
<1> QED BY <1>8, <1>9, <1>10, <1>11, <1>12, <1>13, <1>14, <1>15, <1>16, <1>17, <1>18, <1>19 DEF Proceed

\* A new room has its creator as host.
LEMMA InitInTurn == Init => InTurn
<1> SUFFICES ASSUME Init PROVE InTurn
  OBVIOUS
<1> DEFINE f == [u \in {Creator} |-> 0]
<1>1. room = [status |-> "waiting", host |-> Creator, hosts |-> {Creator}, members |-> f] /\ joins = 0
      /\ \A t \in Tasks : task[t] = NoTask
  BY DEF Init
<1>2. room.host = Creator /\ room.hosts = {Creator} /\ room.members = f
  BY <1>1
<1>3. DOMAIN f = {Creator} /\ f[Creator] = 0
  OBVIOUS
<1> HIDE DEF f
<1>4. Seated = {Creator}
  BY <1>2, <1>3 DEF Seated
<1>5. Presided /\ \A u \in Seated : room.members[u] <= joins
  BY <1>1, <1>2, <1>3, <1>4 DEF Presided
<1>6. Alone /\ \A t \in Tasks : Fitting(t)
  BY <1>1 DEF Alone, Fitting, At, NoTask
<1> QED BY <1>5, <1>6 DEF InTurn

\* So does every step of the lobby.
LEMMA NextInTurn ==
  ASSUME LobbyInv, InTurn, [Next]_vars
  PROVE  InTurn'
<1>1. CASE UNCHANGED vars
  <2>1. /\ Alone' = Alone /\ Seated' = Seated /\ Presided' = Presided
        /\ \A t \in Tasks : Fitting(t)' = Fitting(t)
    BY <1>1 DEF vars, Alone, Seated, Presided, Fitting, At
  <2> QED BY <1>1, <2>1 DEF vars, InTurn
<1>2. ASSUME NEW t \in Tasks, Fail(t) PROVE InTurn'
  <2>1. failures' # 0
    BY <1>2, LobbyAssumption DEF Fail, LobbyInv, TypeOK
  <2> QED BY <2>1 DEF InTurn
<1>3. CASE MarkFinished
  <2>1. /\ room # NoRoom /\ room' = [room EXCEPT !.status = "finished"]
        /\ UNCHANGED <<task, joins, failures, overlapped>>
    BY <1>3 DEF MarkFinished, MaySetStatus
  <2>2. room'.members = room.members /\ room'.host = room.host /\ room'.hosts = room.hosts
    BY <2>1, RoomHas DEF Room, LobbyInv
  <2>3. /\ Alone' = Alone /\ Seated' = Seated /\ Presided' = Presided
        /\ \A t \in Tasks : Fitting(t)' = Fitting(t)
    BY <2>1, <2>2 DEF Alone, Seated, Presided, Fitting, At
  <2> QED BY <2>1, <2>2, <2>3 DEF InTurn
<1> QED BY <1>1, <1>2, <1>3, RequestInTurn, ProceedInTurn DEF Next

\* As long as requests come one at a time and none dies, the host between them is
\* the member who joined first, for any number of users (leave, kick, AfterLeave).
THEOREM HostInOrder == Spec => []OrderlyHost
<1>1. InTurn => OrderlyHost
  <2> SUFFICES ASSUME InTurn, ~overlapped, failures = 0, Idle, room # NoRoom PROVE Presided
    BY DEF OrderlyHost, HostIsEarliest, Presided
  <2>1. \A t \in Tasks : task[t].step \notin Changing
    BY DEF Idle, NoTask, Changing
  <2> QED BY <2>1 DEF InTurn
<1>2. InTurn /\ LobbyInv /\ [Next]_vars => InTurn'
  BY NextInTurn
<1> QED BY <1>1, <1>2, InitInTurn, LobbySafe, PTL DEF Spec
=============================================================================
