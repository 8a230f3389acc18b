---------------------------- MODULE SessionLobby ----------------------------
(***************************************************************************)
(* One room from its creation to the end of its game: the requests of      *)
(* SessionService (join, leave, kick, start), the removal of members whose *)
(* connection stays away (gateway/router.py) and the end of the game.      *)
(*                                                                         *)
(* A request is a task that reads the room, decides, and then updates the  *)
(* document in one or more atomic steps; tasks interleave between any two  *)
(* of them, and a task may die on the way.  Invite codes, visibility,      *)
(* display names and ratings are left out.                                 *)
(***************************************************************************)
EXTENDS Naturals, FiniteSets, Functions

CONSTANTS
  Users,        \* those who may ask for something
  Creator,      \* the user whose request created the room
  MaxPlayers,   \* max_players of the room's game mode
  Tasks,        \* requests that may be under way at the same time
  MaxJoins,     \* bound on joins begun
  MaxFailures   \* bound on tasks that die

NoRoom == [status |-> "deleted"]
NoGame == [none |-> TRUE]
NoTask == [step |-> "idle"]

ASSUME LobbyAssumption ==
  /\ IsFiniteSet(Users) /\ Creator \in Users
  /\ MaxPlayers \in Nat \ {0}
  /\ MaxJoins \in Nat /\ MaxFailures \in Nat

VARIABLES
  room,       \* the session document, or NoRoom once it is deleted; hosts are its
              \* members with the role host, host its host_user_id
  game,       \* the members a game was created for, or NoGame
  task,       \* what each request does next and what it remembers
  joins,      \* the clock: joins begun so far
  failures,   \* tasks that have died
  overlapped  \* whether two requests were ever under way together
vars == <<room, game, task, joins, failures, overlapped>>

Statuses == {"waiting", "in_progress", "finished"}

\* joined_at of each member; no list, stored or remembered, exceeds max_players.
Parties == {S \in SUBSET Users : Cardinality(S) <= MaxPlayers}
Members == UNION {[S -> 0 .. MaxJoins] : S \in Parties}
Room == [status : Statuses, host : Users, hosts : SUBSET Users, members : Members]
Task ==
  [step : {"join"}, user : Users, joined : 1 .. MaxJoins]
    \cup [step : {"grace", "leave", "kick", "elect"}, user : Users]
    \cup [step : {"rehost"}, user : Users, members : Members]
    \cup [step : {"delete", "start"}]
    \cup [step : {"deal", "insert"}, members : Members]

TypeOK ==
  /\ room \in Room \cup {NoRoom}
  /\ game \in [roster : Parties] \cup {NoGame}
  /\ task \in [Tasks -> Task \cup {NoTask}]
  /\ joins \in 0 .. MaxJoins
  /\ failures \in 0 .. MaxFailures
  /\ overlapped \in BOOLEAN

Seated == DOMAIN room.members
Waiting == room.status = "waiting"
Idle == \A t \in Tasks : task[t] = NoTask

Init ==
  /\ room = [status |-> "waiting", host |-> Creator, hosts |-> {Creator},
             members |-> [u \in {Creator} |-> 0]]
  /\ game = NoGame
  /\ task = [t \in Tasks |-> NoTask]
  /\ joins = 0
  /\ failures = 0
  /\ overlapped = FALSE

\* A request passes its checks and goes on as the task what.
Begin(t, what) ==
  /\ task[t] = NoTask
  /\ task' = [task EXCEPT ![t] = what]
  /\ overlapped' = (overlapped \/ ~Idle)
  /\ UNCHANGED <<room, game, failures>>

At(t, step) == task[t].step = step

\* The task t, at the step given, goes on as the task what.
Continue(t, step, what) ==
  /\ At(t, step)
  /\ task' = [task EXCEPT ![t] = what]
  /\ UNCHANGED <<joins, failures, overlapped>>

Stop(t, step) == Continue(t, step, NoTask)
Untouched == UNCHANGED <<room, game>>

-----------------------------------------------------------------------------
(***************************************************************************)
(* Join                                                                    *)
(***************************************************************************)

\* A member that joins again is answered with the room as it is.
BeginJoin(t, u) ==
  /\ room # NoRoom
  /\ u \notin Seated
  /\ Waiting
  /\ Cardinality(Seated) < MaxPlayers
  /\ joins < MaxJoins
  /\ joins' = joins + 1
  /\ Begin(t, [step |-> "join", user |-> u, joined |-> joins + 1])

\* Mutant: the size is left to the check made before.
MayAddUnbounded(u) == room # NoRoom /\ Waiting /\ u \notin Seated

\* The filter of add_member.
MayAdd(u) ==
  /\ room # NoRoom
  /\ Waiting
  /\ u \notin Seated
  /\ Cardinality(Seated) < MaxPlayers

AddMember(t) ==
  /\ Stop(t, "join")
  /\ MayAdd(task[t].user)
  /\ room' = [room EXCEPT !.members =
                [u \in Seated \cup {task[t].user} |->
                   IF u \in Seated THEN room.members[u] ELSE task[t].joined]]
  /\ UNCHANGED game

AddRefused(t) ==
  /\ Stop(t, "join")
  /\ ~MayAdd(task[t].user)
  /\ Untouched

-----------------------------------------------------------------------------
(***************************************************************************)
(* Leave: take the member out, then delete an empty room or name an heir   *)
(***************************************************************************)

BeginLeave(t, u) ==
  /\ room # NoRoom
  /\ u \in Seated
  /\ Begin(t, [step |-> "leave", user |-> u])
  /\ UNCHANGED joins

\* A member whose connection stayed away is removed, if the room is waiting...
BeginGrace(t, u) ==
  /\ room # NoRoom
  /\ u \in Seated
  /\ Waiting
  /\ Begin(t, [step |-> "grace", user |-> u])
  /\ UNCHANGED joins

\* ... by a leave, which reads the room again and does not look at its status.
GraceLeave(t) ==
  /\ room # NoRoom /\ At(t, "grace")
  /\ task[t].user \in Seated
  /\ Continue(t, "grace", [step |-> "leave", user |-> task[t].user])
  /\ Untouched

GraceOver(t) ==
  /\ Stop(t, "grace")
  /\ room # NoRoom => task[t].user \notin Seated
  /\ Untouched

\* A member goes with its role; host_user_id stays what it is.
Without(u) ==
  [room EXCEPT !.members = Restrict(@, Seated \ {u}), !.hosts = @ \ {u}]

\* Mutant: the last one in inherits the room.
HeirLatest(members) ==
  CHOOSE u \in DOMAIN members : \A v \in DOMAIN members : members[u] >= members[v]

\* The member who joined first.
Heir(members) ==
  CHOOSE u \in DOMAIN members : \A v \in DOMAIN members : members[u] <= members[v]

\* What a leave does once the room is left as after.
AfterLeave(u, after) ==
  IF DOMAIN after.members = {} THEN [step |-> "delete"]
  ELSE IF after.host = u THEN [step |-> "elect", user |-> Heir(after.members)]
  ELSE NoTask

RemoveMember(t) ==
  /\ room # NoRoom /\ At(t, "leave")
  /\ room' = Without(task[t].user)
  /\ Continue(t, "leave", AfterLeave(task[t].user, room'))
  /\ UNCHANGED game

\* The room was empty when the last member had left; it need not be any more.
DeleteRoom(t) ==
  /\ Stop(t, "delete")
  /\ room' = NoRoom
  /\ UNCHANGED game

\* update_host_and_member_role reads the members ...
ReadMembers(t) ==
  /\ room # NoRoom /\ At(t, "elect")
  /\ Continue(t, "elect", [step |-> "rehost", user |-> task[t].user,
                           members |-> room.members])
  /\ Untouched

\* ... and writes the whole list back, the heir as host.  An heir that is not on the
\* list gets no role, and is host_user_id all the same.
UpdateHost(t) ==
  /\ room # NoRoom /\ At(t, "rehost")
  /\ room' = [room EXCEPT !.host = task[t].user, !.members = task[t].members,
                          !.hosts = {task[t].user} \cap DOMAIN task[t].members]
  /\ Stop(t, "rehost")
  /\ UNCHANGED game

-----------------------------------------------------------------------------
(***************************************************************************)
(* Kick and start, by the host of a waiting room                           *)
(***************************************************************************)

\* is_host looks at the caller's role, and not at host_user_id.
IsHost(u) == u \in Seated /\ u \in room.hosts

BeginKick(t, h, u) ==
  /\ room # NoRoom
  /\ IsHost(h)
  /\ h # u
  /\ u \in Seated
  /\ Waiting
  /\ Begin(t, [step |-> "kick", user |-> u])
  /\ UNCHANGED joins

KickMember(t) ==
  /\ room # NoRoom /\ At(t, "kick")
  /\ room' = Without(task[t].user)
  /\ Stop(t, "kick")
  /\ UNCHANGED game

BeginStart(t, h) ==
  /\ room # NoRoom
  /\ IsHost(h)
  /\ Waiting
  /\ Begin(t, [step |-> "start"])
  /\ UNCHANGED joins

\* Mutant: the status is left to the check made before.
MaySetStatusAny(expected) == room # NoRoom

\* The filter of set_status.
MaySetStatus(expected) == room # NoRoom /\ room.status = expected

SetInProgress(t) ==
  /\ At(t, "start")
  /\ MaySetStatus("waiting")
  /\ room' = [room EXCEPT !.status = "in_progress"]
  /\ Continue(t, "start", [step |-> "deal", members |-> room.members])
  /\ UNCHANGED game

StartRefused(t) ==
  /\ Stop(t, "start")
  /\ ~MaySetStatus("waiting")
  /\ Untouched

\* start_game: no game of this session yet (a second start never gets this far,
\* OneStartWins, so its answer with the game that exists is not modelled) ...
FindNoGame(t) ==
  /\ At(t, "deal")
  /\ game = NoGame
  /\ Continue(t, "deal", [step |-> "insert", members |-> task[t].members])
  /\ Untouched

\* ... so one is created for the members read with the status.
InsertGame(t) ==
  /\ Stop(t, "insert")
  /\ game' = [roster |-> DOMAIN task[t].members]
  /\ UNCHANGED room

-----------------------------------------------------------------------------
\* Any later step of a leave, kick or rehost finds that the room is gone.
RoomGone(t) ==
  /\ room = NoRoom
  /\ \E step \in {"leave", "elect", "rehost", "kick"} : Stop(t, step)
  /\ Untouched

\* mark_finished, by whoever commits the end of the game (GameStore).
MarkFinished ==
  /\ game # NoGame
  /\ MaySetStatus("in_progress")
  /\ room' = [room EXCEPT !.status = "finished"]
  /\ UNCHANGED <<game, task, joins, failures, overlapped>>

\* The task dies: an exception, a closed connection, a crash.
Fail(t) ==
  /\ task[t] # NoTask
  /\ failures < MaxFailures
  /\ failures' = failures + 1
  /\ task' = [task EXCEPT ![t] = NoTask]
  /\ UNCHANGED <<room, game, joins, overlapped>>

Request(t) ==
  \E u \in Users :
    \/ BeginJoin(t, u) \/ BeginLeave(t, u) \/ BeginGrace(t, u) \/ BeginStart(t, u)
    \/ \E v \in Users : BeginKick(t, u, v)

Proceed(t) ==
  \/ AddMember(t) \/ AddRefused(t)
  \/ GraceLeave(t) \/ GraceOver(t)
  \/ RemoveMember(t) \/ DeleteRoom(t) \/ ReadMembers(t) \/ UpdateHost(t)
  \/ KickMember(t)
  \/ SetInProgress(t) \/ StartRefused(t) \/ FindNoGame(t) \/ InsertGame(t)
  \/ RoomGone(t)

Next ==
  \/ \E t \in Tasks : Request(t) \/ Proceed(t) \/ Fail(t)
  \/ MarkFinished

Spec == Init /\ [][Next]_vars

-----------------------------------------------------------------------------
(***************************************************************************)
(* Properties                                                              *)
(***************************************************************************)

\* However joins, leaves and the rewriting of the members by a change of host
\* interleave, a room and its game never hold more than max_players.
RoomBound ==
  /\ room # NoRoom => Cardinality(Seated) <= MaxPlayers
  /\ game # NoGame => Cardinality(game.roster) <= MaxPlayers

\* A room goes from waiting to in_progress to finished, never back or past one,
\* also when requests act on a status that is stale; rehosting keeps it.
StatusForward ==
  [][room' # NoRoom /\ room'.status # room.status
     => \/ room.status = "waiting" /\ room'.status = "in_progress"
        \/ room.status = "in_progress" /\ room'.status = "finished"]_room

\* Of all the starts that passed their checks at most one gets to create a game,
\* and what the game was created for never changes.
OneStartWins ==
  /\ \A t1, t2 \in Tasks :
       task[t1].step \in {"deal", "insert"} /\ task[t2].step \in {"deal", "insert"}
       => t1 = t2
  /\ game # NoGame => \A t \in Tasks : task[t].step \notin {"deal", "insert"}

\* sessions-and-realtime.md:236: "If the host leaves, the earliest remaining member
\* becomes host. If the room is empty, it is deleted."  Between requests the
\* member who joined first is host by name and by role, and nobody else is ...
HostIsEarliest ==
  Idle /\ room # NoRoom =>
    /\ room.host \in Seated /\ room.hosts = {room.host}
    /\ \A u \in Seated : room.members[room.host] <= room.members[u]

\* ... as long as requests come one at a time and none dies.
OrderlyHost == ~overlapped /\ failures = 0 => HostIsEarliest
=============================================================================
