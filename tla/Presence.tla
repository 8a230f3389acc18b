------------------------------ MODULE Presence ------------------------------
(***************************************************************************)
(* Who is connected to a room, and what becomes of members who are not:    *)
(* the endpoint of a connection with its three loops and its bounded send  *)
(* queue (gateway/router.py, connection.py, backpressure.py), and the      *)
(* removal, after a grace period, of a member of a waiting room whose last *)
(* connection has gone.  One process, as deployed.                         *)
(*                                                                         *)
(* The coroutines of the process interleave at their awaits.  Time is the  *)
(* order of events: a timer may expire at any moment after it was set.     *)
(* What the messages say is left out, and so are the steps inside a leave  *)
(* (SessionLobby has them).                                                *)
(***************************************************************************)
EXTENDS Naturals, FiniteSets, Sequences, Functions

CONSTANTS
  Users,
  Conns,       \* connections
  Owner,       \* the user of a connection
  QueueSize,   \* WS_SEND_QUEUE_MAX_SIZE
  MaxFailures  \* bound on calls that raise and on restarts

ASSUME PresenceAssumption ==
  /\ Owner \in [Conns -> Users]
  /\ QueueSize \in Nat \ {0} /\ MaxFailures \in Nat

VARIABLES
  member,    \* the users the room has
  status,    \* of the room
  removal,   \* the user's entry in _pending_removals, and how far its task is
  orphan,    \* a cancelled task had already sent the user's removal
  phase,     \* of a connection's endpoint
  socket,    \* of a connection
  queue,     \* its SendQueue
  loops,     \* its loops that have not returned
  stop,      \* its _stop event
  failures,  \* how many failures so far
  came,      \* history: a connection was registered during this membership
  seen       \* history: a connection came since the removal's timer was set

room  == <<member, status>>
task  == <<removal, orphan>>
conn  == <<phase, socket, queue, loops, stop>>
vars  == <<room, task, conn, failures, came, seen>>

Phases   == {"off", "accepting", "setting", "running", "unregistered", "ghost"}
Sockets  == {"none", "open", "mute", "gone", "closed"}
AllLoops == {"send", "recv", "beat"}
Frame    == "frame"
Sentinel == "sentinel"

\* Between register and unregister; a ghost has nobody to unregister it.
Registered == {"setting", "running", "ghost"}

\* Somebody will run the endpoint's tear-down.
Attended == {"setting", "running", "unregistered"}

ConnsOf(u)  == {c \in Conns : Owner[c] = u}
Locals(u)   == {c \in ConnsOf(u) : phase[c] \in Registered}
Attending(u) == {c \in ConnsOf(u) : phase[c] \in Attended}

Init ==
  /\ member = [u \in Users |-> TRUE] /\ status = "waiting"
  /\ removal = [u \in Users |-> "none"] /\ orphan = [u \in Users |-> FALSE]
  /\ phase = [c \in Conns |-> "off"] /\ socket = [c \in Conns |-> "none"]
  /\ queue = [c \in Conns |-> << >>] /\ loops = [c \in Conns |-> {}]
  /\ stop = [c \in Conns |-> FALSE]
  /\ failures = 0
  /\ came = [u \in Users |-> FALSE] /\ seen = [u \in Users |-> FALSE]

Fails == failures < MaxFailures /\ failures' = failures + 1

-----------------------------------------------------------------------------
(* The room, by REST.                                                      *)

Join(u) ==
  /\ ~member[u] /\ status = "waiting"
  /\ member' = [member EXCEPT ![u] = TRUE]
  /\ came' = [came EXCEPT ![u] = Locals(u) # {}]
  /\ UNCHANGED <<status, task, conn, failures, seen>>

\* At any status; an open connection stays open.
LeaveRoom(u) ==
  /\ member[u]
  /\ member' = [member EXCEPT ![u] = FALSE]
  /\ UNCHANGED <<status, task, conn, failures, came, seen>>

StartGame ==
  /\ status = "waiting" /\ status' = "in_progress"
  /\ UNCHANGED <<member, task, conn, failures, came, seen>>

-----------------------------------------------------------------------------
(* Set-up: only members are accepted; what follows register is outside the *)
(* try whose finally tears down.                                           *)

Accept(c) ==
  /\ phase[c] = "off" /\ member[Owner[c]]
  /\ phase' = [phase EXCEPT ![c] = "accepting"]
  /\ socket' = [socket EXCEPT ![c] = "open"]
  /\ UNCHANGED <<room, task, queue, loops, stop, failures, came, seen>>

Come(c) ==
  /\ phase[c] = "accepting"
  /\ phase' = [phase EXCEPT ![c] = "setting"]
  /\ came' = [came EXCEPT ![Owner[c]] = TRUE]
  /\ seen' = [seen EXCEPT ![Owner[c]] = TRUE]
  /\ UNCHANGED <<room, socket, queue, loops, stop, failures>>

\* A mutant: the pending removal is left to its own check.
RegisterOnly(c) == Come(c) /\ UNCHANGED task

\* The removal is cancelled; if its leave was on the way, that may still land.
Register(c) ==
  LET u == Owner[c] IN
  /\ Come(c)
  /\ removal' = [removal EXCEPT ![u] = "none"]
  /\ \/ orphan' = orphan
     \/ removal[u] = "leaving" /\ orphan' = [orphan EXCEPT ![u] = TRUE]

\* subscribe, current_seq, welcome and snapshot are over: Connection.run.
SetUp(c) ==
  /\ phase[c] = "setting"
  /\ phase' = [phase EXCEPT ![c] = "running"]
  /\ loops' = [loops EXCEPT ![c] = AllLoops]
  /\ UNCHANGED <<room, task, socket, queue, stop, failures, came, seen>>

SetUpFails(c) ==
  /\ phase[c] = "setting" /\ Fails
  /\ phase' = [phase EXCEPT ![c] = "ghost"]
  /\ socket' = [socket EXCEPT ![c] = "closed"]
  /\ UNCHANGED <<room, task, queue, loops, stop, came, seen>>

-----------------------------------------------------------------------------
(* The socket and the loops.                                               *)

\* The client closes, or falls silent without closing.
Vanish(c) ==
  /\ socket[c] = "open"
  /\ \E s \in {"gone", "mute"} : socket' = [socket EXCEPT ![c] = s]
  /\ UNCHANGED <<room, task, phase, queue, loops, stop, failures, came, seen>>

Full(c) == Len(queue[c]) >= QueueSize

\* A mutant: the sentinel is put even into a full queue.
WithSentinelForced(c) == Append(queue[c], Sentinel)

\* put_sentinel: lost if there is no room.
WithSentinel(c) == IF Full(c) THEN queue[c] ELSE Append(queue[c], Sentinel)

\* The server closes the connection: what stays of its loops is "left".
Close(c, left) ==
  /\ stop' = [stop EXCEPT ![c] = TRUE]
  /\ queue' = [queue EXCEPT ![c] = WithSentinel(c)]
  /\ socket' = [socket EXCEPT ![c] = "closed"]
  /\ loops' = [loops EXCEPT ![c] = left]

Put(c) ==
  /\ queue' = [queue EXCEPT ![c] = Append(@, Frame)]
  /\ UNCHANGED <<stop, socket, loops>>

\* A broadcast, which a full queue turns into a close, or an answer, which a
\* full queue only loses.
Enqueue(c) ==
  /\ phase[c] \in {"setting", "running"}
  /\ IF Full(c) THEN ~stop[c] /\ Close(c, loops[c]) ELSE Put(c)
  /\ UNCHANGED <<room, task, phase, failures, came, seen>>

\* A ping is due.
Ping(c) ==
  /\ "beat" \in loops[c] /\ ~stop[c]
  /\ IF Full(c) THEN Close(c, loops[c] \ {"beat"}) ELSE Put(c)
  /\ UNCHANGED <<room, task, phase, failures, came, seen>>

\* A mutant: the heartbeat gives up without closing the connection.
PongMissingUnclosed(c) ==
  /\ "beat" \in loops[c] /\ ~stop[c] /\ socket[c] \in {"open", "mute"}
  /\ loops' = [loops EXCEPT ![c] = @ \ {"beat"}]
  /\ UNCHANGED <<room, task, phase, socket, queue, stop, failures, came, seen>>

\* The last pong is too old.
PongMissing(c) ==
  /\ "beat" \in loops[c] /\ ~stop[c] /\ socket[c] \in {"open", "mute"}
  /\ Close(c, loops[c] \ {"beat"})
  /\ UNCHANGED <<room, task, phase, failures, came, seen>>

BeatStops(c) ==
  /\ "beat" \in loops[c] /\ stop[c]
  /\ loops' = [loops EXCEPT ![c] = @ \ {"beat"}]
  /\ UNCHANGED <<room, task, phase, socket, queue, stop, failures, came, seen>>

\* The task group ends with the first loop that raises, the others cancelled.
Send(c) ==
  /\ "send" \in loops[c] /\ queue[c] # << >>
  /\ queue' = [queue EXCEPT ![c] = Tail(@)]
  /\ loops' = [loops EXCEPT ![c] =
                CASE Head(queue[c]) = Sentinel         -> @ \ {"send"}
                  [] socket[c] \in {"gone", "closed"}  -> {}
                  [] OTHER                             -> @]
  /\ UNCHANGED <<room, task, phase, socket, stop, failures, came, seen>>

\* A mutant: nobody wakes the send loop.
HangUpQuietly(c) ==
  /\ "recv" \in loops[c] /\ socket[c] \in {"gone", "closed"}
  /\ loops' = [loops EXCEPT ![c] = @ \ {"recv"}]
  /\ stop' = [stop EXCEPT ![c] = TRUE]
  /\ UNCHANGED <<room, task, phase, socket, queue, failures, came, seen>>

\* receive_text raises: the other loops are told to wind down.
HangUp(c) ==
  /\ "recv" \in loops[c] /\ socket[c] \in {"gone", "closed"}
  /\ loops' = [loops EXCEPT ![c] = @ \ {"recv"}]
  /\ stop' = [stop EXCEPT ![c] = TRUE]
  /\ queue' = [queue EXCEPT ![c] = WithSentinel(c)]
  /\ UNCHANGED <<room, task, phase, socket, failures, came, seen>>

\* What is received is not text: neither the loop nor the dispatcher expects
\* what that raises.  An exception of a handler is answered, and ends nothing.
RecvRaises(c) ==
  /\ "recv" \in loops[c] /\ socket[c] = "open"
  /\ loops' = [loops EXCEPT ![c] = {}]
  /\ stop' = [stop EXCEPT ![c] = TRUE]
  /\ queue' = [queue EXCEPT ![c] = WithSentinel(c)]
  /\ UNCHANGED <<room, task, phase, socket, failures, came, seen>>

\* A message of another protocol version; the receive loop goes on.
WrongVersion(c) ==
  /\ "recv" \in loops[c] /\ socket[c] = "open" /\ ~stop[c]
  /\ Close(c, loops[c])
  /\ UNCHANGED <<room, task, phase, failures, came, seen>>

-----------------------------------------------------------------------------
(* Tear-down.                                                              *)

Unregister(c) ==
  /\ phase[c] = "running" /\ loops[c] = {}
  /\ phase' = [phase EXCEPT ![c] = "unregistered"]
  /\ socket' = [socket EXCEPT ![c] = "closed"]
  /\ queue' = [queue EXCEPT ![c] = << >>]
  /\ stop' = [stop EXCEPT ![c] = TRUE]
  /\ UNCHANGED <<room, task, loops, failures, came, seen>>

Off(c) ==
  /\ phase' = [phase EXCEPT ![c] = "off"]
  /\ socket' = [socket EXCEPT ![c] = "none"]
  /\ stop' = [stop EXCEPT ![c] = FALSE]
  /\ UNCHANGED <<room, queue, loops, orphan, came>>

\* A mutant: it is called before unregister, and so finds the connection itself.
ScheduleTooEarly(c) ==
  LET u == Owner[c] IN
  /\ phase[c] = "unregistered"
  /\ IF Locals(u) \cup {c} = {} /\ removal[u] = "none"
       THEN /\ removal' = [removal EXCEPT ![u] = "grace"]
            /\ seen' = [seen EXCEPT ![u] = FALSE]
       ELSE UNCHANGED <<removal, seen>>
  /\ Off(c) /\ UNCHANGED failures

\* _schedule_removal, after unsubscribe.
Schedule(c) ==
  LET u == Owner[c] IN
  /\ phase[c] = "unregistered"
  /\ IF Locals(u) = {} /\ removal[u] = "none"
       THEN /\ removal' = [removal EXCEPT ![u] = "grace"]
            /\ seen' = [seen EXCEPT ![u] = FALSE]
       ELSE UNCHANGED <<removal, seen>>
  /\ Off(c) /\ UNCHANGED failures

\* unsubscribe raises, and nothing is scheduled.
UnsubscribeFails(c) ==
  /\ phase[c] = "unregistered" /\ Fails
  /\ Off(c) /\ UNCHANGED <<removal, seen>>

-----------------------------------------------------------------------------
(* The removal task.                                                       *)

GraceEnds(u) ==
  /\ removal[u] = "grace"
  /\ removal' = [removal EXCEPT ![u] = IF Locals(u) = {} THEN "checking" ELSE "none"]
  /\ UNCHANGED <<room, orphan, conn, failures, came, seen>>

CheckMember(u) ==
  /\ removal[u] = "checking"
  /\ removal' = [removal EXCEPT ![u] =
                  IF member[u] /\ status = "waiting" THEN "leaving" ELSE "none"]
  /\ UNCHANGED <<room, orphan, conn, failures, came, seen>>

\* leave does not look at the status again.  Those who are left, if any, are told,
\* and until they are the user's entry is still there.
Evict(u) ==
  /\ removal[u] = "leaving"
  /\ member' = [member EXCEPT ![u] = FALSE]
  /\ \E then \in {"telling", "none"} : removal' = [removal EXCEPT ![u] = then]
  /\ UNCHANGED <<status, orphan, conn, failures, came, seen>>

\* The broadcast is over.
Told(u) ==
  /\ removal[u] = "telling"
  /\ removal' = [removal EXCEPT ![u] = "none"]
  /\ UNCHANGED <<room, orphan, conn, failures, came, seen>>

EvictFails(u) ==
  /\ removal[u] \in {"checking", "leaving", "telling"} /\ Fails
  /\ removal' = [removal EXCEPT ![u] = "none"]
  /\ UNCHANGED <<room, orphan, conn, came, seen>>

\* The leave of a cancelled task lands, or not.
OrphanLands(u) ==
  /\ orphan[u] /\ orphan' = [orphan EXCEPT ![u] = FALSE]
  /\ \E lost \in BOOLEAN : member' = [member EXCEPT ![u] = @ /\ lost]
  /\ UNCHANGED <<status, removal, conn, failures, came, seen>>

\* The process ends and is started again: connections and timers are gone.
Restart ==
  /\ Fails
  /\ removal' = [u \in Users |-> "none"]
  /\ phase' = [c \in Conns |-> "off"] /\ socket' = [c \in Conns |-> "none"]
  /\ queue' = [c \in Conns |-> << >>] /\ loops' = [c \in Conns |-> {}]
  /\ stop' = [c \in Conns |-> FALSE]
  /\ UNCHANGED <<room, orphan, came, seen>>

-----------------------------------------------------------------------------
Rest(u) == Join(u) \/ LeaveRoom(u)

Removal(u) ==
  \/ GraceEnds(u) \/ CheckMember(u) \/ Evict(u) \/ Told(u)
  \/ EvictFails(u) \/ OrphanLands(u)

Loops(c) ==
  \/ Ping(c) \/ PongMissing(c) \/ BeatStops(c)
  \/ Send(c) \/ HangUp(c) \/ RecvRaises(c) \/ WrongVersion(c)

Endpoint(c) ==
  \/ Accept(c) \/ Register(c) \/ SetUp(c) \/ SetUpFails(c)
  \/ Vanish(c) \/ Enqueue(c) \/ Loops(c)
  \/ Unregister(c) \/ Schedule(c) \/ UnsubscribeFails(c)

Next ==
  \/ \E u \in Users : Rest(u) \/ Removal(u)
  \/ \E c \in Conns : Endpoint(c)
  \/ StartGame \/ Restart

\* Coroutines that can run do, timers expire, calls are answered.  Nobody has
\* to connect, to join or to send; a send to a silent client may never return.
Fairness ==
  /\ \A c \in Conns :
       /\ WF_vars(Register(c)) /\ WF_vars(SetUp(c)) /\ WF_vars(HangUp(c)) /\ WF_vars(BeatStops(c))
       /\ WF_vars(Send(c) /\ socket[c] # "mute")
       /\ WF_vars(PongMissing(c) /\ socket[c] = "mute")
       /\ WF_vars(Unregister(c)) /\ WF_vars(Schedule(c))
  /\ \A u \in Users :
       WF_vars(GraceEnds(u)) /\ WF_vars(CheckMember(u)) /\ WF_vars(Evict(u)) /\ WF_vars(Told(u))

Spec == Init /\ [][Next]_vars /\ Fairness

-----------------------------------------------------------------------------
\* The variables have their types; a queue respects its bound, loops run only
\* in a running endpoint, and a leave is under way only for a user who had no
\* connection when its task looked (SendQueue, Connection.run, the removal).
TypeOK ==
  /\ member \in [Users -> BOOLEAN] /\ status \in {"waiting", "in_progress"}
  /\ removal \in [Users -> {"none", "grace", "checking", "leaving", "telling"}]
  /\ orphan \in [Users -> BOOLEAN]
  /\ phase \in [Conns -> Phases] /\ socket \in [Conns -> Sockets]
  /\ stop \in [Conns -> BOOLEAN]
  /\ \A c \in Conns : /\ queue[c] \in Seq({Frame, Sentinel}) /\ Len(queue[c]) <= QueueSize
                      /\ loops[c] \subseteq AllLoops
                      /\ loops[c] # {} => phase[c] = "running"
  /\ failures \in 0..MaxFailures
  /\ came \in [Users -> BOOLEAN] /\ seen \in [Users -> BOOLEAN]

\* A member of a waiting room that has been connected is never forgotten: its
\* endpoint will run its tear-down, or its removal is pending, unless a call
\* has failed or the process was restarted (the finally of ws_endpoint and
\* _schedule_removal's two early returns).
WatchedOver ==
  failures = 0 =>
    \A u \in Users : member[u] /\ status = "waiting" /\ came[u] =>
      Attending(u) # {} \/ removal[u] # "none"

\* The grace removal takes only users who stayed away for one whole grace
\* period, however often they came and went before: a timer set before the
\* user last connected is never the one that removes it (_cancel_pending_removal).
WholeGraceAway ==
  [][\A u \in Users :
       (removal[u] = "leaving" /\ removal'[u] # "leaving" /\ member[u] /\ ~member'[u]) => ~seen[u]]_vars

\* A connection whose client has gone ends, with a full queue or an empty one,
\* whichever loop notices first (the sentinel, _stop and the task group).
RunEnds ==
  \A c \in Conns : (phase[c] = "running" /\ socket[c] # "open") ~> phase[c] # "running"

\* A member of a waiting room that has been connected and then stays away is
\* removed in the end, if no call fails (gateway/router.py, grace removal).
GoneAreRemoved ==
  \A u \in Users :
    <>[](ConnsOf(u) \cap {c \in Conns : phase[c] # "off" /\ socket[c] = "open"} = {} /\ failures = 0)
      => <>[](member[u] /\ came[u] => status # "waiting")
=============================================================================
