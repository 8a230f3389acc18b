-------------------------- MODULE Presence_proofs --------------------------
(***************************************************************************)
(* Type correctness, WatchedOver and WholeGraceAway of Presence, for any   *)
(* number of users and connections, any queue and any number of failures.  *)
(***************************************************************************)
EXTENDS Presence, TLAPS, SequenceTheorems

-----------------------------------------------------------------------------
(* Types.                                                                  *)

\* A connection's own variables keep their types when one connection changes.
ConnTypes ==
  /\ phase \in [Conns -> Phases] /\ socket \in [Conns -> Sockets]
  /\ stop \in [Conns -> BOOLEAN]
  /\ queue \in [Conns -> Seq({Frame, Sentinel})] /\ loops \in [Conns -> SUBSET AllLoops]
  /\ \A c \in Conns : /\ Len(queue[c]) <= QueueSize
                      /\ loops[c] # {} => phase[c] = "running"

UserTypes ==
  /\ member \in [Users -> BOOLEAN] /\ status \in {"waiting", "in_progress"}
  /\ removal \in [Users -> {"none", "grace", "checking", "leaving", "telling"}]
  /\ orphan \in [Users -> BOOLEAN]
  /\ failures \in 0..MaxFailures
  /\ came \in [Users -> BOOLEAN] /\ seen \in [Users -> BOOLEAN]

\* What the users' variables and the connections' have to satisfy.
Typed == UserTypes /\ ConnTypes

\* Together they are the type invariant the runs check.
LEMMA TypedIsTypeOK == Typed => TypeOK
BY DEF Typed, UserTypes, ConnTypes, TypeOK

\* put and put_sentinel keep a queue within its bound.
LEMMA QueueBounded ==
  ASSUME NEW q \in Seq({Frame, Sentinel}), Len(q) <= QueueSize, NEW x \in {Frame, Sentinel}
  PROVE  /\ Len(q) < QueueSize => /\ Append(q, x) \in Seq({Frame, Sentinel})
                                  /\ Len(Append(q, x)) <= QueueSize
         /\ q # << >> => /\ Tail(q) \in Seq({Frame, Sentinel})
                         /\ Len(Tail(q)) <= QueueSize
<1>1. Len(q) \in Nat /\ QueueSize \in Nat
  BY PresenceAssumption
<1>2. Append(q, x) \in Seq({Frame, Sentinel}) /\ Len(Append(q, x)) = Len(q) + 1
  OBVIOUS
<1>3. q # << >> => Tail(q) \in Seq({Frame, Sentinel}) /\ Len(Tail(q)) = Len(q) - 1
  OBVIOUS
<1> QED BY <1>1, <1>2, <1>3

\* What a call of close, or of put, leaves in one connection.
LEMMA CloseTyped ==
  ASSUME Typed, NEW c \in Conns, NEW left \in SUBSET loops[c], Close(c, left), UNCHANGED phase
  PROVE  ConnTypes'
<1>1. WithSentinel(c) \in Seq({Frame, Sentinel}) /\ Len(WithSentinel(c)) <= QueueSize
  <2>1. CASE Full(c)
    BY <2>1 DEF Typed, ConnTypes, WithSentinel
  <2>2. CASE ~Full(c)
    <3>1. Len(queue[c]) < QueueSize
      BY <2>2, PresenceAssumption DEF Full, Typed, ConnTypes
    <3> QED BY <2>2, <3>1, QueueBounded DEF Typed, ConnTypes, WithSentinel
  <2> QED BY <2>1, <2>2
<1>2. left \in SUBSET AllLoops /\ (left # {} => phase[c] = "running")
  BY DEF Typed, ConnTypes
<1> QED BY <1>1, <1>2 DEF Typed, ConnTypes, Close, Sockets

\* A frame put into a queue that is not full keeps the types.
LEMMA PutTyped ==
  ASSUME Typed, NEW c \in Conns, ~Full(c), Put(c), UNCHANGED phase
  PROVE  ConnTypes'
<1>1. Len(queue[c]) < QueueSize
  BY PresenceAssumption DEF Full, Typed, ConnTypes
<1>2. Append(queue[c], Frame) \in Seq({Frame, Sentinel}) /\ Len(Append(queue[c], Frame)) <= QueueSize
  BY <1>1, QueueBounded DEF Typed, ConnTypes
<1> QED BY <1>2 DEF Typed, ConnTypes, Put

\* Every step keeps the types.
LEMMA TypedStep == Typed /\ [Next]_vars => Typed'
<1> SUFFICES ASSUME Typed, [Next]_vars PROVE Typed'
  OBVIOUS
<1> USE PresenceAssumption
<1>1. CASE UNCHANGED vars
  BY <1>1 DEF vars, room, task, conn, Typed, UserTypes, ConnTypes
<1>2. ASSUME NEW u \in Users, Rest(u) PROVE Typed'
  BY <1>2 DEF Rest, Join, LeaveRoom, task, conn, Typed, UserTypes, ConnTypes
<1>3. ASSUME NEW u \in Users, Removal(u) PROVE Typed'
  <2>1. ConnTypes'
    BY <1>3 DEF Removal, GraceEnds, CheckMember, Evict, Told, EvictFails, OrphanLands, conn, Typed, ConnTypes
  <2>2. CASE GraceEnds(u)
    BY <2>1, <2>2 DEF GraceEnds, room, Typed, UserTypes
  <2>3. CASE CheckMember(u)
    BY <2>1, <2>3 DEF CheckMember, room, Typed, UserTypes
  <2>4. CASE Evict(u)
    BY <2>1, <2>4 DEF Evict, Typed, UserTypes
  <2>5. CASE EvictFails(u)
    BY <2>1, <2>5 DEF EvictFails, Fails, room, Typed, UserTypes
  <2>6. CASE OrphanLands(u)
    BY <2>1, <2>6 DEF OrphanLands, Typed, UserTypes
  <2>7. CASE Told(u)
    BY <2>1, <2>7 DEF Told, room, Typed, UserTypes
  <2> QED BY <1>3, <2>2, <2>3, <2>4, <2>5, <2>6, <2>7 DEF Removal
<1>4. CASE StartGame
  BY <1>4 DEF StartGame, task, conn, Typed, UserTypes, ConnTypes
<1>5. CASE Restart
  <2>1. UserTypes'
    BY <1>5 DEF Restart, Fails, room, Typed, UserTypes
  <2>2. << >> \in Seq({Frame, Sentinel}) /\ Len(<< >>) = 0
    OBVIOUS
  <2>3. ConnTypes'
    BY <1>5, <2>2 DEF Restart, Typed, ConnTypes, Phases, Sockets
  <2> QED BY <2>1, <2>3 DEF Typed
<1>6. ASSUME NEW c \in Conns, Endpoint(c) PROVE Typed'
  <2> Owner[c] \in Users
    OBVIOUS
  <2>1. CASE Accept(c)
    BY <2>1 DEF Accept, room, task, Typed, UserTypes, ConnTypes, Phases, Sockets
  <2>2. CASE Register(c)
    BY <2>2 DEF Register, Come, room, Typed, UserTypes, ConnTypes, Phases
  <2>3. CASE SetUp(c)
    BY <2>3 DEF SetUp, room, task, Typed, UserTypes, ConnTypes, Phases
  <2>4. CASE SetUpFails(c)
    <3>1. loops[c] = {}
      BY <2>4 DEF SetUpFails, Typed, ConnTypes
    <3> QED BY <2>4, <3>1 DEF SetUpFails, Fails, room, task, Typed, UserTypes, ConnTypes, Phases, Sockets
  <2>5. CASE Vanish(c)
    BY <2>5 DEF Vanish, room, task, Typed, UserTypes, ConnTypes, Sockets
  <2>6. CASE Enqueue(c)
    <3>1. UserTypes'
      BY <2>6 DEF Enqueue, room, task, Typed, UserTypes
    <3>2. ConnTypes'
      BY <2>6, CloseTyped, PutTyped DEF Enqueue
    <3> QED BY <3>1, <3>2 DEF Typed
  <2>7. CASE Loops(c)
    <3>1. UserTypes'
      BY <2>7 DEF Loops, Ping, PongMissing, BeatStops, Send, HangUp, RecvRaises, WrongVersion, room, task, Typed, UserTypes
    <3>2. WithSentinel(c) \in Seq({Frame, Sentinel}) /\ Len(WithSentinel(c)) <= QueueSize
      <4>1. CASE Full(c)
        BY <4>1 DEF Typed, ConnTypes, WithSentinel
      <4>2. CASE ~Full(c)
        <5>1. Len(queue[c]) < QueueSize
          BY <4>2 DEF Full, Typed, ConnTypes
        <5> QED BY <4>2, <5>1, QueueBounded DEF Typed, ConnTypes, WithSentinel
      <4> QED BY <4>1, <4>2
    <3>3. ASSUME Ping(c) PROVE ConnTypes'
      BY <3>3, CloseTyped, PutTyped DEF Ping
    <3>4. ASSUME PongMissing(c) PROVE ConnTypes'
      BY <3>4, CloseTyped DEF PongMissing
    <3>5. ASSUME BeatStops(c) PROVE ConnTypes'
      BY <3>5 DEF BeatStops, Typed, ConnTypes
    <3>6. ASSUME Send(c) PROVE ConnTypes'
      <4>1. Tail(queue[c]) \in Seq({Frame, Sentinel}) /\ Len(Tail(queue[c])) <= QueueSize
        BY <3>6, QueueBounded DEF Send, Typed, ConnTypes
      <4>2. loops'[c] \subseteq loops[c] /\ loops' = [loops EXCEPT ![c] = loops'[c]]
        BY <3>6 DEF Send, Typed, ConnTypes
      <4> QED BY <3>6, <4>1, <4>2 DEF Send, Typed, ConnTypes
    <3>7. ASSUME HangUp(c) PROVE ConnTypes'
      BY <3>2, <3>7 DEF HangUp, Typed, ConnTypes
    <3>8. ASSUME RecvRaises(c) PROVE ConnTypes'
      BY <3>2, <3>8 DEF RecvRaises, Typed, ConnTypes
    <3>9. ASSUME WrongVersion(c) PROVE ConnTypes'
      BY <3>9, CloseTyped DEF WrongVersion
    <3>10. ConnTypes'
      BY <2>7, <3>3, <3>4, <3>5, <3>6, <3>7, <3>8, <3>9 DEF Loops
    <3> QED BY <3>1, <3>10 DEF Typed
  <2>8. CASE Unregister(c)
    <3>1. << >> \in Seq({Frame, Sentinel}) /\ Len(<< >>) = 0
      OBVIOUS
    <3> QED BY <2>8, <3>1 DEF Unregister, room, task, Typed, UserTypes, ConnTypes, Phases, Sockets
  <2>9. CASE Schedule(c) \/ UnsubscribeFails(c)
    <3>1. loops[c] = {}
      BY <2>9 DEF Schedule, UnsubscribeFails, Typed, ConnTypes
    <3>2. ConnTypes'
      BY <2>9, <3>1 DEF Schedule, UnsubscribeFails, Off, room, Typed, ConnTypes, Phases, Sockets
    <3>3. ASSUME Schedule(c) PROVE UserTypes'
      BY <3>3 DEF Schedule, Off, room, Typed, UserTypes
    <3>4. ASSUME UnsubscribeFails(c) PROVE UserTypes'
      BY <3>4 DEF UnsubscribeFails, Off, Fails, room, Typed, UserTypes
    <3> QED BY <2>9, <3>2, <3>3, <3>4 DEF Typed
  <2> QED BY <1>6, <2>1, <2>2, <2>3, <2>4, <2>5, <2>6, <2>7, <2>8, <2>9 DEF Endpoint
<1> QED BY <1>1, <1>2, <1>3, <1>4, <1>5, <1>6 DEF Next

-----------------------------------------------------------------------------
(* Who is watched over.                                                    *)

\* A ghost is left by a failing set-up only.
NoGhosts == failures = 0 => \A c \in Conns : phase[c] # "ghost"

\* A timer that is running was set after the user's last connection.
FreshTimers == \A u \in Users : removal[u] # "none" => ~seen[u]

\* Whoever has a removal pending has no connection: registering one cancels it.
Alone == \A u \in Users : removal[u] # "none" => Locals(u) = {}

\* While the others are told of a removal, its user is out of the room, or came back
\* to it without a connection.
Over == \A u \in Users : removal[u] = "telling" => ~ (member[u] /\ came[u])

\* The inductive invariant.
Watch == Typed /\ NoGhosts /\ WatchedOver /\ FreshTimers /\ Alone /\ Over

\* Nobody has connected at first.
LEMMA InitWatch == Init => Watch
<1> SUFFICES ASSUME Init PROVE Watch
  OBVIOUS
<1>1. << >> \in Seq({Frame, Sentinel}) /\ Len(<< >>) = 0
  OBVIOUS
<1>2. Typed
  BY <1>1, PresenceAssumption DEF Init, Typed, UserTypes, ConnTypes, Phases, Sockets
<1> QED BY <1>2 DEF Init, Watch, NoGhosts, WatchedOver, FreshTimers, Alone, Over

\* Attending and Locals, without their sets.
LEMMA WhoIsThere ==
  ASSUME NEW u \in Users
  PROVE  /\ Attending(u) # {} <=> \E c \in Conns : Owner[c] = u /\ phase[c] \in Attended
         /\ Locals(u) # {} <=> \E c \in Conns : Owner[c] = u /\ phase[c] \in Registered
BY DEF Attending, Locals, ConnsOf

\* As long as nothing has failed, who is registered is attended.
LEMMA LocalsAttended ==
  ASSUME Typed, NoGhosts, failures = 0, NEW c \in Conns, phase[c] \in Registered
  PROVE  phase[c] \in Attended
BY DEF Typed, ConnTypes, NoGhosts, Registered, Attended, Phases

\* Failures are never forgotten.
LEMMA FailuresGrow == Typed /\ [Next]_vars /\ failures' = 0 => failures = 0 /\ UNCHANGED failures
<1> SUFFICES ASSUME Typed, [Next]_vars PROVE failures' = failures \/ failures' = failures + 1
  BY DEF Typed, UserTypes
<1> QED
  BY DEF Next, vars, Rest, Removal, Endpoint, Loops, Join, LeaveRoom, GraceEnds, CheckMember, Evict, Told, EvictFails,
         OrphanLands, StartGame, Restart, Accept, Register, Come, SetUp, SetUpFails, Vanish, Enqueue, Ping,
         PongMissing, BeatStops, Send, HangUp, RecvRaises, WrongVersion, Unregister, Schedule, UnsubscribeFails, Off, Fails

\* Steps that leave alone all that Watch is about.
LEMMA Unwatched ==
  ASSUME Watch, Typed', UNCHANGED <<phase, member, status, removal, came, seen, failures>>
  PROVE  Watch'
BY DEF Watch, NoGhosts, WatchedOver, FreshTimers, Alone, Over, Attending, Locals, ConnsOf

\* Every step keeps the watch.
LEMMA WatchStep == Watch /\ [Next]_vars => Watch'
<1> SUFFICES ASSUME Watch, [Next]_vars PROVE Watch'
  OBVIOUS
<1> USE PresenceAssumption
<1>1. Typed /\ Typed'
  BY TypedStep DEF Watch
<1>2. CASE UNCHANGED vars
  BY <1>1, <1>2, Unwatched DEF vars, room, task, conn
<1>3. ASSUME NEW u \in Users, Rest(u) PROVE Watch'
  <2>1. /\ UNCHANGED <<phase, removal, status, failures, seen>>
        /\ \/ member' = [member EXCEPT ![u] = FALSE] /\ came' = came
           \/ member' = [member EXCEPT ![u] = TRUE] /\ came' = [came EXCEPT ![u] = Locals(u) # {}]
    BY <1>3 DEF Rest, Join, LeaveRoom, task, conn
  <2>2. \A v \in Users : Attending(v)' = Attending(v) /\ Locals(v)' = Locals(v)
    BY <2>1 DEF Attending, Locals, ConnsOf
  <2>3. NoGhosts' /\ FreshTimers' /\ Alone'
    BY <2>1, <2>2 DEF Watch, NoGhosts, FreshTimers, Alone
  <2>4. failures = 0 /\ Locals(u) # {} => Attending(u) # {}
    BY <1>1, WhoIsThere, LocalsAttended DEF Watch
  <2>5. WatchedOver'
    BY <1>1, <2>1, <2>2, <2>4 DEF Watch, Typed, UserTypes, WatchedOver
  <2>6. Over'
    BY <1>1, <2>1 DEF Watch, Typed, UserTypes, Alone, Over
  <2> QED BY <1>1, <2>3, <2>5, <2>6 DEF Watch
<1>4. ASSUME NEW u \in Users, Removal(u) PROVE Watch'
  <2>1. NoGhosts'
    BY <1>1, <1>4, FailuresGrow DEF Removal, GraceEnds, CheckMember, Evict, Told, EvictFails, OrphanLands, conn, Watch, NoGhosts
  <2>2. FreshTimers'
    BY <1>1, <1>4 DEF Removal, GraceEnds, CheckMember, Evict, Told, EvictFails, OrphanLands, Watch, Typed, UserTypes, FreshTimers
  <2>3. Attending(u)' = Attending(u) /\ \A v \in Users : Attending(v)' = Attending(v)
    BY <1>4 DEF Removal, GraceEnds, CheckMember, Evict, Told, EvictFails, OrphanLands, conn, Attending, ConnsOf
  <2>4. ASSUME GraceEnds(u) PROVE WatchedOver'
    <3>1. failures = 0 /\ Locals(u) # {} => Attending(u) # {}
      BY <1>1, WhoIsThere, LocalsAttended DEF Watch
    <3> QED BY <1>1, <2>3, <2>4, <3>1 DEF GraceEnds, room, Watch, Typed, UserTypes, WatchedOver
  <2>5. ASSUME CheckMember(u) \/ Evict(u) \/ OrphanLands(u) PROVE WatchedOver'
    BY <1>1, <2>3, <2>5 DEF CheckMember, Evict, OrphanLands, room, Watch, Typed, UserTypes, WatchedOver
  <2>6. ASSUME EvictFails(u) PROVE WatchedOver'
    BY <1>1, <2>6 DEF EvictFails, Fails, Typed, UserTypes, WatchedOver
  <2>7. ASSUME Told(u) PROVE WatchedOver'
    BY <1>1, <2>3, <2>7 DEF Told, room, Watch, Typed, UserTypes, WatchedOver, Over
  <2>8. Alone'
    <3>1. \A v \in Users : Locals(v)' = Locals(v)
      BY <1>4 DEF Removal, GraceEnds, CheckMember, Evict, Told, EvictFails, OrphanLands, conn, Locals, ConnsOf
    <3>2. \A v \in Users : removal'[v] # "none" => removal[v] # "none"
      BY <1>1, <1>4 DEF Removal, GraceEnds, CheckMember, Evict, Told, EvictFails, OrphanLands, Typed, UserTypes
    <3> QED BY <3>1, <3>2 DEF Watch, Alone
  <2>9. Over'
    <3>1. /\ \A v \in Users : member'[v] => member[v]
          /\ came' = came
          /\ \A v \in Users : removal'[v] = "telling" => removal[v] = "telling" \/ ~member'[v]
      BY <1>1, <1>4 DEF Removal, GraceEnds, CheckMember, Evict, Told, EvictFails, OrphanLands, room, Typed, UserTypes
    <3> QED BY <3>1 DEF Watch, Over
  <2> QED BY <1>1, <1>4, <2>1, <2>2, <2>4, <2>5, <2>6, <2>7, <2>8, <2>9 DEF Removal, Watch
<1>5. CASE StartGame
  BY <1>1, <1>5 DEF StartGame, task, conn, Watch, NoGhosts, WatchedOver, FreshTimers, Alone, Over, Locals, ConnsOf
<1>6. CASE Restart
  BY <1>1, <1>6 DEF Restart, Fails, Typed, UserTypes, Watch, NoGhosts, WatchedOver, FreshTimers, Alone, Over
<1>7. ASSUME NEW c \in Conns, Endpoint(c) PROVE Watch'
  <2> DEFINE u == Owner[c]
  <2>1. u \in Users
    OBVIOUS
  \* Only to register adds a connection, and only to tear one down sets a timer.
  <2>2. Alone' /\ Over'
    <3>1. CASE Register(c)
      <4>1. /\ removal' = [removal EXCEPT ![u] = "none"] /\ came' = [came EXCEPT ![u] = TRUE]
            /\ member' = member /\ \A d \in Conns \ {c} : phase'[d] = phase[d]
        BY <3>1 DEF Register, Come, room
      <4>2. \A v \in Users \ {u} : Locals(v)' = Locals(v) /\ removal'[v] = removal[v] /\ came'[v] = came[v]
        BY <1>1, <2>1, <4>1 DEF Typed, UserTypes, Locals, ConnsOf
      <4>3. removal'[u] = "none"
        BY <1>1, <2>1, <4>1 DEF Typed, UserTypes
      <4> QED BY <4>1, <4>2, <4>3 DEF Watch, Alone, Over
    <3>2. CASE ~Register(c)
      <4>1. UNCHANGED <<member, came>>
        BY <1>7, <3>2 DEF Endpoint, Loops, Accept, SetUp, SetUpFails, Vanish, Enqueue, Ping, PongMissing, BeatStops,
             Send, HangUp, RecvRaises, WrongVersion, Unregister, Schedule, UnsubscribeFails, Off, room
      <4>2. \A v \in Users : removal'[v] = removal[v] \/ (removal'[v] = "grace" /\ Locals(v) = {})
        <5>1. CASE Schedule(c)
          <6>1. \/ Locals(u) = {} /\ removal' = [removal EXCEPT ![u] = "grace"]
                \/ removal' = removal
            BY <5>1 DEF Schedule
          <6>2. ASSUME removal' = [removal EXCEPT ![u] = "grace"], NEW v \in Users
                PROVE  removal'[v] = IF v = u THEN "grace" ELSE removal[v]
            BY <1>1, <2>1, <6>2 DEF Typed, UserTypes
          <6> HIDE DEF u
          <6> QED BY <6>1, <6>2
        <5>2. CASE ~Schedule(c)
          <6>1. removal' = removal
            BY <1>7, <3>2, <5>2 DEF Endpoint, Loops, Accept, SetUp, SetUpFails, Vanish, Enqueue, Ping, PongMissing,
             BeatStops, Send, HangUp, RecvRaises, WrongVersion, Unregister, UnsubscribeFails, task
          <6> QED BY <6>1
        <5> QED BY <5>1, <5>2
      <4>3. \A d \in Conns : phase'[d] \in Registered => phase[d] \in Registered
        BY <1>1, <1>7, <3>2 DEF Endpoint, Loops, Accept, SetUp, SetUpFails, Vanish, Enqueue, Ping, PongMissing,
             BeatStops, Send, HangUp, RecvRaises, WrongVersion, Unregister, Schedule, UnsubscribeFails, Off,
             Typed, ConnTypes, Registered
      <4>4. \A v \in Users : Locals(v)' \subseteq Locals(v)
        BY <4>3 DEF Locals, ConnsOf
      <4> QED BY <4>1, <4>2, <4>4 DEF Watch, Alone, Over
    <3> QED BY <3>1, <3>2
  \* Where an endpoint goes on attending, its user stays watched.
  <2>3. ASSUME phase'[c] \in Attended \/ phase[c] \notin Attended,
               \A d \in Conns \ {c} : phase'[d] = phase[d],
               UNCHANGED <<removal, member, status, came, failures>>
        PROVE  WatchedOver'
    BY <1>1, <2>3 DEF Watch, WatchedOver, Attending, ConnsOf
  <2>4. CASE Accept(c)
    BY <1>1, <2>4, <2>3, <2>2 DEF Accept, room, task, Watch, Typed, ConnTypes, NoGhosts, FreshTimers, Attended
  <2>5. CASE Register(c)
    <3>1. phase' = [phase EXCEPT ![c] = "setting"] /\ UNCHANGED <<member, status, failures>>
      BY <2>5 DEF Register, Come, room
    <3>2. removal' = [removal EXCEPT ![u] = "none"] /\ came' = [came EXCEPT ![u] = TRUE] /\ seen' = [seen EXCEPT ![u] = TRUE]
      BY <2>5 DEF Register, Come
    <3>3. Attending(u)' # {} /\ \A v \in Users : Attending(v) # {} => Attending(v)' # {}
      BY <1>1, <3>1 DEF Typed, ConnTypes, Attending, ConnsOf, Attended
    <3>4. WatchedOver'
      BY <1>1, <2>1, <3>1, <3>2, <3>3 DEF Watch, Typed, UserTypes, WatchedOver
    <3> QED BY <1>1, <2>1, <2>2, <3>1, <3>2, <3>4 DEF Watch, Typed, UserTypes, ConnTypes, NoGhosts, FreshTimers
  <2>6. CASE SetUp(c) \/ Unregister(c)
    BY <1>1, <2>6, <2>3, <2>2 DEF SetUp, Unregister, room, task, Watch, Typed, ConnTypes, NoGhosts, FreshTimers, Attended
  <2>7. CASE SetUpFails(c)
    BY <1>1, <2>7, <2>2 DEF SetUpFails, Fails, room, task, Watch, Typed, UserTypes, NoGhosts, WatchedOver, FreshTimers
  <2>8. CASE Vanish(c) \/ Enqueue(c) \/ Loops(c)
    BY <1>1, <2>8, Unwatched DEF Vanish, Enqueue, Loops, Ping, PongMissing, BeatStops, Send, HangUp, RecvRaises,
         WrongVersion, room, task
  <2>9. CASE Schedule(c)
    <3>1. phase' = [phase EXCEPT ![c] = "off"] /\ phase[c] = "unregistered" /\ UNCHANGED <<member, status, came, failures>>
      BY <2>9 DEF Schedule, Off, room
    <3>2. NoGhosts' /\ FreshTimers'
      <4>1. NoGhosts'
        BY <1>1, <3>1 DEF Watch, Typed, ConnTypes, NoGhosts
      <4>2. \/ removal' = [removal EXCEPT ![u] = "grace"] /\ seen' = [seen EXCEPT ![u] = FALSE]
            \/ UNCHANGED <<removal, seen>>
        BY <2>9 DEF Schedule
      <4>3. FreshTimers'
        BY <1>1, <2>1, <4>2 DEF Watch, Typed, UserTypes, FreshTimers
      <4> QED BY <4>1, <4>3
    <3>3. failures = 0 => Attending(u)' # {} \/ removal'[u] # "none"
      <4>1. CASE Locals(u) # {}
        <5>1. PICK d \in Conns : Owner[d] = u /\ phase[d] \in Registered
          BY <4>1, <2>1, WhoIsThere
        <5>2. d # c /\ phase'[d] = phase[d]
          BY <1>1, <3>1, <5>1 DEF Registered, Typed, ConnTypes
        <5>3. failures = 0 => phase'[d] \in Attended
          BY <1>1, <5>1, <5>2, LocalsAttended DEF Watch
        <5> QED BY <5>1, <5>3 DEF Attending, ConnsOf
      <4>2. CASE Locals(u) = {}
        BY <1>1, <2>1, <2>9, <4>2 DEF Schedule, Typed, UserTypes
      <4> QED BY <4>1, <4>2
    <3>4. ASSUME NEW v \in Users \ {u} PROVE Attending(v)' = Attending(v) /\ removal'[v] = removal[v]
      BY <1>1, <2>1, <2>9, <3>1 DEF Schedule, Typed, UserTypes, ConnTypes, Attending, ConnsOf
    <3>5. WatchedOver'
      BY <2>1, <3>1, <3>3, <3>4 DEF Watch, WatchedOver
    <3> QED BY <1>1, <2>2, <3>2, <3>5 DEF Watch
  <2>10. CASE UnsubscribeFails(c)
    BY <1>1, <2>10, <2>2 DEF UnsubscribeFails, Off, Fails, room, Watch, Typed, UserTypes, NoGhosts, WatchedOver, FreshTimers
  <2> QED BY <1>7, <2>4, <2>5, <2>6, <2>7, <2>8, <2>9, <2>10 DEF Endpoint
<1> QED BY <1>2, <1>3, <1>4, <1>5, <1>6, <1>7 DEF Next

\* The inductive invariant holds for any users, connections, queues and failures.
THEOREM PresenceSafe == Spec => []Watch
BY InitWatch, WatchStep, PTL DEF Spec

\* The variables of the gateway keep their types, and queues their bound
\* (Connection, SendQueue).
THEOREM PresenceTypeCorrect == Spec => []TypeOK
<1>1. Watch => TypeOK
  BY TypedIsTypeOK DEF Watch
<1> QED BY <1>1, PresenceSafe, PTL

\* Unless a call has failed, a member that has been connected is attended by an
\* endpoint or has its removal pending (ws_endpoint, _schedule_removal).
THEOREM NobodyForgotten == Spec => []WatchedOver
<1>1. Watch => WatchedOver
  BY DEF Watch
<1> QED BY <1>1, PresenceSafe, PTL

\* Nobody who has come back is removed by an earlier timer
\* (_cancel_pending_removal, _remove_if_still_gone).
THEOREM OnlyTheAbsentLeave == Spec => WholeGraceAway
<1> DEFINE Kept == \A u \in Users :
       (removal[u] = "leaving" /\ removal'[u] # "leaving" /\ member[u] /\ ~member'[u]) => ~seen[u]
<1>1. Watch /\ [Next]_vars => [Kept]_vars
  BY DEF Watch, FreshTimers
<1> QED BY <1>1, PresenceSafe, PTL DEF Spec, WholeGraceAway
=============================================================================
