----------------------------- MODULE Backplane -----------------------------
(***************************************************************************)
(* How the messages of one session reach its clients: every process has a  *)
(* Backplane (gateway/backplane.py) that publishes to one Redis channel    *)
(* and hands what it hears there to its own connections, and an endpoint   *)
(* (gateway/router.py) that sets connections up and tears them down.       *)
(*                                                                         *)
(* Redis hands the messages of a channel to all its subscribers in one     *)
(* order, answers commands at once, and takes a SUBSCRIBE into account by  *)
(* the time the call returns.  A message is its number in the session and  *)
(* the version of the game it shows (0: chat, session.updated).  What a    *)
(* viewer may see of a state is left out, and so is the bounded queue      *)
(* between a connection and its socket.                                    *)
(***************************************************************************)
EXTENDS Naturals, FiniteSets, Sequences, Functions

CONSTANTS
  Nodes,       \* server processes
  Clients,     \* those who connect, one connection at a time
  Home,        \* the process a client's connection reaches
  Publishers,  \* coroutines that publish, in any process
  MaxSeq,      \* bound on messages
  MaxFailures  \* bound on failures: of calls, of readers, of processes

ASSUME BackplaneAssumption ==
  /\ IsFiniteSet(Clients)
  /\ Home \in [Clients -> Nodes]
  /\ MaxSeq \in Nat /\ MaxFailures \in Nat

VARIABLES
  version,    \* of the game in the database
  seq,        \* the counter seq:{session_id}
  pub,        \* what each publisher is about to send
  listening,  \* the process's current pub/sub object is subscribed
  wire,       \* messages the process has not read yet
  reader,     \* its reader task
  object,     \* how often its pub/sub object was replaced
  count,      \* _subscriptions: connections counted
  phase,      \* where each connection's endpoint is
  asked,      \* the pub/sub object a connection's pending call went to
  start,      \* your_seq_start of the connection's welcome
  snapshot,   \* version it read from the database
  heard,      \* numbers of the messages put into its queue
  shown,      \* version of the last state put into its queue
  failures,   \* how many failures so far
  missed,     \* history: a failure may have cost this connection a message
  raced,      \* history: the process had two calls pending at once
  unordered,  \* history: something was sent that later news had overtaken
  leaked      \* history: counts that calls which raised have left behind

game     == <<version, seq, pub>>
redis    == <<listening, wire, reader, object>>
endpoint == <<count, phase, asked>>
client   == <<start, snapshot, heard, shown>>
history  == <<failures, missed, raced, unordered, leaked>>
vars     == <<game, redis, endpoint, client, history>>

Idle == [at |-> "idle"]

Phases == {"off", "registered", "subscribing", "subscribed", "welcomed",
           "reading", "live", "unsubscribing"}

\* The manager lists a connection from register to unregister.
Registered == Phases \ {"off", "unsubscribing"}

\* Those the reference count stands for.
Counted == {"subscribed", "welcomed", "reading", "live", "unsubscribing"}

Locals(n)   == {c \in Clients : Home[c] = n}
Here(n)     == {c \in Locals(n) : phase[c] \in Registered}
Pending(n)  == {c \in Locals(n) : phase[c] \in {"subscribing", "unsubscribing"}}
Counting(n) == {c \in Locals(n) : phase[c] \in Counted}

Init ==
  /\ version = 0 /\ seq = 0 /\ pub = [p \in Publishers |-> Idle]
  /\ listening = [n \in Nodes |-> FALSE] /\ wire = [n \in Nodes |-> << >>]
  /\ reader = [n \in Nodes |-> "reading"] /\ object = [n \in Nodes |-> 0]
  /\ count = [n \in Nodes |-> 0]
  /\ phase = [c \in Clients |-> "off"] /\ asked = [c \in Clients |-> 0]
  /\ start = [c \in Clients |-> 0] /\ snapshot = [c \in Clients |-> 0]
  /\ heard = [c \in Clients |-> << >>] /\ shown = [c \in Clients |-> 0]
  /\ failures = 0 /\ missed = [c \in Clients |-> FALSE]
  /\ raced = [n \in Nodes |-> FALSE] /\ unordered = FALSE
  /\ leaked = [n \in Nodes |-> 0]

-----------------------------------------------------------------------------
(* Publishing: the commit, the number and the message are three steps.  A  *)
(* move lets go of the session's lock before it draws its number.          *)

Busy == {p \in Publishers : pub[p] # Idle}

Begin(p, v) ==
  /\ pub[p] = Idle /\ seq + Cardinality(Busy) < MaxSeq
  /\ pub' = [pub EXCEPT ![p] = [at |-> "committed", version |-> v, seq |-> 0]]
  /\ unordered' = (unordered \/ Busy # {})
  /\ UNCHANGED <<seq, redis, endpoint, client, failures, missed, raced, leaked>>

CommitMove(p) == version' = version + 1 /\ Begin(p, version + 1)

SendChat(p) == version' = version /\ Begin(p, 0)

\* A mutant: the counter is read, not incremented, but for the first.
DrawSeqByGet(p) ==
  /\ pub[p] # Idle /\ pub[p].at = "committed"
  /\ seq' = IF seq = 0 THEN 1 ELSE seq
  /\ pub' = [pub EXCEPT ![p].at = "drawn", ![p].seq = seq']
  /\ UNCHANGED <<version, redis, endpoint, client, history>>

DrawSeq(p) ==
  /\ pub[p] # Idle /\ pub[p].at = "committed"
  /\ seq' = seq + 1
  /\ pub' = [pub EXCEPT ![p].at = "drawn", ![p].seq = seq + 1]
  /\ UNCHANGED <<version, redis, endpoint, client, history>>

\* While a reader is down, its connections hear nothing.
Publish(p) ==
  /\ pub[p] # Idle /\ pub[p].at = "drawn"
  /\ wire' = [n \in Nodes |->
               IF listening[n] THEN Append(wire[n], [seq |-> pub[p].seq, version |-> pub[p].version])
                               ELSE wire[n]]
  /\ missed' = [c \in Clients |-> missed[c] \/
               (phase[c] \in Registered /\ reader[Home[c]] # "reading")]
  /\ pub' = [pub EXCEPT ![p] = Idle]
  /\ UNCHANGED <<version, seq, listening, reader, object, endpoint, client, failures, raced, unordered, leaked>>

\* Redis refuses, or the process ends, after the commit: nobody is told.
PublishFails(p) ==
  /\ pub[p] # Idle
  /\ failures < MaxFailures /\ failures' = failures + 1
  /\ missed' = [c \in Clients |-> phase[c] \in Registered]
  /\ pub' = [pub EXCEPT ![p] = Idle]
  /\ unordered' = (unordered \/ \E n \in Nodes : wire[n] # << >>)
  /\ UNCHANGED <<version, seq, redis, endpoint, client, raced, leaked>>

-----------------------------------------------------------------------------
(* A connection, from accept to the end of its tear-down.                  *)

Register(c) ==
  /\ phase[c] = "off"
  /\ phase' = [phase EXCEPT ![c] = "registered"]
  /\ UNCHANGED <<game, redis, count, asked, client, history>>

\* A call starts: it reads the count now and writes it when it has waited.
Call(c, then) ==
  /\ phase' = [phase EXCEPT ![c] = then]
  /\ asked' = [asked EXCEPT ![c] = object[Home[c]]]
  /\ raced' = [raced EXCEPT ![Home[c]] = @ \/ Pending(Home[c]) # {}]
  /\ UNCHANGED <<game, redis, failures, unordered, leaked>>

\* A connection that is over leaves nothing behind.
Forget(gone) ==
  /\ start' = [c \in Clients |-> IF c \in gone THEN 0 ELSE start[c]]
  /\ snapshot' = [c \in Clients |-> IF c \in gone THEN 0 ELSE snapshot[c]]
  /\ heard' = [c \in Clients |-> IF c \in gone THEN << >> ELSE heard[c]]
  /\ shown' = [c \in Clients |-> IF c \in gone THEN 0 ELSE shown[c]]
  /\ missed' = [c \in Clients |-> missed[c] /\ c \notin gone]

\* A mutant: the call to Redis is not awaited, and so never made.
SubscribeUnawaited(c) ==
  /\ phase[c] = "registered"
  /\ count' = [count EXCEPT ![Home[c]] = @ + 1] /\ Call(c, "subscribed")
  /\ UNCHANGED <<client, missed>>

Subscribe(c) ==
  LET n == Home[c] IN
  /\ phase[c] = "registered"
  /\ IF count[n] = 0
       THEN count' = count /\ Call(c, "subscribing")
       ELSE count' = [count EXCEPT ![n] = @ + 1] /\ Call(c, "subscribed")
  /\ UNCHANGED <<client, missed>>

FinishSubscribe(c) ==
  LET n == Home[c] IN
  /\ phase[c] = "subscribing"
  /\ listening' = [listening EXCEPT
                    ![n] = @ \/ (asked[c] = object[n] /\ reader[n] # "broken")]
  /\ unordered' = (unordered \/ wire[n] # << >>)
  /\ count' = [count EXCEPT ![n] = 1]
  /\ phase' = [phase EXCEPT ![c] = "subscribed"]
  /\ UNCHANGED <<game, wire, reader, object, asked, client, failures, missed, raced, leaked>>

ReadSeq(c) ==
  /\ phase[c] = "subscribed"
  /\ start' = [start EXCEPT ![c] = seq]
  /\ phase' = [phase EXCEPT ![c] = "welcomed"]
  /\ UNCHANGED <<game, redis, count, asked, snapshot, heard, shown, history>>

ReadSnapshot(c) ==
  /\ phase[c] = "welcomed"
  /\ snapshot' = [snapshot EXCEPT ![c] = version]
  /\ phase' = [phase EXCEPT ![c] = "reading"]
  /\ UNCHANGED <<game, redis, count, asked, start, heard, shown, history>>

\* A mutant: a client that numbered messages have reached is not resynced.
SendSnapshotOnce(c) ==
  /\ phase[c] = "reading"
  /\ shown' = [shown EXCEPT ![c] = IF snapshot[c] = 0 \/ start[c] > 0 THEN @ ELSE snapshot[c]]
  /\ snapshot' = [snapshot EXCEPT ![c] = 0]
  /\ phase' = [phase EXCEPT ![c] = "live"]
  /\ UNCHANGED <<game, redis, count, asked, start, heard, history>>

SendSnapshot(c) ==
  /\ phase[c] = "reading"
  /\ shown' = [shown EXCEPT ![c] = IF snapshot[c] = 0 THEN @ ELSE snapshot[c]]
  /\ snapshot' = [snapshot EXCEPT ![c] = 0]
  /\ phase' = [phase EXCEPT ![c] = "live"]
  /\ UNCHANGED <<game, redis, count, asked, start, heard, history>>

\* A mutant: only a count that is already used up ends the subscription.
LeaveOneBehind(c) ==
  LET n == Home[c] IN
  /\ phase[c] = "live"
  /\ IF count[n] < 1
       THEN count' = count /\ Call(c, "unsubscribing")
       ELSE count' = [count EXCEPT ![n] = @ - 1] /\ Call(c, "off")
  /\ Forget({c})

\* The client leaves: unregister, and the first half of unsubscribe.
Leave(c) ==
  LET n == Home[c] IN
  /\ phase[c] = "live"
  /\ IF count[n] <= 1
       THEN count' = count /\ Call(c, "unsubscribing")
       ELSE count' = [count EXCEPT ![n] = @ - 1] /\ Call(c, "off")
  /\ Forget({c})

FinishUnsubscribe(c) ==
  LET n == Home[c] IN
  /\ phase[c] = "unsubscribing"
  /\ listening' = [listening EXCEPT ![n] = @ /\ asked[c] # object[n]]
  /\ count' = [count EXCEPT ![n] = 0]
  /\ phase' = [phase EXCEPT ![c] = "off"]
  /\ UNCHANGED <<game, wire, reader, object, asked, client, history>>

\* The call that an endpoint waits for raises: SUBSCRIBE, the counter, the game's
\* document, UNSUBSCRIBE.  Whatever was counted stays so, for an endpoint that is no
\* more; during the set-up its connection stays registered too, and hears for nobody.
\* All that raises while the reader is without Redis is one failure.
CallRaises(c) ==
  LET n == Home[c] IN
  /\ phase[c] \in {"subscribing", "subscribed", "welcomed", "unsubscribing"}
  /\ \/ failures < MaxFailures /\ failures' = failures + 1
     \/ reader[n] = "broken" /\ failures' = failures
  /\ leaked[n] < MaxFailures
  /\ leaked' = [leaked EXCEPT ![n] = IF phase[c] \in Counted THEN @ + 1 ELSE @]
  /\ phase' = [phase EXCEPT ![c] = "off"]
  /\ Forget({c})
  /\ UNCHANGED <<game, redis, count, asked, raced, unordered>>

-----------------------------------------------------------------------------
(* The reader task.                                                        *)

\* It sleeps while nothing is counted.
Deliver(n) ==
  LET msg == Head(wire[n]) IN
  /\ reader[n] = "reading" /\ count[n] > 0 /\ wire[n] # << >>
  /\ wire' = [wire EXCEPT ![n] = Tail(@)]
  /\ heard' = [c \in Clients |-> IF c \in Here(n) THEN Append(heard[c], msg.seq) ELSE heard[c]]
  /\ shown' = [c \in Clients |->
                IF c \in Here(n) /\ msg.version # 0 THEN msg.version ELSE shown[c]]
  /\ unordered' = (unordered \/ \E c \in Here(n) : phase[c] = "reading")
  /\ UNCHANGED <<game, listening, reader, object, endpoint, start, snapshot, failures, missed, raced, leaked>>

\* Reading raises: what was on its way is lost.
ReaderFails(n) ==
  /\ reader[n] = "reading" /\ count[n] > 0
  /\ failures < MaxFailures /\ failures' = failures + 1
  /\ reader' = [reader EXCEPT ![n] = "broken"]
  /\ listening' = [listening EXCEPT ![n] = FALSE]
  /\ wire' = [wire EXCEPT ![n] = << >>]
  /\ missed' = [c \in Clients |-> missed[c] \/ c \in Here(n)]
  /\ raced' = [raced EXCEPT ![n] = @ \/ Pending(n) # {}]
  /\ UNCHANGED <<game, object, endpoint, client, unordered, leaked>>

\* A mutant: the new object is not subscribed to anything.
ReconnectBare(n) ==
  /\ reader[n] = "broken"
  /\ object' = [object EXCEPT ![n] = @ + 1]
  /\ reader' = [reader EXCEPT ![n] = "reading"]
  /\ UNCHANGED <<game, listening, wire, endpoint, client, history>>

\* After the backoff: a new object, subscribed if anybody is counted.
Reconnect(n) ==
  /\ reader[n] = "broken"
  /\ object' = [object EXCEPT ![n] = @ + 1]
  /\ reader' = [reader EXCEPT ![n] = "reading"]
  /\ listening' = [listening EXCEPT ![n] = count[n] > 0]
  /\ missed' = [c \in Clients |-> missed[c] \/ c \in Here(n)]
  /\ raced' = [raced EXCEPT ![n] = @ \/ Pending(n) # {}]
  /\ UNCHANGED <<game, wire, endpoint, client, failures, unordered, leaked>>

\* Redis is still away: the subscription raises inside the handler of the first
\* exception, which ends the task, and nothing starts another.
ReconnectFails(n) ==
  /\ reader[n] = "broken" /\ count[n] > 0
  /\ object' = [object EXCEPT ![n] = @ + 1]
  /\ reader' = [reader EXCEPT ![n] = "dead"]
  /\ raced' = [raced EXCEPT ![n] = @ \/ Pending(n) # {}]
  /\ UNCHANGED <<game, listening, wire, endpoint, client, failures, missed, unordered, leaked>>

\* The process ends and is started again.
Crash(n) ==
  /\ failures < MaxFailures /\ failures' = failures + 1
  /\ phase' = [c \in Clients |-> IF Home[c] = n THEN "off" ELSE phase[c]]
  /\ count' = [count EXCEPT ![n] = 0] /\ object' = [object EXCEPT ![n] = 0]
  /\ reader' = [reader EXCEPT ![n] = "reading"]
  /\ listening' = [listening EXCEPT ![n] = FALSE]
  /\ wire' = [wire EXCEPT ![n] = << >>]
  /\ raced' = [raced EXCEPT ![n] = FALSE] /\ leaked' = [leaked EXCEPT ![n] = 0]
  /\ Forget(Locals(n))
  /\ UNCHANGED <<game, asked, unordered>>

-----------------------------------------------------------------------------
Publishing(p) ==
  CommitMove(p) \/ SendChat(p) \/ DrawSeq(p) \/ Publish(p) \/ PublishFails(p)

Endpoint(c) ==
  \/ Register(c) \/ Subscribe(c) \/ FinishSubscribe(c) \/ ReadSeq(c)
  \/ ReadSnapshot(c) \/ SendSnapshot(c) \/ Leave(c) \/ FinishUnsubscribe(c)
  \/ CallRaises(c)

Reading(n) ==
  Deliver(n) \/ ReaderFails(n) \/ Reconnect(n) \/ ReconnectFails(n) \/ Crash(n)

Next ==
  \/ \E p \in Publishers : Publishing(p)
  \/ \E c \in Clients : Endpoint(c)
  \/ \E n \in Nodes : Reading(n)

Spec == Init /\ [][Next]_vars

-----------------------------------------------------------------------------
PubState ==
  {Idle} \cup [at : {"committed", "drawn"}, version : 0..version, seq : 0..seq]

\* The variables have their types; the count of a process is never more than the
\* connections it stands for and what calls that raised have left of it, and a
\* queue never holds more than was published (Backplane._subscriptions).
TypeOK ==
  /\ version \in Nat /\ seq \in 0..MaxSeq /\ version <= seq + Cardinality(Busy) + failures
  /\ pub \in [Publishers -> PubState]
  /\ listening \in [Nodes -> BOOLEAN] /\ raced \in [Nodes -> BOOLEAN]
  /\ reader \in [Nodes -> {"reading", "broken", "dead"}]
  /\ \A n \in Nodes : /\ Len(wire[n]) <= seq
                      /\ leaked[n] \in 0..MaxFailures
                      /\ count[n] \in 0..(Cardinality(Counting(n)) + leaked[n])
                      /\ object[n] \in 0..MaxFailures
  /\ phase \in [Clients -> Phases] /\ missed \in [Clients -> BOOLEAN]
  /\ \A c \in Clients : /\ start[c] \in 0..seq
                        /\ snapshot[c] \in 0..version /\ shown[c] \in 0..version
                        /\ Len(heard[c]) <= seq
  /\ failures \in 0..MaxFailures /\ unordered \in BOOLEAN

\* As long as no two calls of a process overlapped, its reference count is the
\* number of connections between subscribe and the end of unsubscribe and of those
\* that calls which raised have left counted; and, when no call is pending, the
\* process listens exactly if it counts any.  So no connection is left deaf, and a
\* channel nobody reads is kept, for good, only after such a call
\* (Backplane.subscribe and unsubscribe, the set-up, the reader's reconnection).
CountIsRight ==
  \A n \in Nodes : ~raced[n] =>
    /\ count[n] = Cardinality(Counting(n)) + leaked[n]
    /\ Pending(n) = {} /\ reader[n] = "reading" => listening[n] = (count[n] > 0)

\* Nothing on its way to a process that reads.
Quiet(n) == Busy = {} /\ (wire[n] = << >> \/ count[n] = 0) /\ reader[n] # "broken"

Followed(c) ==
  /\ phase[c] = "live" /\ ~missed[c] /\ ~raced[Home[c]] /\ Quiet(Home[c])
  /\ reader[Home[c]] = "reading"

\* A connection that no failure and no overlap of calls has disturbed has
\* been handed every message numbered after its welcome, in whatever order
\* the set-up of the endpoint and the publications interleaved: it subscribes
\* before it reads your_seq_start.
NothingMissed ==
  \A c \in Clients : Followed(c) =>
    \A s \in (start[c] + 1)..seq : \E i \in DOMAIN heard[c] : heard[c][i] = s

\* ... and the last state it was shown is the game as committed, as long as no
\* two publications overlapped, no broadcast fell between reading and sending
\* a snapshot, no channel was taken up again and no publication lost with old
\* messages unread: no other interleaving of commits, set-up and delivery
\* leaves a client behind.
ViewCurrent ==
  ~unordered => \A c \in Clients : Followed(c) => shown[c] = version

\* Frames carry no version and a snapshot no number: a client takes the last
\* state it receives for the truth.  It is the truth as soon as nothing is
\* under way, if nothing has failed (docs/game-protocol.md: reconnects resync
\* automatically, the next received game.state is authoritative).
LastStateCurrent ==
  failures = 0 => \A c \in Clients : phase[c] = "live" /\ Quiet(Home[c]) => shown[c] = version

\* Numbers reach a connection in ascending order, each once, as long as no two
\* publications overlapped (Backplane.publish draws before it sends).
Ascending ==
  ~unordered => \A c \in Clients :
    \A i, j \in DOMAIN heard[c] : i < j => heard[c][i] < heard[c][j]
=============================================================================
