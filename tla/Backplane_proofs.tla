-------------------------- MODULE Backplane_proofs --------------------------
(***************************************************************************)
(* For any number of processes, clients, publishers, messages and          *)
(* failures: the reference count is right unless calls overlap, numbers    *)
(* arrive in order unless publications do, no connection misses a message, *)
(* and its last state is the game as committed.                            *)
(***************************************************************************)
EXTENDS Backplane, FiniteSetTheorems, SequenceTheorems, TLAPS

-----------------------------------------------------------------------------
(* The reference count.                                                    *)

CountTypes ==
  /\ count \in [Nodes -> Nat] /\ object \in [Nodes -> Nat] /\ leaked \in [Nodes -> Nat]
  /\ listening \in [Nodes -> BOOLEAN] /\ raced \in [Nodes -> BOOLEAN]
  /\ reader \in [Nodes -> {"reading", "broken", "dead"}]
  /\ phase \in [Clients -> Phases] /\ asked \in [Clients -> Nat]

\* What a pending call has read is still true of the process.
CallHolds(c) ==
  /\ asked[c] = object[Home[c]]
  /\ count[Home[c]] = IF phase[c] = "subscribing" THEN 0 ELSE 1

\* As long as its calls have not overlapped, a process is in order.
InOrder(n) ==
  ~raced[n] =>
    /\ count[n] = Cardinality(Counting(n)) + leaked[n]
    /\ \A c, d \in Pending(n) : c = d
    /\ \A c \in Pending(n) : CallHolds(c)
    /\ reader[n] = "reading" => (listening[n] <=> count[n] > 0)

CountInv == CountTypes /\ \A n \in Nodes : InOrder(n)

\* Counting and Pending are finite sets of clients.
LEMMA LocalSets ==
  ASSUME NEW n \in Nodes
  PROVE  /\ IsFiniteSet(Counting(n)) /\ Cardinality(Counting(n)) \in Nat
         /\ Counting(n) = {c \in Clients : Home[c] = n /\ phase[c] \in Counted}
         /\ Pending(n) = {c \in Clients : Home[c] = n /\ phase[c] \in {"subscribing", "unsubscribing"}}
<1>1. Counting(n) \subseteq Clients
  BY DEF Counting, Locals
<1> QED BY <1>1, BackplaneAssumption, FS_Subset, FS_CardinalityType DEF Counting, Pending, Locals

\* A process whose own part of the state does not change stays in order.
LEMMA Untouched ==
  ASSUME NEW n \in Nodes, InOrder(n),
         \A c \in Clients : Home[c] = n => phase'[c] = phase[c] /\ asked'[c] = asked[c],
         count'[n] = count[n], object'[n] = object[n], reader'[n] = reader[n],
         listening'[n] = listening[n], raced'[n] = raced[n], leaked'[n] = leaked[n]
  PROVE  InOrder(n)'
<1>1. Counting(n)' = Counting(n) /\ Pending(n)' = Pending(n)
  BY DEF Counting, Pending, Locals
<1>2. \A c \in Pending(n) : Home[c] = n /\ c \in Clients
  BY DEF Pending, Locals
<1> QED BY <1>1, <1>2 DEF InOrder, CallHolds

\* Nobody is connected and nothing counted at first.
LEMMA InitCount == Init => CountInv
<1> SUFFICES ASSUME Init PROVE CountInv
  OBVIOUS
<1>1. CountTypes
  BY DEF Init, CountTypes, Phases
<1>2. ASSUME NEW n \in Nodes PROVE InOrder(n)
  <2>1. Counting(n) = {} /\ Pending(n) = {}
    BY DEF Init, Counting, Pending, Locals, Counted
  <2>2. Cardinality({}) = 0
    BY FS_EmptySet
  <2> QED BY <2>1, <2>2 DEF Init, InOrder
<1> QED BY <1>1, <1>2 DEF CountInv

\* The types.
LEMMA CountTypesStep == CountTypes /\ [Next]_vars => CountTypes'
<1> SUFFICES ASSUME CountTypes, [Next]_vars PROVE CountTypes'
  OBVIOUS
<1> USE BackplaneAssumption
<1>1. CASE UNCHANGED vars
  BY <1>1 DEF vars, redis, endpoint, history, CountTypes
<1>2. ASSUME NEW p \in Publishers, Publishing(p) PROVE CountTypes'
  BY <1>2 DEF Publishing, CommitMove, SendChat, Begin, DrawSeq, Publish, PublishFails, redis, endpoint, history, CountTypes
<1>3. ASSUME NEW c \in Clients, Endpoint(c) PROVE CountTypes'
  <2> Home[c] \in Nodes
    OBVIOUS
  <2>1. CASE Register(c) \/ ReadSeq(c) \/ ReadSnapshot(c) \/ SendSnapshot(c)
    BY <2>1 DEF Register, ReadSeq, ReadSnapshot, SendSnapshot, redis, history, CountTypes, Phases
  <2>2. CASE Subscribe(c)
    <3>1. raced' \in [Nodes -> BOOLEAN]
      <4>1. raced' = [raced EXCEPT ![Home[c]] = raced[Home[c]] \/ Pending(Home[c]) # {}]
        BY <2>2 DEF Subscribe, Call
      <4>2. (raced[Home[c]] \/ Pending(Home[c]) # {}) \in BOOLEAN
        OBVIOUS
      <4> QED BY <4>1, <4>2, Zenon DEF CountTypes
    <3>2. count' \in [Nodes -> Nat] /\ phase' \in [Clients -> Phases] /\ asked' \in [Clients -> Nat]
      BY <2>2 DEF Subscribe, Call, CountTypes, Phases
    <3> QED BY <2>2, <3>1, <3>2 DEF Subscribe, Call, redis, CountTypes
  <2>3. CASE FinishSubscribe(c)
    BY <2>3 DEF FinishSubscribe, CountTypes, Phases
  <2>4. CASE Leave(c)
    <3>1. raced' \in [Nodes -> BOOLEAN]
      <4>1. raced' = [raced EXCEPT ![Home[c]] = raced[Home[c]] \/ Pending(Home[c]) # {}]
        BY <2>4 DEF Leave, Call
      <4>2. (raced[Home[c]] \/ Pending(Home[c]) # {}) \in BOOLEAN
        OBVIOUS
      <4> QED BY <4>1, <4>2, Zenon DEF CountTypes
    <3>2. count' \in [Nodes -> Nat] /\ phase' \in [Clients -> Phases] /\ asked' \in [Clients -> Nat]
      BY <2>4 DEF Leave, Call, CountTypes, Phases
    <3> QED BY <2>4, <3>1, <3>2 DEF Leave, Call, redis, CountTypes
  <2>5. CASE FinishUnsubscribe(c)
    BY <2>5 DEF FinishUnsubscribe, history, CountTypes, Phases
  <2>6. CASE CallRaises(c)
    <3>1. leaked' = [leaked EXCEPT ![Home[c]] = IF phase[c] \in Counted THEN @ + 1 ELSE @]
          /\ phase' = [phase EXCEPT ![c] = "off"] /\ UNCHANGED <<redis, count, asked, raced>>
      BY <2>6 DEF CallRaises
    <3> QED BY <3>1 DEF redis, CountTypes, Phases
  <2> QED BY <1>3, <2>1, <2>2, <2>3, <2>4, <2>5, <2>6 DEF Endpoint
<1>4. ASSUME NEW n \in Nodes, Reading(n) PROVE CountTypes'
  <2>1. CASE Deliver(n)
    BY <2>1 DEF Deliver, endpoint, CountTypes
  <2>2. CASE ReaderFails(n) \/ Reconnect(n) \/ ReconnectFails(n)
    <3>1. raced' \in [Nodes -> BOOLEAN]
      <4>1. raced' = [raced EXCEPT ![n] = raced[n] \/ Pending(n) # {}]
        BY <2>2 DEF ReaderFails, Reconnect, ReconnectFails
      <4>2. (raced[n] \/ Pending(n) # {}) \in BOOLEAN
        OBVIOUS
      <4> QED BY <4>1, <4>2, Zenon DEF CountTypes
    <3>2. listening' \in [Nodes -> BOOLEAN]
      <4>1. CASE Reconnect(n)
        <5>1. (count[n] > 0) \in BOOLEAN
          OBVIOUS
        <5> QED BY <4>1, <5>1, Zenon DEF Reconnect, CountTypes
      <4>2. CASE ReaderFails(n) \/ ReconnectFails(n)
        BY <4>2 DEF ReaderFails, ReconnectFails, CountTypes
      <4> QED BY <2>2, <4>1, <4>2
    <3>3. object' \in [Nodes -> Nat] /\ reader' \in [Nodes -> {"reading", "broken", "dead"}]
      <4>1. /\ object' = [object EXCEPT ![n] = object[n] + 1] \/ object' = object
            /\ \E r \in {"reading", "broken", "dead"} : reader' = [reader EXCEPT ![n] = r]
        BY <2>2 DEF ReaderFails, Reconnect, ReconnectFails
      <4> QED BY <4>1 DEF CountTypes
    <3> QED BY <2>2, <3>1, <3>2, <3>3 DEF ReaderFails, Reconnect, ReconnectFails, endpoint, CountTypes
  <2>3. CASE Crash(n)
    BY <2>3 DEF Crash, CountTypes, Phases
  <2> QED BY <1>4, <2>1, <2>2, <2>3 DEF Reading
<1> QED BY <1>1, <1>2, <1>3, <1>4 DEF Next

\* The two halves of subscribe and unsubscribe.
LEMMA EndpointInOrder ==
  ASSUME CountInv, NEW c \in Clients, Endpoint(c)
  PROVE  InOrder(Home[c])'
<1> DEFINE n == Home[c]
<1>1. n \in Nodes
  BY BackplaneAssumption
<1>2. CountTypes /\ InOrder(n)
  BY <1>1 DEF CountInv
<1>3. /\ IsFiniteSet(Counting(n)) /\ Cardinality(Counting(n)) \in Nat
      /\ Counting(n) = {d \in Clients : Home[d] = n /\ phase[d] \in Counted}
      /\ Pending(n) = {d \in Clients : Home[d] = n /\ phase[d] \in {"subscribing", "unsubscribing"}}
  BY <1>1, LocalSets
<1>4. /\ Counting(n)' = {d \in Clients : Home[d] = n /\ phase'[d] \in Counted}
      /\ Pending(n)' = {d \in Clients : Home[d] = n /\ phase'[d] \in {"subscribing", "unsubscribing"}}
  BY DEF Counting, Pending, Locals
<1> HIDE DEF n
<1>5. CASE Register(c) \/ ReadSeq(c) \/ ReadSnapshot(c) \/ SendSnapshot(c)
  <2>1. Counting(n)' = Counting(n) /\ Pending(n)' = Pending(n)
    BY <1>2, <1>3, <1>4, <1>5 DEF Register, ReadSeq, ReadSnapshot, SendSnapshot, Counted, CountTypes
  <2>2. UNCHANGED <<count, asked, raced, listening, reader, object, leaked>>
    BY <1>5 DEF Register, ReadSeq, ReadSnapshot, SendSnapshot, redis, history
  <2>3. \A d \in Pending(n) : phase'[d] = phase[d] /\ Home[d] = n
    BY <1>2, <1>3, <1>5 DEF Register, ReadSeq, ReadSnapshot, SendSnapshot, CountTypes
  <2>4. \A d \in Pending(n) : CallHolds(d) => CallHolds(d)'
    BY <2>2, <2>3 DEF CallHolds
  <2> QED BY <1>2, <2>1, <2>2, <2>4 DEF InOrder, n
<1>6. CASE Subscribe(c)
  <2>1. CASE raced'[n]
    BY <2>1 DEF InOrder, n
  <2>2. CASE ~raced'[n]
    <3>1. ~raced[n] /\ Pending(n) = {}
      BY <1>1, <1>2, <1>6, <2>2 DEF Subscribe, Call, CountTypes, n
    <3>2. phase[c] = "registered" /\ c \notin Counting(n)
      BY <1>3, <1>6 DEF Subscribe, Counted
    <3>3. CASE count[n] = 0
      <4>1. phase' = [phase EXCEPT ![c] = "subscribing"] /\ asked' = [asked EXCEPT ![c] = object[n]] /\ UNCHANGED <<count, redis, leaked>>
        BY <1>6, <3>3 DEF Subscribe, Call, n
      <4>2. Counting(n)' = Counting(n)
        BY <1>2, <1>3, <1>4, <3>2, <4>1 DEF Counted, CountTypes
      <4>3. Pending(n)' = {c}
        BY <1>2, <1>3, <1>4, <3>1, <4>1 DEF CountTypes, n
      <4>4. CallHolds(c)'
        BY <1>2, <3>3, <4>1 DEF CallHolds, CountTypes, redis, n
      <4> QED BY <1>2, <3>1, <4>1, <4>2, <4>3, <4>4 DEF InOrder, redis, n
    <3>4. CASE count[n] # 0
      <4>1. phase' = [phase EXCEPT ![c] = "subscribed"] /\ count' = [count EXCEPT ![n] = @ + 1] /\ UNCHANGED <<redis, leaked>>
        BY <1>6, <3>4 DEF Subscribe, Call, n
      <4>2. Counting(n)' = Counting(n) \cup {c}
        BY <1>2, <1>3, <1>4, <4>1 DEF Counted, CountTypes, n
      <4>3. Pending(n)' = {}
        BY <1>2, <1>3, <1>4, <3>1, <4>1 DEF CountTypes
      <4>4. Cardinality(Counting(n)') = Cardinality(Counting(n)) + 1
        BY <1>3, <3>2, <4>2, FS_AddElement
      <4>5. count'[n] = count[n] + 1 /\ count'[n] > 0 /\ count[n] > 0 /\ leaked[n] \in Nat
        BY <1>1, <1>2, <3>4, <4>1 DEF CountTypes
      <4>6. count[n] = Cardinality(Counting(n)) + leaked[n]
        BY <1>2, <3>1 DEF InOrder
      <4>7. count'[n] = Cardinality(Counting(n)') + leaked[n]
        BY <1>3, <4>4, <4>5, <4>6
      <4> QED BY <1>2, <3>1, <4>1, <4>3, <4>5, <4>7 DEF InOrder, redis, n
    <3> QED BY <3>3, <3>4
  <2> QED BY <2>1, <2>2 DEF n
<1>7. CASE FinishSubscribe(c)
  <2>1. /\ phase[c] = "subscribing" /\ phase' = [phase EXCEPT ![c] = "subscribed"]
        /\ count' = [count EXCEPT ![n] = 1] /\ UNCHANGED <<raced, reader, object, asked, leaked>>
        /\ listening' = [listening EXCEPT ![n] = @ \/ (asked[c] = object[n] /\ reader[n] # "broken")]
    BY <1>7 DEF FinishSubscribe, n
  <2>2. CASE raced[n]
    BY <2>1, <2>2 DEF InOrder, n
  <2>3. CASE ~raced[n]
    <3>1. c \in Pending(n) /\ c \notin Counting(n)
      BY <1>3, <2>1 DEF Counted, n
    <3>2. asked[c] = object[n] /\ count[n] = 0 /\ Pending(n) = {c}
      BY <1>2, <2>1, <2>3, <3>1 DEF InOrder, CallHolds, n
    <3>3. Counting(n) = {} /\ leaked[n] = 0
      <4>1. Cardinality(Counting(n)) + leaked[n] = 0 /\ leaked[n] \in Nat
        BY <1>1, <1>2, <2>3, <3>2 DEF InOrder, CountTypes
      <4>2. Cardinality(Counting(n)) = 0 /\ leaked[n] = 0
        BY <1>3, <4>1
      <4> QED BY <1>3, <4>2, FS_EmptySet
    <3>4. Counting(n)' = {c}
      BY <1>2, <1>3, <1>4, <2>1, <3>3 DEF Counted, CountTypes, n
    <3>5. Cardinality(Counting(n)') = 1
      BY <3>4, FS_Singleton
    <3>6. Pending(n)' = {}
      BY <1>2, <1>3, <1>4, <2>1, <3>2 DEF CountTypes
    <3>7. reader[n] = "reading" => listening'[n]
      <4>1. reader[n] = "reading" => listening' = [listening EXCEPT ![n] = TRUE]
        BY <2>1, <3>2
      <4> QED BY <1>1, <1>2, <4>1, Zenon DEF CountTypes
    <3>8. count'[n] = 1 /\ reader'[n] = reader[n] /\ leaked'[n] = 0
      BY <1>1, <1>2, <2>1, <3>3 DEF CountTypes
    <3> QED BY <3>5, <3>6, <3>7, <3>8 DEF InOrder, n
  <2> QED BY <2>2, <2>3
<1>8. CASE Leave(c)
  <2>1. CASE raced'[n]
    BY <2>1 DEF InOrder, n
  <2>2. CASE ~raced'[n]
    <3>1. ~raced[n] /\ Pending(n) = {}
      BY <1>1, <1>2, <1>8, <2>2 DEF Leave, Call, CountTypes, n
    <3>2. phase[c] = "live" /\ c \in Counting(n)
      BY <1>3, <1>8 DEF Leave, Counted, n
    <3>3. /\ count[n] = Cardinality(Counting(n)) + leaked[n] /\ leaked[n] \in Nat
          /\ count[n] # 0
      <4>1. Cardinality(Counting(n)) # 0
        BY <1>3, <3>2, FS_EmptySet
      <4>2. count[n] = Cardinality(Counting(n)) + leaked[n] /\ leaked[n] \in Nat
        BY <1>1, <1>2, <3>1 DEF InOrder, CountTypes
      <4> QED BY <1>3, <4>1, <4>2
    <3>4. CASE count[n] <= 1
      <4>1. phase' = [phase EXCEPT ![c] = "unsubscribing"] /\ asked' = [asked EXCEPT ![c] = object[n]] /\ UNCHANGED <<count, redis, leaked>>
        BY <1>8, <3>4 DEF Leave, Call, n
      <4>2. Counting(n)' = Counting(n)
        BY <1>2, <1>3, <1>4, <3>2, <4>1 DEF Counted, CountTypes
      <4>3. Pending(n)' = {c}
        BY <1>2, <1>3, <1>4, <3>1, <4>1 DEF CountTypes, n
      <4>4. count[n] = 1
        BY <1>1, <1>2, <3>3, <3>4 DEF CountTypes
      <4>5. CallHolds(c)'
        BY <1>2, <4>1, <4>4 DEF CallHolds, CountTypes, redis, n
      <4> QED BY <1>2, <3>1, <4>1, <4>2, <4>3, <4>5 DEF InOrder, redis, n
    <3>5. CASE ~(count[n] <= 1)
      <4>1. phase' = [phase EXCEPT ![c] = "off"] /\ count' = [count EXCEPT ![n] = @ - 1] /\ UNCHANGED <<redis, leaked>>
        BY <1>8, <3>5 DEF Leave, Call, n
      <4>2. Counting(n)' = Counting(n) \ {c}
        BY <1>2, <1>3, <1>4, <4>1 DEF Counted, CountTypes, n
      <4>3. Pending(n)' = {}
        BY <1>2, <1>3, <1>4, <3>1, <4>1 DEF CountTypes
      <4>4. Cardinality(Counting(n)') = Cardinality(Counting(n)) - 1
        BY <1>3, <3>2, <4>2, FS_RemoveElement
      <4>5. count'[n] = count[n] - 1 /\ count'[n] > 0 /\ count[n] > 0
        BY <1>1, <1>2, <3>5, <4>1 DEF CountTypes
      <4>6. count'[n] = Cardinality(Counting(n)') + leaked[n]
        BY <1>3, <3>3, <4>4, <4>5
      <4> QED BY <1>2, <3>1, <4>1, <4>3, <4>5, <4>6 DEF InOrder, redis, n
    <3> QED BY <3>4, <3>5
  <2> QED BY <2>1, <2>2
<1>9. CASE FinishUnsubscribe(c)
  <2>1. /\ phase[c] = "unsubscribing" /\ phase' = [phase EXCEPT ![c] = "off"]
        /\ count' = [count EXCEPT ![n] = 0] /\ UNCHANGED <<raced, reader, object, asked, leaked>>
        /\ listening' = [listening EXCEPT ![n] = @ /\ asked[c] # object[n]]
    BY <1>9 DEF FinishUnsubscribe, history, n
  <2>2. CASE raced[n]
    BY <2>1, <2>2 DEF InOrder, n
  <2>3. CASE ~raced[n]
    <3>1. c \in Pending(n) /\ c \in Counting(n)
      BY <1>3, <2>1 DEF Counted, n
    <3>2. asked[c] = object[n] /\ count[n] = 1 /\ Pending(n) = {c}
      BY <1>2, <2>1, <2>3, <3>1 DEF InOrder, CallHolds, n
    <3>3. Counting(n)' = Counting(n) \ {c}
      BY <1>2, <1>3, <1>4, <2>1 DEF Counted, CountTypes, n
    <3>4. Cardinality(Counting(n)') = 0 /\ leaked[n] = 0
      <4>1. Cardinality(Counting(n)) = 1 /\ leaked[n] = 0
        <5>1. Cardinality(Counting(n)) + leaked[n] = 1 /\ leaked[n] \in Nat
          BY <1>1, <1>2, <2>3, <3>2 DEF InOrder, CountTypes
        <5>2. Cardinality(Counting(n)) # 0
          BY <1>3, <3>1, FS_EmptySet
        <5> QED BY <1>3, <5>1, <5>2
      <4>2. Cardinality(Counting(n) \ {c}) = Cardinality(Counting(n)) - 1
        BY <1>3, <3>1, FS_RemoveElement
      <4> QED BY <3>3, <4>1, <4>2
    <3>5. Pending(n)' = {}
      BY <1>2, <1>3, <1>4, <2>1, <3>2 DEF CountTypes
    <3> QED BY <1>1, <1>2, <2>1, <3>2, <3>4, <3>5 DEF InOrder, CountTypes, n
  <2> QED BY <2>2, <2>3
<1>10. CASE CallRaises(c)
  <2>1. /\ phase[c] \in {"subscribing", "subscribed", "welcomed", "unsubscribing"}
        /\ phase' = [phase EXCEPT ![c] = "off"]
        /\ leaked' = [leaked EXCEPT ![n] = IF phase[c] \in Counted THEN @ + 1 ELSE @]
        /\ UNCHANGED <<redis, count, asked, raced>>
    BY <1>10 DEF CallRaises, n
  <2>2. CASE raced[n]
    BY <2>1, <2>2 DEF InOrder, n
  <2>3. CASE ~raced[n]
    <3>1. count[n] = Cardinality(Counting(n)) + leaked[n] /\ leaked[n] \in Nat
      BY <1>1, <1>2, <2>3 DEF InOrder, CountTypes
    <3>2. Pending(n)' = Pending(n) \ {c}
      BY <1>2, <1>3, <1>4, <2>1 DEF CountTypes
    <3>3. \A d \in Pending(n)' : phase'[d] = phase[d] /\ d \in Pending(n)
      BY <1>2, <1>3, <2>1, <3>2 DEF CountTypes
    <3>4. \A d \in Pending(n)' : CallHolds(d)'
      BY <1>2, <2>1, <2>3, <3>3 DEF InOrder, CallHolds, redis
    <3>5. count'[n] = Cardinality(Counting(n)') + leaked'[n]
      <4>1. CASE phase[c] \in Counted
        <5>1. Counting(n)' = Counting(n) \ {c} /\ c \in Counting(n)
          BY <1>2, <1>3, <1>4, <2>1, <4>1 DEF Counted, CountTypes, n
        <5>2. Cardinality(Counting(n) \ {c}) = Cardinality(Counting(n)) - 1
          BY <1>3, <5>1, FS_RemoveElement
        <5>3. leaked'[n] = leaked[n] + 1 /\ count'[n] = count[n]
          BY <1>1, <1>2, <2>1, <4>1 DEF CountTypes
        <5> QED BY <1>3, <3>1, <5>1, <5>2, <5>3
      <4>2. CASE phase[c] \notin Counted
        <5>1. Counting(n)' = Counting(n)
          BY <1>2, <1>3, <1>4, <2>1, <4>2 DEF Counted, CountTypes
        <5>2. leaked'[n] = leaked[n] /\ count'[n] = count[n]
          BY <1>1, <1>2, <2>1, <4>2 DEF CountTypes
        <5> QED BY <3>1, <5>1, <5>2
      <4> QED BY <4>1, <4>2
    <3> QED BY <1>2, <2>1, <2>3, <3>3, <3>4, <3>5 DEF InOrder, redis, n
  <2> QED BY <2>2, <2>3
<1> QED BY <1>5, <1>6, <1>7, <1>8, <1>9, <1>10 DEF Endpoint, n

\* The reader task.
LEMMA ReadingInOrder ==
  ASSUME CountInv, NEW n \in Nodes, Reading(n)
  PROVE  InOrder(n)'
<1>1. CountTypes /\ InOrder(n)
  BY DEF CountInv
<1>2. CASE Deliver(n)
  BY <1>1, <1>2, Untouched DEF Deliver, endpoint
<1>3. CASE ReaderFails(n) \/ Reconnect(n) \/ ReconnectFails(n)
  <2>1. CASE raced'[n]
    BY <2>1 DEF InOrder
  <2>2. CASE ~raced'[n]
    <3>1. raced' = [raced EXCEPT ![n] = raced[n] \/ Pending(n) # {}] /\ UNCHANGED <<count, phase, asked, leaked>>
      BY <1>3 DEF ReaderFails, Reconnect, ReconnectFails, endpoint
    <3>2. ~raced[n] /\ Pending(n) = {}
      BY <1>1, <2>2, <3>1 DEF CountTypes
    <3>3. Counting(n)' = Counting(n) /\ Pending(n)' = {}
      BY <3>1, <3>2 DEF Counting, Pending, Locals
    <3>4. reader'[n] = "reading" => (listening'[n] <=> count[n] > 0)
      <4>1. CASE Reconnect(n)
        BY <1>1, <4>1 DEF Reconnect, CountTypes
      <4>2. CASE ReaderFails(n) \/ ReconnectFails(n)
        BY <1>1, <4>2 DEF ReaderFails, ReconnectFails, CountTypes
      <4> QED BY <1>3, <4>1, <4>2
    <3> QED BY <1>1, <3>1, <3>2, <3>3, <3>4 DEF InOrder
  <2> QED BY <2>1, <2>2
<1>4. CASE Crash(n)
  <2>1. Counting(n)' = {} /\ Pending(n)' = {}
    BY <1>4 DEF Crash, Counting, Pending, Locals, Counted
  <2>2. count'[n] = 0 /\ listening'[n] = FALSE /\ leaked'[n] = 0
    BY <1>1, <1>4 DEF Crash, CountTypes
  <2> QED BY <2>1, <2>2, FS_EmptySet DEF InOrder
<1> QED BY <1>2, <1>3, <1>4 DEF Reading

\* What a client's endpoint, or a process, does leaves the others alone.
LEMMA OthersInOrder ==
  ASSUME CountInv, NEW n \in Nodes,
         \/ \E c \in Clients : Home[c] # n /\ Endpoint(c)
         \/ \E m \in Nodes \ {n} : Reading(m)
  PROVE  InOrder(n)'
<1>1. CountTypes /\ InOrder(n)
  BY DEF CountInv
<1>2. ASSUME NEW c \in Clients, Home[c] # n, Endpoint(c) PROVE InOrder(n)'
  <2> Home[c] \in Nodes
    BY BackplaneAssumption
  <2>1. /\ \A d \in Clients : Home[d] = n => phase'[d] = phase[d] /\ asked'[d] = asked[d]
        /\ count'[n] = count[n]
    BY <1>1, <1>2 DEF Endpoint, Register, Subscribe, FinishSubscribe, ReadSeq, ReadSnapshot, SendSnapshot, Leave,
         FinishUnsubscribe, CallRaises, Call, history, redis, CountTypes
  <2>2. object'[n] = object[n] /\ reader'[n] = reader[n]
    BY <1>2 DEF Endpoint, Register, Subscribe, FinishSubscribe, ReadSeq, ReadSnapshot, SendSnapshot, Leave,
         FinishUnsubscribe, CallRaises, Call, redis
  <2>3. raced'[n] = raced[n] /\ listening'[n] = listening[n] /\ leaked'[n] = leaked[n]
    BY <1>1, <1>2 DEF Endpoint, Register, Subscribe, FinishSubscribe, ReadSeq, ReadSnapshot, SendSnapshot, Leave,
         FinishUnsubscribe, CallRaises, Call, history, redis, CountTypes
  <2> QED BY <1>1, <2>1, <2>2, <2>3, Untouched
<1>3. ASSUME NEW m \in Nodes \ {n}, Reading(m) PROVE InOrder(n)'
  <2>1. \A d \in Clients : Home[d] = n => phase'[d] = phase[d] /\ asked'[d] = asked[d]
    BY <1>1, <1>3 DEF Reading, Deliver, ReaderFails, Reconnect, ReconnectFails, Crash, endpoint, CountTypes
  <2>2. count'[n] = count[n] /\ object'[n] = object[n] /\ reader'[n] = reader[n]
    BY <1>1, <1>3 DEF Reading, Deliver, ReaderFails, Reconnect, ReconnectFails, Crash, endpoint, CountTypes
  <2>3. raced'[n] = raced[n] /\ listening'[n] = listening[n] /\ leaked'[n] = leaked[n]
    BY <1>1, <1>3 DEF Reading, Deliver, ReaderFails, Reconnect, ReconnectFails, Crash, CountTypes
  <2> QED BY <1>1, <2>1, <2>2, <2>3, Untouched
<1> QED BY <1>2, <1>3

\* Every step keeps every process in order.
LEMMA CountStep == CountInv /\ [Next]_vars => CountInv'
<1> SUFFICES ASSUME CountInv, [Next]_vars, NEW n \in Nodes PROVE InOrder(n)'
  BY CountTypesStep DEF CountInv
<1>1. InOrder(n)
  BY DEF CountInv
<1>2. CASE UNCHANGED vars
  BY <1>1, <1>2, Untouched DEF vars, redis, endpoint, history
<1>3. ASSUME NEW p \in Publishers, Publishing(p) PROVE InOrder(n)'
  BY <1>1, <1>3, Untouched DEF Publishing, CommitMove, SendChat, Begin, DrawSeq, Publish, PublishFails, redis, endpoint, history
<1>4. ASSUME NEW c \in Clients, Endpoint(c) PROVE InOrder(n)'
  BY <1>4, EndpointInOrder, OthersInOrder
<1>5. ASSUME NEW m \in Nodes, Reading(m) PROVE InOrder(n)'
  BY <1>5, ReadingInOrder, OthersInOrder
<1> QED BY <1>2, <1>3, <1>4, <1>5 DEF Next

\* For any number of processes, clients and failures: as long as no two calls of a
\* process overlap, its count is its connections and what calls that raised left of
\* it, and with no call pending it listens exactly if it counts any
\* (Backplane.subscribe, unsubscribe, _reader_loop).
THEOREM CountStaysRight == Spec => []CountIsRight
<1>1. CountInv => CountIsRight
  BY DEF CountInv, InOrder, CountIsRight, CountTypes
<1> QED BY <1>1, InitCount, CountStep, PTL DEF Spec

-----------------------------------------------------------------------------
(* Numbers.                                                                *)

Message == [seq : Nat, version : Nat]

Sending == [at : {"committed", "drawn"}, version : Nat, seq : Nat]

SeqTypes ==
  /\ version \in Nat /\ seq \in Nat
  /\ pub \in [Publishers -> {Idle} \cup Sending]
  /\ wire \in [Nodes -> Seq(Message)] /\ heard \in [Clients -> Seq(Nat)]
  /\ unordered \in BOOLEAN

Drawn(p) == pub[p].at = "drawn"

\* Every number so far, but for the one that is drawn and not yet sent.
Sent == {k \in 0..seq : (\E p \in Publishers : Drawn(p)) => k < seq}

OnePublishing ==
  /\ \A p, q \in Publishers : pub[p] # Idle /\ pub[q] # Idle => p = q
  /\ \A p \in Publishers : Drawn(p) => pub[p].seq = seq

WiresAscend ==
  \A n \in Nodes :
    /\ \A i \in 1..Len(wire[n]) : wire[n][i].seq \in Sent
    /\ \A i, j \in 1..Len(wire[n]) : i < j => wire[n][i].seq < wire[n][j].seq

HeardAscend ==
  \A c \in Clients :
    /\ \A i \in 1..Len(heard[c]) : heard[c][i] \in Sent
    /\ \A i, j \in 1..Len(heard[c]) : i < j => heard[c][i] < heard[c][j]
    /\ \A i \in 1..Len(heard[c]), j \in 1..Len(wire[Home[c]]) : heard[c][i] < wire[Home[c]][j].seq

\* As long as publications do not overlap, at most one is under way, and what
\* was sent is older than it, and what was heard than what was sent.
SeqInv == SeqTypes /\ (~unordered => OnePublishing /\ WiresAscend /\ HeardAscend)

\* A queue of messages, put to and taken from.
LEMMA QueueOps ==
  ASSUME NEW S, NEW q \in Seq(S), NEW x \in S
  PROVE  /\ Append(q, x) \in Seq(S) /\ Len(Append(q, x)) = Len(q) + 1
         /\ \A i \in 1..Len(q) : Append(q, x)[i] = q[i]
         /\ Append(q, x)[Len(q) + 1] = x
         /\ q # << >> => /\ Head(q) \in S /\ Head(q) = q[1] /\ Len(q) >= 1
                         /\ Tail(q) \in Seq(S) /\ Len(Tail(q)) = Len(q) - 1
                         /\ \A i \in 1..Len(Tail(q)) : Tail(q)[i] = q[i + 1]
OBVIOUS

\* No number has been drawn at first.
LEMMA InitSeq == Init => SeqInv
<1> SUFFICES ASSUME Init PROVE SeqInv
  OBVIOUS
<1>1. << >> \in Seq(Message) /\ << >> \in Seq(Nat) /\ Len(<< >>) = 0
  OBVIOUS
<1>2. SeqTypes
  BY <1>1 DEF Init, SeqTypes
<1>3. \A p \in Publishers : pub[p] = Idle /\ ~Drawn(p)
  BY DEF Init, Drawn, Idle
<1>4. \A n \in Nodes : 1..Len(wire[n]) = {}
  BY <1>1 DEF Init
<1>5. \A c \in Clients : 1..Len(heard[c]) = {}
  BY <1>1 DEF Init
<1> QED BY <1>2, <1>3, <1>4, <1>5 DEF SeqInv, OnePublishing, WiresAscend, HeardAscend

\* Nothing that counts here changes, or only what was heard is forgotten.
LEMMA SeqUnchanged ==
  ASSUME SeqInv, UNCHANGED <<version, seq, pub>>, unordered' \in BOOLEAN, unordered => unordered',
         \A c \in Clients : heard'[c] \in {heard[c], << >>}, heard' \in [Clients -> Seq(Nat)],
         \A n \in Nodes : wire'[n] \in {wire[n], << >>}, wire' \in [Nodes -> Seq(Message)]
  PROVE  SeqInv'
<1>1. SeqTypes'
  BY DEF SeqInv, SeqTypes
<1>2. CASE unordered'
  BY <1>1, <1>2 DEF SeqInv
<1>3. CASE ~unordered'
  <2>1. OnePublishing' /\ Sent' = Sent
    BY <1>3 DEF SeqInv, OnePublishing, Sent, Drawn
  <2>2. 1..Len(<< >>) = {}
    OBVIOUS
  <2>3. WiresAscend'
    <3> SUFFICES ASSUME NEW n \in Nodes
                 PROVE  /\ \A i \in 1..Len(wire'[n]) : wire'[n][i].seq \in Sent
                        /\ \A i, j \in 1..Len(wire'[n]) : i < j => wire'[n][i].seq < wire'[n][j].seq
      BY <2>1 DEF WiresAscend
    <3>1. CASE wire'[n] = wire[n]
      BY <1>3, <3>1 DEF SeqInv, WiresAscend
    <3>2. CASE wire'[n] = << >>
      BY <2>2, <3>2
    <3> QED BY <3>1, <3>2
  <2>4. HeardAscend'
    <3> SUFFICES ASSUME NEW c \in Clients
                 PROVE  /\ \A i \in 1..Len(heard'[c]) : heard'[c][i] \in Sent
                        /\ \A i, j \in 1..Len(heard'[c]) : i < j => heard'[c][i] < heard'[c][j]
                        /\ \A i \in 1..Len(heard'[c]), j \in 1..Len(wire'[Home[c]]) : heard'[c][i] < wire'[Home[c]][j].seq
      BY <2>1 DEF HeardAscend
    <3> Home[c] \in Nodes
      BY BackplaneAssumption
    <3>1. CASE heard'[c] = << >> \/ wire'[Home[c]] = << >>
      BY <1>3, <2>2, <3>1 DEF SeqInv, HeardAscend
    <3>2. CASE heard'[c] = heard[c] /\ wire'[Home[c]] = wire[Home[c]]
      BY <1>3, <3>2 DEF SeqInv, HeardAscend
    <3> QED BY <3>1, <3>2
  <2> QED BY <1>1, <2>1, <2>3, <2>4 DEF SeqInv
<1> QED BY <1>2, <1>3

\* Publishing: Begin, DrawSeq, Publish and PublishFails.
LEMMA PublishingSeq ==
  ASSUME SeqInv, NEW p \in Publishers, Publishing(p)
  PROVE  SeqInv'
<1> USE DEF Sending
<1>1. SeqTypes /\ (~unordered => OnePublishing /\ WiresAscend /\ HeardAscend)
  BY DEF SeqInv
<1>2. \A q \in Publishers : /\ pub[q] = Idle => pub[q].at = "idle"
                            /\ pub[q] # Idle => pub[q] \in Sending /\ pub[q].at # "idle"
  BY <1>1 DEF SeqTypes, Idle
<1>3. ASSUME NEW v \in Nat, Begin(p, v), version' \in Nat PROVE SeqInv'
  <2>1. UNCHANGED <<seq, wire, heard>> /\ pub' = [pub EXCEPT ![p] = [at |-> "committed", version |-> v, seq |-> 0]]
    BY <1>3 DEF Begin, redis, client
  <2>2. unordered' \in BOOLEAN /\ (~unordered' => ~unordered /\ Busy = {})
    BY <1>1, <1>3 DEF Begin, SeqTypes
  <2>3. SeqTypes'
    BY <1>1, <1>3, <2>1, <2>2 DEF SeqTypes
  <2>4. CASE ~unordered'
    <3>1. \A q \in Publishers : pub[q] = Idle
      BY <2>2, <2>4 DEF Busy
    <3>2. \A q \in Publishers : ~Drawn(q) /\ ~Drawn(q)' /\ (q # p => pub'[q] = Idle)
      BY <1>1, <1>2, <2>1, <3>1 DEF Drawn, SeqTypes
    <3>3. OnePublishing' /\ Sent' = Sent
      BY <2>1, <3>2 DEF OnePublishing, Sent
    <3> QED BY <1>1, <2>1, <2>2, <2>3, <2>4, <3>3 DEF SeqInv, WiresAscend, HeardAscend
  <2> QED BY <2>3, <2>4 DEF SeqInv
<1>4. CASE DrawSeq(p)
  <2>1. /\ pub[p] # Idle /\ pub[p].at = "committed" /\ seq' = seq + 1
        /\ pub' = [pub EXCEPT ![p].at = "drawn", ![p].seq = seq + 1]
        /\ UNCHANGED <<version, wire, heard, unordered>>
    BY <1>4 DEF DrawSeq, redis, client, history
  <2>2. pub'[p].at = "drawn" /\ pub'[p].seq = seq + 1 /\ \A q \in Publishers \ {p} : pub'[q] = pub[q]
    BY <1>1, <1>2, <2>1 DEF SeqTypes
  <2>3. pub' \in [Publishers -> {Idle} \cup Sending]
    <3>1. pub[p] \in Sending /\ seq + 1 \in Nat
      BY <1>1, <1>2, <2>1 DEF SeqTypes
    <3>2. pub'[p] = [pub[p] EXCEPT !.at = "drawn", !.seq = seq + 1]
      BY <1>1, <2>1 DEF SeqTypes
    <3>3. pub'[p] \in Sending
      BY <3>1, <3>2
    <3>4. pub' = [pub EXCEPT ![p] = pub'[p]]
      BY <1>1, <2>1 DEF SeqTypes
    <3> QED BY <1>1, <3>3, <3>4 DEF SeqTypes
  <2>4. SeqTypes'
    BY <1>1, <2>1, <2>3 DEF SeqTypes
  <2>5. CASE ~unordered
    <3>1. \A q \in Publishers \ {p} : pub[q] = Idle
      BY <1>1, <2>1, <2>5 DEF OnePublishing
    <3>2. (\A q \in Publishers : ~Drawn(q)) /\ Drawn(p)' /\ \A q \in Publishers \ {p} : ~Drawn(q)'
      BY <1>2, <2>1, <2>2, <3>1 DEF Drawn
    <3>3. Sent' = Sent
      BY <1>1, <2>1, <3>2 DEF Sent, SeqTypes
    <3>4. OnePublishing'
      BY <2>1, <2>2, <3>1, <3>2 DEF OnePublishing
    <3> QED BY <1>1, <2>1, <2>4, <2>5, <3>3, <3>4 DEF SeqInv, WiresAscend, HeardAscend
  <2> QED BY <2>1, <2>4, <2>5 DEF SeqInv
<1>5. CASE Publish(p)
  <2> DEFINE msg == [seq |-> pub[p].seq, version |-> pub[p].version]
  <2>1. /\ pub[p] # Idle /\ pub[p].at = "drawn" /\ pub' = [pub EXCEPT ![p] = Idle]
        /\ UNCHANGED <<version, seq, heard, unordered>>
        /\ wire' = [n \in Nodes |-> IF listening[n] THEN Append(wire[n], msg) ELSE wire[n]]
    BY <1>5 DEF Publish, client
  <2>2. msg \in Message /\ msg.seq = pub[p].seq
    BY <1>2, <2>1 DEF Message
  <2> HIDE DEF msg
  <2>3. \A n \in Nodes : wire'[n] = wire[n] \/ wire'[n] = Append(wire[n], msg)
    BY <2>1
  <2>4. wire' \in [Nodes -> Seq(Message)]
    <3>1. ASSUME NEW n \in Nodes PROVE Append(wire[n], msg) \in Seq(Message) /\ wire[n] \in Seq(Message)
      BY <1>1, <2>2, QueueOps DEF SeqTypes
    <3> QED BY <2>1, <3>1
  <2>5. SeqTypes'
    BY <1>1, <2>1, <2>4 DEF SeqTypes
  <2>6. CASE ~unordered
    <3>1. msg.seq = seq /\ \A q \in Publishers \ {p} : pub[q] = Idle
      BY <1>1, <2>1, <2>2, <2>6 DEF OnePublishing, Drawn
    <3>2. \A q \in Publishers : pub'[q] = Idle /\ ~Drawn(q)'
      BY <1>1, <2>1, <3>1 DEF SeqTypes, Drawn, Idle
    <3>3. OnePublishing' /\ Sent' = 0..seq /\ \A k \in Sent : k \in 0..seq /\ k < seq
      BY <2>1, <3>2 DEF OnePublishing, Sent, Drawn
    <3>4. ASSUME NEW n \in Nodes
          PROVE  /\ \A i \in 1..Len(wire'[n]) : /\ wire'[n][i].seq \in Sent'
                                                /\ \/ i \in 1..Len(wire[n]) /\ wire'[n][i] = wire[n][i]
                                                   \/ i = Len(wire[n]) + 1 /\ wire'[n][i].seq = seq
                 /\ \A i, j \in 1..Len(wire'[n]) : i < j => wire'[n][i].seq < wire'[n][j].seq
      <4>0. /\ \A i \in 1..Len(wire[n]) : wire[n][i].seq \in Sent
            /\ \A i, j \in 1..Len(wire[n]) : i < j => wire[n][i].seq < wire[n][j].seq
            /\ wire[n] \in Seq(Message) /\ Len(wire[n]) \in Nat /\ seq \in Nat
        BY <1>1, <2>6 DEF WiresAscend, SeqTypes
      <4>1. CASE wire'[n] = wire[n]
        BY <3>3, <4>0, <4>1
      <4>2. CASE wire'[n] = Append(wire[n], msg)
        <5>1. /\ Len(wire'[n]) = Len(wire[n]) + 1
              /\ \A i \in 1..Len(wire[n]) : wire'[n][i] = wire[n][i]
              /\ wire'[n][Len(wire[n]) + 1] = msg
          BY <2>2, <4>0, <4>2, QueueOps
        <5>2. \A i \in 1..Len(wire'[n]) : i \in 1..Len(wire[n]) \/ i = Len(wire[n]) + 1
          BY <4>0, <5>1
        <5>3. \A i \in 1..Len(wire[n]) : wire[n][i].seq \in 0..seq /\ wire[n][i].seq < seq
          BY <3>3, <4>0
        <5>4. \A i \in 1..Len(wire'[n]) : wire'[n][i].seq \in Sent'
          BY <3>1, <3>3, <4>0, <5>1, <5>2, <5>3
        <5>5. ASSUME NEW i \in 1..Len(wire'[n]), NEW j \in 1..Len(wire'[n]), i < j
              PROVE  wire'[n][i].seq < wire'[n][j].seq
          <6>1. i \in 1..Len(wire[n])
            BY <4>0, <5>1, <5>2, <5>5
          <6>2. CASE j \in 1..Len(wire[n])
            BY <4>0, <5>1, <5>5, <6>1, <6>2
          <6>3. CASE j = Len(wire[n]) + 1
            BY <3>1, <5>1, <5>3, <6>1, <6>3
          <6> QED BY <5>2, <6>2, <6>3
        <5>6. \A i \in 1..Len(wire'[n]) : \/ i \in 1..Len(wire[n]) /\ wire'[n][i] = wire[n][i]
                                          \/ i = Len(wire[n]) + 1 /\ wire'[n][i].seq = seq
          BY <3>1, <5>1, <5>2
        <5> QED BY <5>4, <5>5, <5>6
      <4> QED BY <2>3, <4>1, <4>2
    <3>5. WiresAscend'
      BY <3>4 DEF WiresAscend
    <3>6. HeardAscend'
      <4> SUFFICES ASSUME NEW c \in Clients
                   PROVE  /\ \A i \in 1..Len(heard[c]) : heard[c][i] \in Sent'
                          /\ \A i, j \in 1..Len(heard[c]) : i < j => heard[c][i] < heard[c][j]
                          /\ \A i \in 1..Len(heard[c]), j \in 1..Len(wire'[Home[c]]) : heard[c][i] < wire'[Home[c]][j].seq
        BY <2>1 DEF HeardAscend
      <4>1. Home[c] \in Nodes
        BY BackplaneAssumption
      <4>2. /\ \A i \in 1..Len(heard[c]) : heard[c][i] \in Sent
            /\ \A i, j \in 1..Len(heard[c]) : i < j => heard[c][i] < heard[c][j]
            /\ \A i \in 1..Len(heard[c]), j \in 1..Len(wire[Home[c]]) : heard[c][i] < wire[Home[c]][j].seq
        BY <1>1, <2>6 DEF HeardAscend
      <4> QED BY <3>3, <3>4, <4>1, <4>2
    <3> QED BY <2>1, <2>5, <3>3, <3>5, <3>6 DEF SeqInv
  <2> QED BY <2>1, <2>5, <2>6 DEF SeqInv
<1>6. CASE PublishFails(p)
  <2>1. /\ pub[p] # Idle /\ pub' = [pub EXCEPT ![p] = Idle] /\ UNCHANGED <<version, seq, wire, heard>>
    BY <1>6 DEF PublishFails, redis, client
  <2>2. unordered' \in BOOLEAN /\ (~unordered' => ~unordered)
    BY <1>1, <1>6 DEF PublishFails, SeqTypes
  <2>3. SeqTypes'
    BY <1>1, <2>1, <2>2 DEF SeqTypes
  <2>4. CASE ~unordered'
    <3>1. \A q \in Publishers : pub'[q] = Idle /\ ~Drawn(q)'
      BY <1>1, <2>1, <2>2, <2>4 DEF SeqTypes, OnePublishing, Drawn, Idle
    <3>2. OnePublishing' /\ Sent \subseteq Sent'
      BY <2>1, <3>1 DEF OnePublishing, Sent
    <3> QED BY <1>1, <2>1, <2>2, <2>3, <2>4, <3>2 DEF SeqInv, WiresAscend, HeardAscend
  <2> QED BY <2>3, <2>4 DEF SeqInv
<1>7. ASSUME CommitMove(p) \/ SendChat(p) PROVE SeqInv'
  <2>1. CASE CommitMove(p)
    <3>1. version + 1 \in Nat /\ version' = version + 1 /\ Begin(p, version + 1)
      BY <1>1, <2>1 DEF CommitMove, SeqTypes
    <3> QED BY <1>3, <3>1
  <2>2. CASE SendChat(p)
    <3>1. 0 \in Nat /\ version' \in Nat /\ Begin(p, 0)
      BY <1>1, <2>2 DEF SendChat, SeqTypes
    <3> QED BY <1>3, <3>1
  <2> QED BY <1>7, <2>1, <2>2
<1> QED BY <1>4, <1>5, <1>6, <1>7 DEF Publishing

\* The endpoints only forget.
LEMMA EndpointSeq ==
  ASSUME SeqInv, NEW c \in Clients, Endpoint(c)
  PROVE  SeqInv'
<1>1. SeqTypes /\ << >> \in Seq(Nat)
  BY DEF SeqInv
<1>2. UNCHANGED <<version, seq, pub, wire>>
  BY DEF Endpoint, Register, Subscribe, FinishSubscribe, ReadSeq, ReadSnapshot, SendSnapshot, Leave, FinishUnsubscribe, CallRaises, Call, game, redis
<1>3. unordered' \in BOOLEAN /\ (unordered => unordered')
  <2>1. CASE FinishSubscribe(c)
    BY <1>1, <2>1 DEF FinishSubscribe, SeqTypes
  <2>2. CASE ~FinishSubscribe(c)
    BY <1>1, <2>2 DEF Endpoint, Register, Subscribe, ReadSeq, ReadSnapshot, SendSnapshot, Leave, FinishUnsubscribe, CallRaises, Call, history, SeqTypes
  <2> QED BY <2>1, <2>2
<1>4. heard' \in [Clients -> Seq(Nat)] /\ \A d \in Clients : heard'[d] \in {heard[d], << >>}
  <2>1. CASE Leave(c) \/ CallRaises(c)
    BY <1>1, <2>1 DEF Leave, CallRaises, Forget, SeqTypes
  <2>2. CASE ~Leave(c) /\ ~CallRaises(c)
    BY <1>1, <2>2 DEF Endpoint, Register, Subscribe, FinishSubscribe, ReadSeq, ReadSnapshot, SendSnapshot, FinishUnsubscribe, Call, client, SeqTypes
  <2> QED BY <2>1, <2>2
<1>5. wire' \in [Nodes -> Seq(Message)] /\ \A n \in Nodes : wire'[n] \in {wire[n], << >>}
  BY <1>1, <1>2 DEF SeqTypes
<1> QED BY <1>2, <1>3, <1>4, <1>5, SeqUnchanged

\* The reader hands on in order, or loses what was under way.
LEMMA ReadingSeq ==
  ASSUME SeqInv, NEW n \in Nodes, Reading(n)
  PROVE  SeqInv'
<1>1. SeqTypes /\ << >> \in Seq(Nat) /\ << >> \in Seq(Message)
  BY DEF SeqInv
<1>2. CASE ReaderFails(n) \/ Reconnect(n) \/ ReconnectFails(n) \/ Crash(n)
  <2>1. UNCHANGED <<version, seq, pub, unordered>>
    BY <1>2 DEF ReaderFails, Reconnect, ReconnectFails, Crash, game
  <2>2. heard' \in [Clients -> Seq(Nat)] /\ \A d \in Clients : heard'[d] \in {heard[d], << >>}
    BY <1>1, <1>2 DEF ReaderFails, Reconnect, ReconnectFails, Crash, Forget, client, SeqTypes
  <2>3. wire' \in [Nodes -> Seq(Message)] /\ \A m \in Nodes : wire'[m] \in {wire[m], << >>}
    BY <1>1, <1>2 DEF ReaderFails, Reconnect, ReconnectFails, Crash, SeqTypes
  <2> QED BY <1>1, <2>1, <2>2, <2>3, SeqUnchanged DEF SeqTypes
<1>3. CASE Deliver(n)
  <2> DEFINE w == wire[n]
             k == Head(w).seq
  <2>1. /\ w # << >> /\ wire' = [wire EXCEPT ![n] = Tail(w)] /\ UNCHANGED <<version, seq, pub>>
        /\ heard' = [c \in Clients |-> IF c \in Here(n) THEN Append(heard[c], k) ELSE heard[c]]
    BY <1>3 DEF Deliver, game
  <2>2. unordered' \in BOOLEAN /\ (~unordered' => ~unordered)
    BY <1>1, <1>3 DEF Deliver, SeqTypes
  <2>3. /\ w \in Seq(Message) /\ Head(w) \in Message /\ Head(w) = w[1] /\ Len(w) \in Nat /\ Len(w) >= 1
        /\ Tail(w) \in Seq(Message) /\ Len(Tail(w)) = Len(w) - 1
        /\ \A i \in 1..Len(Tail(w)) : Tail(w)[i] = w[i + 1]
    <3>1. w \in Seq(Message)
      BY <1>1 DEF SeqTypes
    <3>2. Head(w) \in Message
      BY <2>1, <3>1
    <3> QED BY <2>1, <3>1, <3>2, QueueOps
  <2>4. k \in Nat /\ k = w[1].seq
    BY <2>3 DEF Message
  <2> HIDE DEF w, k
  <2>5. \A c \in Clients : heard'[c] = heard[c] \/ (Home[c] = n /\ heard'[c] = Append(heard[c], k))
    BY <2>1 DEF Here, Locals
  <2>6. heard' \in [Clients -> Seq(Nat)]
    <3>1. ASSUME NEW c \in Clients PROVE Append(heard[c], k) \in Seq(Nat) /\ heard[c] \in Seq(Nat)
      BY <1>1, <2>4, QueueOps DEF SeqTypes
    <3> QED BY <2>1, <3>1
  <2>7. SeqTypes'
    BY <1>1, <2>1, <2>2, <2>3, <2>6 DEF SeqTypes
  <2>8. CASE ~unordered'
    <3>1. ~unordered /\ OnePublishing /\ WiresAscend /\ HeardAscend
      BY <2>2, <2>8 DEF SeqInv
    <3>2. OnePublishing' /\ Sent' = Sent
      BY <2>1, <3>1 DEF OnePublishing, Sent, Drawn
    <3>3. wire'[n] = Tail(w) /\ \A m \in Nodes \ {n} : wire'[m] = wire[m]
      BY <1>1, <2>1 DEF SeqTypes
    <3>4. /\ \A i \in 1..Len(w) : w[i].seq \in Sent
          /\ \A i, j \in 1..Len(w) : i < j => w[i].seq < w[j].seq
      BY <3>1 DEF WiresAscend, w
    <3>5. \A i \in 1..Len(Tail(w)) : i \in Nat /\ i + 1 \in 1..Len(w) /\ Tail(w)[i] = w[i + 1] /\ 1 < i + 1 /\ 1 \in 1..Len(w)
      BY <2>3
    <3>6. WiresAscend'
      <4> SUFFICES ASSUME NEW m \in Nodes
                   PROVE  /\ \A i \in 1..Len(wire'[m]) : wire'[m][i].seq \in Sent
                          /\ \A i, j \in 1..Len(wire'[m]) : i < j => wire'[m][i].seq < wire'[m][j].seq
        BY <3>2 DEF WiresAscend
      <4>1. CASE m = n
        <5>1. ASSUME NEW i \in 1..Len(Tail(w)), NEW j \in 1..Len(Tail(w)), i < j PROVE Tail(w)[i].seq < Tail(w)[j].seq
          <6>1. i + 1 < j + 1
            BY <3>5, <5>1
          <6> QED BY <3>4, <3>5, <6>1
        <5> QED BY <3>3, <3>4, <3>5, <4>1, <5>1
      <4>2. CASE m # n
        BY <3>1, <3>3, <4>2 DEF WiresAscend
      <4> QED BY <4>1, <4>2
    <3>7. HeardAscend'
      <4> SUFFICES ASSUME NEW c \in Clients
                   PROVE  /\ \A i \in 1..Len(heard'[c]) : heard'[c][i] \in Sent
                          /\ \A i, j \in 1..Len(heard'[c]) : i < j => heard'[c][i] < heard'[c][j]
                          /\ \A i \in 1..Len(heard'[c]), j \in 1..Len(wire'[Home[c]]) : heard'[c][i] < wire'[Home[c]][j].seq
        BY <3>2 DEF HeardAscend
      <4>1. /\ \A i \in 1..Len(heard[c]) : heard[c][i] \in Sent
            /\ \A i, j \in 1..Len(heard[c]) : i < j => heard[c][i] < heard[c][j]
            /\ \A i \in 1..Len(heard[c]), j \in 1..Len(wire[Home[c]]) : heard[c][i] < wire[Home[c]][j].seq
            /\ heard[c] \in Seq(Nat) /\ Len(heard[c]) \in Nat /\ Home[c] \in Nodes
        BY <1>1, <3>1, BackplaneAssumption DEF HeardAscend, SeqTypes
      <4>2. CASE Home[c] # n
        BY <2>5, <3>3, <4>1, <4>2
      <4>3. CASE Home[c] = n /\ heard'[c] = heard[c]
        <5>1. \A i \in 1..Len(heard[c]), j \in 1..Len(Tail(w)) : heard[c][i] < Tail(w)[j].seq
          BY <3>5, <4>1, <4>3 DEF w
        <5> QED BY <3>3, <4>1, <4>3, <5>1
      <4>4. CASE Home[c] = n /\ heard'[c] = Append(heard[c], k)
        <5>1. /\ Len(heard'[c]) = Len(heard[c]) + 1 /\ heard'[c][Len(heard[c]) + 1] = k
              /\ \A i \in 1..Len(heard[c]) : heard'[c][i] = heard[c][i]
          BY <2>4, <4>1, <4>4, QueueOps
        <5>2. \A i \in 1..Len(heard'[c]) : i \in 1..Len(heard[c]) \/ i = Len(heard[c]) + 1
          BY <4>1, <5>1
        <5>3. k \in Sent /\ 1 \in 1..Len(w) /\ \A i \in 1..Len(heard[c]) : heard[c][i] < k
          BY <2>3, <2>4, <3>4, <4>1, <4>4 DEF w
        <5>4. \A j \in 1..Len(Tail(w)) : k < Tail(w)[j].seq
          BY <2>4, <3>4, <3>5
        <5>5. \A i \in 1..Len(heard[c]), j \in 1..Len(Tail(w)) : heard[c][i] < Tail(w)[j].seq
          BY <3>5, <4>1, <4>4 DEF w
        <5>6. \A i \in 1..Len(heard'[c]) : heard'[c][i] \in Sent
          BY <4>1, <5>1, <5>2, <5>3
        <5>7. ASSUME NEW i \in 1..Len(heard'[c]), NEW j \in 1..Len(heard'[c]), i < j
              PROVE  heard'[c][i] < heard'[c][j]
          <6>1. i \in 1..Len(heard[c])
            BY <4>1, <5>1, <5>2, <5>7
          <6>2. CASE j \in 1..Len(heard[c])
            BY <4>1, <5>1, <5>7, <6>1, <6>2
          <6>3. CASE j = Len(heard[c]) + 1
            BY <5>1, <5>3, <6>1, <6>3
          <6> QED BY <5>2, <6>2, <6>3
        <5>8. \A i \in 1..Len(heard'[c]), j \in 1..Len(Tail(w)) : heard'[c][i] < Tail(w)[j].seq
          BY <5>1, <5>2, <5>4, <5>5
        <5> QED BY <3>3, <4>4, <5>6, <5>7, <5>8
      <4> QED BY <2>5, <4>2, <4>3, <4>4
    <3> QED BY <2>2, <2>7, <3>1, <3>2, <3>6, <3>7 DEF SeqInv
  <2> QED BY <2>7, <2>8 DEF SeqInv
<1> QED BY <1>2, <1>3 DEF Reading

\* Every step keeps the order of numbers.
LEMMA SeqStep == SeqInv /\ [Next]_vars => SeqInv'
<1> SUFFICES ASSUME SeqInv, [Next]_vars PROVE SeqInv'
  OBVIOUS
<1>1. CASE UNCHANGED vars
  BY <1>1, SeqUnchanged DEF vars, game, redis, client, history, SeqInv, SeqTypes
<1> QED BY <1>1, PublishingSeq, EndpointSeq, ReadingSeq DEF Next

\* Numbers reach every connection in ascending order, each once, for any number
\* of processes, publishers and messages, as long as no two publications overlap
\* (Backplane.publish, _reader_loop).
THEOREM NumbersAscend == Spec => []Ascending
<1>1. SeqInv => Ascending
  BY DEF SeqInv, SeqTypes, HeardAscend, Ascending
<1> QED BY <1>1, InitSeq, SeqStep, PTL DEF Spec

-----------------------------------------------------------------------------
(* What has to reach a connection.                                         *)

ClientTypes ==
  /\ start \in [Clients -> Nat] /\ snapshot \in [Clients -> Nat] /\ shown \in [Clients -> Nat]
  /\ missed \in [Clients -> BOOLEAN] /\ failures \in 0..MaxFailures

\* A reader that has lost its connection neither listens nor has anything to read.
Deaf == \A n \in Nodes : reader[n] = "broken" => ~listening[n] /\ wire[n] = << >>

\* The connection has its welcome, and knows which numbers to expect.
Told == {"welcomed", "reading", "live"}

Undisturbed(c) == ~missed[c] /\ ~raced[Home[c]]

\* The message s has been heard, is on its way, or is about to be sent.
Reaches(c, s) ==
  \/ \E i \in 1..Len(heard[c]) : heard[c][i] = s
  \/ \E i \in 1..Len(wire[Home[c]]) : wire[Home[c]][i].seq = s
  \/ \E p \in Publishers : Drawn(p) /\ pub[p].seq = s

Reached(c) ==
  phase[c] \in Told /\ Undisturbed(c) => \A s \in (start[c] + 1)..seq : Reaches(c, s)

ReachInv == ClientTypes /\ Deaf /\ \A c \in Clients : Reached(c)

\* Publishers are idle or have their fields.
LEMMA PubIs ==
  ASSUME SeqTypes, NEW p \in Publishers
  PROVE  /\ pub[p] = Idle => ~Drawn(p)
         /\ pub[p] # Idle => pub[p] \in Sending
BY DEF SeqTypes, Drawn, Idle

\* The types of what a client keeps.
LEMMA ClientTypesStep == SeqTypes /\ ClientTypes /\ [Next]_vars => ClientTypes'
<1> SUFFICES ASSUME SeqTypes, ClientTypes, [Next]_vars PROVE ClientTypes'
  OBVIOUS
<1>1. CASE UNCHANGED vars
  BY <1>1 DEF vars, client, history, ClientTypes
<1>2. failures < MaxFailures => failures + 1 \in 0..MaxFailures
  BY BackplaneAssumption DEF ClientTypes
<1>3. ASSUME NEW p \in Publishers, Publishing(p) PROVE ClientTypes'
  <2>1. UNCHANGED client /\ failures' \in 0..MaxFailures
    BY <1>2, <1>3 DEF Publishing, CommitMove, SendChat, Begin, DrawSeq, Publish, PublishFails, history, ClientTypes
  <2>2. missed' \in [Clients -> BOOLEAN]
    <3>1. missed' = missed \/ \E f \in [Clients -> BOOLEAN] : missed' = f
      <4>1. CASE Publish(p)
        <5> DEFINE f == [c \in Clients |-> missed[c] \/ (phase[c] \in Registered /\ reader[Home[c]] # "reading")]
        <5>1. \A c \in Clients : (missed[c] \/ (phase[c] \in Registered /\ reader[Home[c]] # "reading")) \in BOOLEAN
          OBVIOUS
        <5>2. f \in [Clients -> BOOLEAN]
          BY <5>1, Zenon
        <5>3. missed' = f
          BY <4>1 DEF Publish
        <5> QED BY <5>2, <5>3
      <4>2. CASE PublishFails(p)
        <5> DEFINE f == [c \in Clients |-> phase[c] \in Registered]
        <5>0. \A c \in Clients : (phase[c] \in Registered) \in BOOLEAN
          OBVIOUS
        <5>1. f \in [Clients -> BOOLEAN]
          BY <5>0, Zenon
        <5>2. missed' = f
          BY <4>2 DEF PublishFails
        <5> QED BY <5>1, <5>2
      <4>3. CASE CommitMove(p) \/ SendChat(p) \/ DrawSeq(p)
        BY <4>3 DEF CommitMove, SendChat, Begin, DrawSeq, history
      <4> QED BY <1>3, <4>1, <4>2, <4>3 DEF Publishing
    <3> QED BY <3>1 DEF ClientTypes
  <2> QED BY <2>1, <2>2 DEF client, ClientTypes
<1>4. ASSUME NEW gone, Forget(gone) PROVE start' \in [Clients -> Nat] /\ snapshot' \in [Clients -> Nat] /\ shown' \in [Clients -> Nat] /\ missed' \in [Clients -> BOOLEAN]
  <2>1. start' \in [Clients -> Nat] /\ snapshot' \in [Clients -> Nat] /\ shown' \in [Clients -> Nat]
    BY <1>4 DEF Forget, ClientTypes
  <2>2. missed' \in [Clients -> BOOLEAN]
    <3>1. missed' = [c \in Clients |-> missed[c] /\ c \notin gone]
      BY <1>4 DEF Forget
    <3>2. \A c \in Clients : (missed[c] /\ c \notin gone) \in BOOLEAN
      OBVIOUS
    <3> QED BY <3>1, <3>2, Zenon
  <2> QED BY <2>1, <2>2
<1>5. ASSUME NEW c \in Clients, Endpoint(c) PROVE ClientTypes'
  <2>1. CASE Leave(c) \/ CallRaises(c)
    <3>1. Forget({c})
      BY <2>1 DEF Leave, CallRaises
    <3>2. failures' \in 0..MaxFailures
      BY <1>2, <2>1 DEF Leave, CallRaises, Call, ClientTypes
    <3> QED BY <1>4, <3>1, <3>2 DEF ClientTypes
  <2>2. CASE ~Leave(c) /\ ~CallRaises(c)
    <3>1. UNCHANGED <<missed, failures>>
      BY <1>5, <2>2 DEF Endpoint, Register, Subscribe, FinishSubscribe, ReadSeq, ReadSnapshot, SendSnapshot, FinishUnsubscribe, Call, history
    <3>2. CASE ReadSeq(c) \/ ReadSnapshot(c)
      BY <3>1, <3>2 DEF ReadSeq, ReadSnapshot, ClientTypes, SeqTypes
    <3>3. CASE SendSnapshot(c)
      BY <3>1, <3>3 DEF SendSnapshot, ClientTypes
    <3>4. CASE Register(c) \/ Subscribe(c) \/ FinishSubscribe(c) \/ FinishUnsubscribe(c)
      BY <3>1, <3>4 DEF Register, Subscribe, FinishSubscribe, FinishUnsubscribe, client, ClientTypes
    <3> QED BY <1>5, <2>2, <3>2, <3>3, <3>4 DEF Endpoint
  <2> QED BY <2>1, <2>2
<1>6. ASSUME NEW n \in Nodes, Reading(n) PROVE ClientTypes'
  <2>1. CASE Deliver(n)
    <3> DEFINE v == Head(wire[n]).version
    <3>1. v \in Nat
      <4>1. wire[n] \in Seq(Message) /\ wire[n] # << >>
        BY <2>1 DEF Deliver, SeqTypes
      <4>2. Head(wire[n]) \in Message
        BY <4>1
      <4> QED BY <4>2 DEF Message
    <3>2. /\ shown' = [c \in Clients |-> IF c \in Here(n) /\ v # 0 THEN v ELSE shown[c]]
          /\ UNCHANGED <<start, snapshot, failures, missed>>
      BY <2>1 DEF Deliver
    <3> HIDE DEF v
    <3> QED BY <3>1, <3>2 DEF ClientTypes
  <2>2. CASE ReaderFails(n) \/ Reconnect(n)
    <3>1. missed' = [c \in Clients |-> missed[c] \/ c \in Here(n)]
      BY <2>2 DEF ReaderFails, Reconnect
    <3>2. \A c \in Clients : (missed[c] \/ c \in Here(n)) \in BOOLEAN
      OBVIOUS
    <3>3. missed' \in [Clients -> BOOLEAN]
      BY <3>1, <3>2, Zenon
    <3>4. failures' \in 0..MaxFailures
      BY <1>2, <2>2 DEF ReaderFails, Reconnect, ClientTypes
    <3> QED BY <2>2, <3>3, <3>4 DEF ReaderFails, Reconnect, client, ClientTypes
  <2>3. CASE ReconnectFails(n)
    BY <2>3 DEF ReconnectFails, client, ClientTypes
  <2>4. CASE Crash(n)
    BY <1>2, <1>4, <2>4 DEF Crash, ClientTypes
  <2> QED BY <1>6, <2>1, <2>2, <2>3, <2>4 DEF Reading
<1> QED BY <1>1, <1>3, <1>5, <1>6 DEF Next

\* Only a call that began before it was broken, or a new object, makes a process listen.
LEMMA DeafStep == SeqTypes /\ CountTypes /\ Deaf /\ [Next]_vars => Deaf'
<1> SUFFICES ASSUME SeqTypes, CountTypes, Deaf, [Next]_vars, NEW m \in Nodes, reader'[m] = "broken"
             PROVE  ~listening'[m] /\ wire'[m] = << >>
  BY DEF Deaf
<1>1. reader[m] = "broken" => ~listening[m] /\ wire[m] = << >>
  BY DEF Deaf
<1>2. CASE UNCHANGED vars
  BY <1>1, <1>2 DEF vars, redis
<1>3. ASSUME NEW p \in Publishers, Publishing(p) PROVE ~listening'[m] /\ wire'[m] = << >>
  <2>1. reader' = reader /\ listening' = listening
    BY <1>3 DEF Publishing, CommitMove, SendChat, Begin, DrawSeq, Publish, PublishFails, redis
  <2>2. ~listening[m] /\ wire[m] = << >>
    BY <1>1, <2>1
  <2>3. wire'[m] = wire[m]
    BY <1>3, <2>2 DEF Publishing, CommitMove, SendChat, Begin, DrawSeq, Publish, PublishFails, redis
  <2> QED BY <2>1, <2>2, <2>3
<1>4. ASSUME NEW c \in Clients, Endpoint(c) PROVE ~listening'[m] /\ wire'[m] = << >>
  <2>1. reader' = reader /\ wire' = wire
    BY <1>4 DEF Endpoint, Register, Subscribe, FinishSubscribe, ReadSeq, ReadSnapshot, SendSnapshot, Leave, FinishUnsubscribe, CallRaises, Call, redis
  <2>2. ~listening[m] /\ wire[m] = << >> /\ reader[m] = "broken"
    BY <1>1, <2>1
  <2>3. ~listening'[m]
    <3>1. CASE FinishSubscribe(c)
      BY <2>2, <3>1 DEF FinishSubscribe, CountTypes
    <3>2. CASE FinishUnsubscribe(c)
      BY <2>2, <3>2 DEF FinishUnsubscribe, CountTypes
    <3>3. CASE ~FinishSubscribe(c) /\ ~FinishUnsubscribe(c)
      BY <1>4, <2>2, <3>3 DEF Endpoint, Register, Subscribe, ReadSeq, ReadSnapshot, SendSnapshot, Leave, CallRaises, Call, redis
    <3> QED BY <3>1, <3>2, <3>3
  <2> QED BY <2>1, <2>2, <2>3
<1>5. ASSUME NEW n \in Nodes, Reading(n) PROVE ~listening'[m] /\ wire'[m] = << >>
  <2>1. CASE Deliver(n)
    BY <1>1, <2>1 DEF Deliver, SeqTypes
  <2>2. CASE ReaderFails(n)
    BY <1>1, <2>2 DEF ReaderFails, SeqTypes, CountTypes
  <2>3. CASE Reconnect(n) \/ ReconnectFails(n)
    BY <1>1, <2>3 DEF Reconnect, ReconnectFails, SeqTypes, CountTypes
  <2>4. CASE Crash(n)
    BY <1>1, <2>4 DEF Crash, SeqTypes, CountTypes
  <2> QED BY <1>5, <2>1, <2>2, <2>3, <2>4 DEF Reading
<1> QED BY <1>2, <1>3, <1>4, <1>5 DEF Next

\* Whoever is told of numbers listens, if it is undisturbed and its process reads.
LEMMA ToldListens ==
  ASSUME CountInv, NEW c \in Clients, phase[c] \in Told, ~raced[Home[c]]
  PROVE  count[Home[c]] > 0 /\ (reader[Home[c]] = "reading" => listening[Home[c]])
<1> DEFINE n == Home[c]
<1>1. n \in Nodes /\ CountTypes /\ InOrder(n)
  BY BackplaneAssumption DEF CountInv
<1>2. c \in Counting(n)
  BY DEF Counting, Locals, Told, Counted
<1>3. IsFiniteSet(Counting(n)) /\ Cardinality(Counting(n)) \in Nat /\ Counting(n) # {}
  BY <1>1, <1>2, LocalSets
<1>4. Cardinality(Counting(n)) # 0
  BY <1>3, FS_EmptySet
<1>5. /\ count[n] = Cardinality(Counting(n)) + leaked[n] /\ leaked[n] \in Nat
      /\ reader[n] = "reading" => (listening[n] <=> count[n] > 0)
  BY <1>1 DEF InOrder, CountTypes
<1> QED BY <1>3, <1>4, <1>5

\* Nothing that c waits for is lost while publications take their steps.
LEMMA PublishingReaches ==
  ASSUME CountInv, SeqInv, ReachInv, NEW p \in Publishers, Publishing(p), NEW c \in Clients
  PROVE  Reached(c)'
<1> SUFFICES ASSUME phase'[c] \in Told, Undisturbed(c)', NEW s \in (start'[c] + 1)..seq'
             PROVE  Reaches(c, s)'
  BY DEF Reached
<1>1. SeqTypes /\ ClientTypes /\ Reached(c) /\ Home[c] \in Nodes
  BY BackplaneAssumption DEF SeqInv, ReachInv
<1>2. UNCHANGED <<phase, raced, heard, start, reader, listening>>
  BY DEF Publishing, CommitMove, SendChat, Begin, DrawSeq, Publish, PublishFails, endpoint, redis, client, history
<1>3. CASE PublishFails(p)
  <2>1. missed'[c] = (phase[c] \in Registered)
    BY <1>3 DEF PublishFails
  <2>2. phase[c] \in Registered
    BY <1>2 DEF Told, Registered, Phases
  <2> QED BY <2>1, <2>2 DEF Undisturbed
<1>4. CASE CommitMove(p) \/ SendChat(p)
  <2>1. /\ pub[p] = Idle /\ UNCHANGED <<seq, wire, missed>>
        /\ \E v : pub' = [pub EXCEPT ![p] = [at |-> "committed", version |-> v, seq |-> 0]]
    BY <1>4 DEF CommitMove, SendChat, Begin, redis
  <2>2. Reaches(c, s)
    BY <1>1, <1>2, <2>1 DEF Reached, Undisturbed
  <2>3. \A q \in Publishers : Drawn(q) => q # p /\ pub'[q] = pub[q]
    BY <1>1, <2>1, PubIs DEF SeqTypes
  <2> QED BY <1>2, <2>1, <2>2, <2>3 DEF Reaches, Drawn
<1>5. CASE DrawSeq(p)
  <2>1. /\ pub[p] # Idle /\ pub[p].at = "committed" /\ seq' = seq + 1 /\ UNCHANGED <<wire, missed>>
        /\ pub' = [pub EXCEPT ![p].at = "drawn", ![p].seq = seq + 1]
    BY <1>5 DEF DrawSeq, redis, history
  <2>2. /\ pub'[p].at = "drawn" /\ pub'[p].seq = seq + 1
        /\ \A q \in Publishers : Drawn(q) => q # p /\ pub'[q] = pub[q]
    BY <1>1, <2>1, PubIs DEF SeqTypes, Drawn, Sending
  <2>3. CASE s = seq + 1
    BY <2>2, <2>3 DEF Reaches, Drawn
  <2>4. CASE s # seq + 1
    <3>1. start[c] \in Nat /\ seq \in Nat
      BY <1>1 DEF ClientTypes, SeqTypes
    <3>2. s \in (start[c] + 1)..seq
      BY <1>2, <2>1, <2>4, <3>1
    <3>3. Reaches(c, s)
      BY <1>1, <1>2, <2>1, <3>2 DEF Reached, Undisturbed
    <3> QED BY <1>2, <2>1, <2>2, <3>3 DEF Reaches, Drawn
  <2> QED BY <2>3, <2>4
<1>6. CASE Publish(p)
  <2> DEFINE n == Home[c]
             msg == [seq |-> pub[p].seq, version |-> pub[p].version]
  <2>1. /\ pub[p] # Idle /\ seq' = seq /\ pub' = [pub EXCEPT ![p] = Idle]
        /\ wire' = [k \in Nodes |-> IF listening[k] THEN Append(wire[k], msg) ELSE wire[k]]
        /\ missed' = [d \in Clients |-> missed[d] \/ (phase[d] \in Registered /\ reader[Home[d]] # "reading")]
    BY <1>6 DEF Publish
  <2>2. missed'[c] = (missed[c] \/ (phase[c] \in Registered /\ reader[n] # "reading"))
    BY <2>1
  <2>3. ~missed[c] /\ reader[n] = "reading" /\ phase[c] \in Told /\ ~raced[n]
    BY <1>2, <2>2 DEF Undisturbed, Told, Registered, Phases
  <2>4. listening[n]
    BY <2>3, ToldListens
  <2>5. pub[p] \in Sending /\ wire[n] \in Seq(Message)
    BY <1>1, <2>1, PubIs DEF SeqTypes
  <2>6. msg \in Message /\ msg.seq = pub[p].seq
    BY <2>5 DEF Message, Sending
  <2>7. wire'[n] = Append(wire[n], msg)
    BY <1>1, <2>1, <2>4
  <2> HIDE DEF msg, n
  <2>8. /\ \A i \in 1..Len(wire[n]) : i \in 1..Len(wire'[n]) /\ wire'[n][i] = wire[n][i]
        /\ Len(wire[n]) + 1 \in 1..Len(wire'[n]) /\ wire'[n][Len(wire[n]) + 1] = msg
    <3>1. /\ Len(Append(wire[n], msg)) = Len(wire[n]) + 1 /\ Append(wire[n], msg)[Len(wire[n]) + 1] = msg
          /\ \A i \in 1..Len(wire[n]) : Append(wire[n], msg)[i] = wire[n][i]
          /\ Len(wire[n]) \in Nat
      BY <2>5, <2>6, QueueOps
    <3> QED BY <2>7, <3>1
  <2>9. Reaches(c, s)
    BY <1>1, <1>2, <2>1, <2>3 DEF Reached, Undisturbed, n
  <2>10. CASE \E i \in 1..Len(heard[c]) : heard[c][i] = s
    BY <1>2, <2>10 DEF Reaches
  <2>11. CASE \E i \in 1..Len(wire[n]) : wire[n][i].seq = s
    BY <2>8, <2>11 DEF Reaches, n
  <2>12. ASSUME NEW q \in Publishers, Drawn(q), pub[q].seq = s PROVE Reaches(c, s)'
    <3>1. CASE q = p
      BY <2>6, <2>8, <2>12, <3>1 DEF Reaches, n
    <3>2. CASE q # p
      <4>1. pub'[q] = pub[q]
        BY <1>1, <2>1, <3>2 DEF SeqTypes
      <4> QED BY <2>12, <4>1 DEF Reaches, Drawn
    <3> QED BY <3>1, <3>2
  <2> QED BY <2>9, <2>10, <2>11, <2>12 DEF Reaches, n
<1> QED BY <1>3, <1>4, <1>5, <1>6 DEF Publishing

\* An endpoint reads the number its welcome starts from when it is subscribed.
LEMMA EndpointReaches ==
  ASSUME CountInv, SeqInv, ReachInv, NEW d \in Clients, Endpoint(d), NEW c \in Clients
  PROVE  Reached(c)'
<1> SUFFICES ASSUME phase'[c] \in Told, Undisturbed(c)', NEW s \in (start'[c] + 1)..seq'
             PROVE  Reaches(c, s)'
  BY DEF Reached
<1>1. SeqTypes /\ ClientTypes /\ CountTypes /\ Reached(c) /\ Home[c] \in Nodes
  BY BackplaneAssumption DEF SeqInv, ReachInv, CountInv
<1>2. UNCHANGED <<seq, wire, pub>>
  BY DEF Endpoint, Register, Subscribe, FinishSubscribe, ReadSeq, ReadSnapshot, SendSnapshot, Leave, FinishUnsubscribe, CallRaises, Call, game, redis
<1>3. raced[Home[c]] => raced'[Home[c]]
  BY <1>1 DEF Endpoint, Register, Subscribe, FinishSubscribe, ReadSeq, ReadSnapshot, SendSnapshot, Leave, FinishUnsubscribe, CallRaises, Call, history, CountTypes
<1>4. ~ (c = d /\ ReadSeq(d))
  <2> SUFFICES ASSUME c = d, ReadSeq(d) PROVE FALSE
    OBVIOUS
  <2>1. start'[c] = seq /\ seq \in Nat
    BY <1>1 DEF ReadSeq, ClientTypes, SeqTypes
  <2> QED BY <1>2, <2>1
<1>5. phase[c] \in Told /\ ~missed[c] /\ heard'[c] = heard[c] /\ start'[c] = start[c]
  <2>1. CASE Leave(d) \/ CallRaises(d)
    <3>1. c # d
      BY <1>1, <2>1 DEF Leave, CallRaises, Call, CountTypes, Told
    <3>2. phase'[c] = phase[c] /\ heard'[c] = heard[c] /\ start'[c] = start[c] /\ missed'[c] = missed[c]
      <4>1. Forget({d}) /\ \E then \in Phases : phase' = [phase EXCEPT ![d] = then]
        BY <2>1 DEF Leave, CallRaises, Call, Phases
      <4> QED BY <1>1, <3>1, <4>1 DEF CountTypes, Forget, ClientTypes
    <3> QED BY <3>2 DEF Undisturbed
  <2>2. CASE Register(d) \/ Subscribe(d) \/ FinishSubscribe(d) \/ FinishUnsubscribe(d)
    <3>1. c # d
      BY <1>1, <2>2 DEF Register, Subscribe, FinishSubscribe, FinishUnsubscribe, Call, CountTypes, Told
    <3>2. phase'[c] = phase[c] /\ heard'[c] = heard[c] /\ start'[c] = start[c] /\ missed'[c] = missed[c]
      BY <1>1, <2>2, <3>1 DEF Register, Subscribe, FinishSubscribe, FinishUnsubscribe, Call, CountTypes, client, history
    <3> QED BY <3>2 DEF Undisturbed
  <2>3. CASE ReadSeq(d)
    <3>1. phase'[c] = phase[c] /\ heard'[c] = heard[c] /\ start'[c] = start[c] /\ missed'[c] = missed[c]
      BY <1>1, <1>4, <2>3 DEF ReadSeq, CountTypes, ClientTypes, history
    <3> QED BY <3>1 DEF Undisturbed
  <2>4. CASE ReadSnapshot(d) \/ SendSnapshot(d)
    <3>1. heard'[c] = heard[c] /\ start'[c] = start[c] /\ missed'[c] = missed[c]
      BY <2>4 DEF ReadSnapshot, SendSnapshot, history
    <3>2. phase[c] \in Told
      BY <1>1, <2>4 DEF ReadSnapshot, SendSnapshot, CountTypes, Told
    <3> QED BY <3>1, <3>2 DEF Undisturbed
  <2> QED BY <2>1, <2>2, <2>3, <2>4 DEF Endpoint
<1>6. Reaches(c, s)
  BY <1>1, <1>2, <1>3, <1>5 DEF Reached, Undisturbed
<1> QED BY <1>2, <1>5, <1>6 DEF Reaches, Drawn

\* The reader hands on what it takes off the wire; what it loses, it loses openly.
LEMMA ReadingReaches ==
  ASSUME CountInv, SeqInv, ReachInv, NEW n \in Nodes, Reading(n), NEW c \in Clients
  PROVE  Reached(c)'
<1> SUFFICES ASSUME phase'[c] \in Told, Undisturbed(c)', NEW s \in (start'[c] + 1)..seq'
             PROVE  Reaches(c, s)'
  BY DEF Reached
<1>1. SeqTypes /\ ClientTypes /\ CountTypes /\ Reached(c) /\ Home[c] \in Nodes
  BY BackplaneAssumption DEF SeqInv, ReachInv, CountInv
<1>2. UNCHANGED <<seq, pub>>
  BY DEF Reading, Deliver, ReaderFails, Reconnect, ReconnectFails, Crash, game
<1>3. ~ (Home[c] = n /\ Crash(n))
  <2>1. Home[c] = n /\ Crash(n) => phase'[c] = "off"
    BY DEF Crash
  <2> QED BY <2>1 DEF Told
<1>4. phase'[c] = phase[c] /\ start'[c] = start[c]
  <2>1. CASE Crash(n)
    BY <1>1, <1>3, <2>1 DEF Crash, Forget, Locals, CountTypes
  <2>2. CASE ~Crash(n)
    BY <1>1, <2>2 DEF Reading, Deliver, ReaderFails, Reconnect, ReconnectFails, endpoint, client, CountTypes
  <2> QED BY <2>1, <2>2
<1>5. (raced[Home[c]] => raced'[Home[c]]) /\ (missed[c] => missed'[c])
  <2>1. CASE Crash(n)
    <3>1. missed'[c] = (missed[c] /\ c \notin Locals(n)) /\ c \notin Locals(n)
      BY <1>3, <2>1 DEF Crash, Forget, Locals
    <3>2. raced'[Home[c]] = raced[Home[c]]
      BY <1>1, <1>3, <2>1 DEF Crash, CountTypes
    <3> QED BY <3>1, <3>2
  <2>2. CASE ReaderFails(n) \/ Reconnect(n)
    BY <1>1, <2>2 DEF ReaderFails, Reconnect, CountTypes
  <2>3. CASE Deliver(n) \/ ReconnectFails(n)
    BY <1>1, <2>3 DEF Deliver, ReconnectFails, CountTypes
  <2> QED BY <2>1, <2>2, <2>3 DEF Reading
<1>6. Reaches(c, s) /\ phase[c] \in Told
  BY <1>1, <1>2, <1>4, <1>5 DEF Reached, Undisturbed
<1>7. CASE Home[c] # n
  <2>1. wire'[Home[c]] = wire[Home[c]]
    BY <1>1, <1>7 DEF Reading, Deliver, ReaderFails, Reconnect, ReconnectFails, Crash, SeqTypes
  <2>2. heard'[c] = heard[c]
    BY <1>1, <1>7 DEF Reading, Deliver, ReaderFails, Reconnect, ReconnectFails, Crash, Forget, Here, Locals, client, SeqTypes
  <2> QED BY <1>2, <1>6, <2>1, <2>2 DEF Reaches, Drawn
<1>8. CASE Home[c] = n /\ (ReaderFails(n) \/ Reconnect(n))
  <2>1. c \in Here(n)
    BY <1>6, <1>8 DEF Here, Locals, Told, Registered, Phases
  <2>2. missed'[c] = (missed[c] \/ c \in Here(n))
    BY <1>8 DEF ReaderFails, Reconnect
  <2> QED BY <2>1, <2>2 DEF Undisturbed
<1>9. CASE Home[c] = n /\ ReconnectFails(n)
  BY <1>2, <1>6, <1>9 DEF ReconnectFails, client, Reaches, Drawn
<1>10. CASE Home[c] = n /\ Deliver(n)
  <2> DEFINE w == wire[n]
             k == Head(w).seq
  <2>1. /\ w # << >> /\ wire' = [wire EXCEPT ![n] = Tail(w)]
        /\ heard' = [d \in Clients |-> IF d \in Here(n) THEN Append(heard[d], k) ELSE heard[d]]
    BY <1>10 DEF Deliver
  <2>2. /\ w \in Seq(Message) /\ Head(w) \in Message /\ Head(w) = w[1] /\ Len(w) \in Nat /\ Len(w) >= 1
        /\ Tail(w) \in Seq(Message) /\ Len(Tail(w)) = Len(w) - 1
        /\ \A i \in 1..Len(Tail(w)) : Tail(w)[i] = w[i + 1]
    <3>1. w \in Seq(Message)
      BY <1>1 DEF SeqTypes
    <3>2. Head(w) \in Message
      BY <2>1, <3>1
    <3> QED BY <2>1, <3>1, <3>2, QueueOps
  <2>3. k \in Nat /\ k = w[1].seq
    BY <2>2 DEF Message
  <2>4. c \in Here(n) /\ heard[c] \in Seq(Nat)
    BY <1>1, <1>6, <1>10 DEF Here, Locals, Told, Registered, Phases, SeqTypes
  <2>5. heard'[c] = Append(heard[c], k) /\ wire'[n] = Tail(w)
    BY <1>1, <2>1, <2>4 DEF SeqTypes
  <2>6. w = wire[Home[c]] /\ wire'[Home[c]] = Tail(w)
    BY <1>10, <2>5
  <2> HIDE DEF w, k
  <2>7. /\ \A i \in 1..Len(heard[c]) : i \in 1..Len(heard'[c]) /\ heard'[c][i] = heard[c][i]
        /\ Len(heard[c]) + 1 \in 1..Len(heard'[c]) /\ heard'[c][Len(heard[c]) + 1] = k
    <3>1. /\ Len(Append(heard[c], k)) = Len(heard[c]) + 1 /\ Append(heard[c], k)[Len(heard[c]) + 1] = k
          /\ \A i \in 1..Len(heard[c]) : Append(heard[c], k)[i] = heard[c][i]
          /\ Len(heard[c]) \in Nat
      BY <2>3, <2>4, QueueOps
    <3> QED BY <2>5, <3>1
  <2>8. CASE \E i \in 1..Len(heard[c]) : heard[c][i] = s
    BY <2>7, <2>8 DEF Reaches
  <2>9. ASSUME NEW i \in 1..Len(w), w[i].seq = s PROVE Reaches(c, s)'
    <3>1. CASE i = 1
      BY <2>3, <2>7, <2>9, <3>1 DEF Reaches
    <3>2. CASE i # 1
      <4>1. i - 1 \in 1..Len(Tail(w)) /\ (i - 1) + 1 = i
        BY <2>2, <3>2
      <4>2. Tail(w)[i - 1] = w[i]
        BY <2>2, <4>1
      <4> QED BY <2>6, <2>9, <4>1, <4>2 DEF Reaches
    <3> QED BY <3>1, <3>2
  <2>10. CASE \E p \in Publishers : Drawn(p) /\ pub[p].seq = s
    BY <1>2, <2>10 DEF Reaches, Drawn
  <2> QED BY <1>6, <2>6, <2>8, <2>9, <2>10 DEF Reaches
<1> QED BY <1>3, <1>7, <1>8, <1>9, <1>10 DEF Reading

\* Nobody waits for anything at first.
LEMMA InitReach == Init => ReachInv
<1> SUFFICES ASSUME Init PROVE ReachInv
  OBVIOUS
<1>1. ClientTypes /\ Deaf
  BY BackplaneAssumption DEF Init, ClientTypes, Deaf
<1>2. \A c \in Clients : phase[c] = "off"
  BY DEF Init
<1> QED BY <1>1, <1>2 DEF ReachInv, Reached, Told

\* Every step leaves what has to reach a connection on its way to it.
LEMMA ReachStep == CountInv /\ SeqInv /\ ReachInv /\ [Next]_vars => ReachInv'
<1> SUFFICES ASSUME CountInv, SeqInv, ReachInv, [Next]_vars PROVE ReachInv'
  OBVIOUS
<1>1. ClientTypes' /\ Deaf'
  BY ClientTypesStep, DeafStep DEF ReachInv, SeqInv, CountInv
<1>2. ASSUME NEW c \in Clients PROVE Reached(c)'
  <2>1. CASE UNCHANGED vars
    <3>1. UNCHANGED <<phase, missed, raced, start, seq, heard, wire, pub>>
      BY <2>1 DEF vars, game, redis, endpoint, client, history
    <3>2. Reached(c) /\ Undisturbed(c)' = Undisturbed(c) /\ \A s : Reaches(c, s)' = Reaches(c, s)
      BY <3>1 DEF ReachInv, Undisturbed, Reaches, Drawn
    <3> QED BY <3>1, <3>2 DEF Reached
  <2> QED BY <2>1, PublishingReaches, EndpointReaches, ReadingReaches DEF Next
<1> QED BY <1>1, <1>2 DEF ReachInv

\* A connection that no failure and no overlap of calls has disturbed has been
\* handed every message numbered after its welcome once nothing is on its way, for
\* any number of processes, clients, publishers and messages, however its set-up
\* and the publications interleave (router.game_websocket, Backplane).
THEOREM NobodyMisses == Spec => []NothingMissed
<1>1. CountInv /\ SeqInv /\ ReachInv => NothingMissed
  <2> SUFFICES ASSUME CountInv, SeqInv, ReachInv, NEW c \in Clients, Followed(c), NEW s \in (start[c] + 1)..seq
               PROVE  \E i \in DOMAIN heard[c] : heard[c][i] = s
    BY DEF NothingMissed
  <2>1. /\ phase[c] \in Told /\ Undisturbed(c) /\ Busy = {}
        /\ wire[Home[c]] = << >> \/ count[Home[c]] = 0
    BY DEF Followed, Quiet, Told, Undisturbed
  <2>2. Reaches(c, s)
    BY <2>1 DEF ReachInv, Reached
  <2>3. \A p \in Publishers : ~Drawn(p)
    BY <2>1, PubIs DEF Busy, SeqInv
  <2>4. count[Home[c]] > 0 /\ Home[c] \in Nodes /\ count \in [Nodes -> Nat]
    BY <2>1, ToldListens, BackplaneAssumption DEF Undisturbed, CountInv, CountTypes
  <2>5. wire[Home[c]] = << >>
    BY <2>1, <2>4
  <2>6. 1..Len(wire[Home[c]]) = {}
    BY <2>5
  <2>7. heard[c] \in Seq(Nat)
    BY DEF SeqInv, SeqTypes
  <2> QED BY <2>2, <2>3, <2>6, <2>7 DEF Reaches
<1> QED BY <1>1, InitCount, InitSeq, InitReach, CountStep, SeqStep, ReachStep, PTL DEF Spec

-----------------------------------------------------------------------------
(* What a connection is shown.                                             *)

\* Nothing shows a version that is not committed.
Committed ==
  /\ \A p \in Publishers : pub[p] # Idle => pub[p].version <= version
  /\ \A n \in Nodes : \A i \in 1..Len(wire[n]) : wire[n][i].version <= version
  /\ \A c \in Clients : snapshot[c] <= version /\ shown[c] <= version

\* The first message on a wire, and the rest of it.
LEMMA WireSplits ==
  ASSUME SeqTypes, NEW n \in Nodes, wire[n] # << >>
  PROVE  /\ Head(wire[n]) \in Message /\ Head(wire[n]) = wire[n][1]
         /\ Len(wire[n]) \in Nat /\ Len(wire[n]) >= 1
         /\ Tail(wire[n]) \in Seq(Message) /\ Len(Tail(wire[n])) = Len(wire[n]) - 1
         /\ \A i \in 1..Len(Tail(wire[n])) : Tail(wire[n])[i] = wire[n][i + 1] /\ i + 1 \in 1..Len(wire[n])
<1>1. wire[n] \in Seq(Message)
  BY DEF SeqTypes
<1>2. Head(wire[n]) \in Message
  BY <1>1
<1> QED BY <1>1, <1>2, QueueOps

\* A message sent goes to the end of the wire of every process that listens.
LEMMA WireGrows ==
  ASSUME SeqTypes, NEW p \in Publishers, Publish(p), NEW n \in Nodes
  PROVE  LET msg == [seq |-> pub[p].seq, version |-> pub[p].version] IN
         /\ pub[p] \in Sending /\ msg.seq = pub[p].seq /\ msg.version = pub[p].version
         /\ ~listening[n] => wire'[n] = wire[n]
         /\ listening[n] => /\ Len(wire'[n]) = Len(wire[n]) + 1 /\ Len(wire[n]) \in Nat
                            /\ \A i \in 1..Len(wire[n]) : wire'[n][i] = wire[n][i]
                            /\ wire'[n][Len(wire[n]) + 1] = msg
<1> DEFINE msg == [seq |-> pub[p].seq, version |-> pub[p].version]
<1>1. pub[p] \in Sending /\ wire[n] \in Seq(Message)
  BY PubIs DEF Publish, SeqTypes
<1>2. msg \in Message /\ msg.seq = pub[p].seq /\ msg.version = pub[p].version
  BY <1>1 DEF Message, Sending
<1>3. /\ ~listening[n] => wire'[n] = wire[n]
      /\ listening[n] => wire'[n] = Append(wire[n], msg)
  BY DEF Publish
<1> HIDE DEF msg
<1>4. /\ Len(Append(wire[n], msg)) = Len(wire[n]) + 1 /\ Append(wire[n], msg)[Len(wire[n]) + 1] = msg
      /\ \A i \in 1..Len(wire[n]) : Append(wire[n], msg)[i] = wire[n][i]
      /\ Len(wire[n]) \in Nat
  BY <1>1, <1>2, QueueOps
<1> QED BY <1>1, <1>2, <1>3, <1>4 DEF msg

\* What a commit, a publication, a snapshot or a delivery shows has been committed.
LEMMA CommittedStep == SeqTypes /\ ClientTypes /\ Committed /\ [Next]_vars => Committed'
<1> SUFFICES ASSUME SeqTypes, ClientTypes, Committed, [Next]_vars PROVE Committed'
  OBVIOUS
<1>1. CASE UNCHANGED vars
  BY <1>1 DEF vars, game, redis, client, Committed
<1>2. ASSUME NEW p \in Publishers, Publishing(p) PROVE Committed'
  <2>1. version' \in Nat /\ version <= version' /\ UNCHANGED client
    BY <1>2 DEF Publishing, CommitMove, SendChat, Begin, DrawSeq, Publish, PublishFails, SeqTypes
  <2>2. \A c \in Clients : snapshot'[c] <= version' /\ shown'[c] <= version'
    BY <2>1 DEF client, Committed, ClientTypes, SeqTypes
  <2>3. ASSUME NEW q \in Publishers, pub'[q] # Idle PROVE pub'[q].version <= version'
    <3>1. pub[q] # Idle => pub[q] \in Sending /\ pub[q].version <= version
      BY PubIs DEF Committed
    <3>2. CASE CommitMove(p) \/ SendChat(p)
      <4>1. PICK v \in {version', 0} : pub' = [pub EXCEPT ![p] = [at |-> "committed", version |-> v, seq |-> 0]]
        BY <3>2 DEF CommitMove, SendChat, Begin
      <4>2. CASE q = p
        <5>1. pub'[q].version = v
          BY <4>1, <4>2 DEF SeqTypes
        <5> QED BY <2>1, <5>1
      <4>3. CASE q # p
        <5>1. pub'[q] = pub[q]
          BY <4>1, <4>3 DEF SeqTypes
        <5> QED BY <2>1, <2>3, <3>1, <5>1 DEF Sending, SeqTypes
      <4> QED BY <4>2, <4>3
    <3>3. CASE DrawSeq(p)
      <4>1. pub[q] # Idle /\ pub'[q].version = pub[q].version
        BY <2>3, <3>1, <3>3, PubIs DEF DrawSeq, SeqTypes, Sending
      <4> QED BY <2>1, <3>1, <4>1 DEF Sending, SeqTypes
    <3>4. CASE Publish(p) \/ PublishFails(p)
      <4>1. pub'[q] = pub[q] /\ version' = version
        BY <2>3, <3>4 DEF Publish, PublishFails, SeqTypes
      <4> QED BY <2>3, <3>1, <4>1
    <3> QED BY <1>2, <3>2, <3>3, <3>4 DEF Publishing
  <2>4. ASSUME NEW n \in Nodes, NEW i \in 1..Len(wire'[n]) PROVE wire'[n][i].version <= version'
    <3>1. wire[n] \in Seq(Message) /\ \A j \in 1..Len(wire[n]) : wire[n][j] \in Message
      BY DEF SeqTypes
    <3>2. CASE Publish(p)
      <4>1. CASE i \in 1..Len(wire[n])
        <5>1. wire'[n][i] = wire[n][i]
          BY <3>2, <4>1, WireGrows
        <5> QED BY <2>1, <3>1, <4>1, <5>1 DEF Committed, Message, SeqTypes
      <4>2. CASE i \notin 1..Len(wire[n])
        <5>0. (~listening[n] => wire'[n] = wire[n]) /\ (listening[n] => Len(wire'[n]) = Len(wire[n]) + 1)
          BY <3>2, WireGrows
        <5>1. listening[n] /\ i = Len(wire[n]) + 1
          BY <3>1, <4>2, <5>0
        <5>2. wire'[n][i].version = pub[p].version /\ pub[p] # Idle /\ version' = version
          BY <3>2, <5>1, WireGrows DEF Publish
        <5> QED BY <5>2 DEF Committed
      <4> QED BY <4>1, <4>2
    <3>3. CASE ~Publish(p)
      <4>1. wire' = wire
        BY <1>2, <3>3 DEF Publishing, CommitMove, SendChat, Begin, DrawSeq, PublishFails, redis
      <4> QED BY <2>1, <2>4, <3>1, <4>1 DEF Committed, Message, SeqTypes
    <3> QED BY <3>2, <3>3
  <2> QED BY <2>2, <2>3, <2>4 DEF Committed
<1>3. ASSUME NEW c \in Clients, Endpoint(c) PROVE Committed'
  <2>1. UNCHANGED <<version, pub, wire>>
    BY <1>3 DEF Endpoint, Register, Subscribe, FinishSubscribe, ReadSeq, ReadSnapshot, SendSnapshot, Leave, FinishUnsubscribe, CallRaises, Call, game, redis
  <2>2. ASSUME NEW d \in Clients PROVE snapshot'[d] <= version /\ shown'[d] <= version
    <3>1. /\ snapshot[d] \in Nat /\ shown[d] \in Nat /\ version \in Nat
          /\ snapshot[d] <= version /\ shown[d] <= version
      BY DEF Committed, ClientTypes, SeqTypes
    <3>2. snapshot'[d] \in {snapshot[d], version, 0} /\ shown'[d] \in {snapshot[d], shown[d], 0}
      <4>1. CASE Leave(c) \/ CallRaises(c)
        BY <4>1 DEF Leave, CallRaises, Forget
      <4>2. CASE ~Leave(c) /\ ~CallRaises(c)
        <5>1. CASE ReadSnapshot(c) \/ SendSnapshot(c)
          BY <5>1 DEF ReadSnapshot, SendSnapshot, ClientTypes
        <5>2. CASE ~ (ReadSnapshot(c) \/ SendSnapshot(c))
          BY <1>3, <4>2, <5>2 DEF Endpoint, Register, Subscribe, FinishSubscribe, ReadSeq, FinishUnsubscribe, Call, client
        <5> QED BY <5>1, <5>2
      <4> QED BY <4>1, <4>2
    <3> QED BY <3>1, <3>2
  <2> QED BY <2>1, <2>2 DEF Committed
<1>4. ASSUME NEW n \in Nodes, Reading(n) PROVE Committed'
  <2>1. UNCHANGED <<version, pub>> /\ version \in Nat
    BY <1>4 DEF Reading, Deliver, ReaderFails, Reconnect, ReconnectFails, Crash, game, SeqTypes
  <2>2. CASE Deliver(n)
    <3> DEFINE w == wire[n]
    <3>1. /\ w # << >> /\ wire' = [wire EXCEPT ![n] = Tail(w)] /\ snapshot' = snapshot
          /\ shown' = [c \in Clients |-> IF c \in Here(n) /\ Head(w).version # 0 THEN Head(w).version ELSE shown[c]]
      BY <2>2 DEF Deliver
    <3>2. Head(w).version <= version
      <4>1. Head(w) = w[1] /\ 1 \in 1..Len(w)
        BY <3>1, WireSplits
      <4> QED BY <4>1 DEF Committed
    <3>3. ASSUME NEW m \in Nodes, NEW i \in 1..Len(wire'[m]) PROVE wire'[m][i].version <= version
      <4>1. CASE m = n
        <5>1. wire'[m] = Tail(w)
          BY <3>1, <4>1 DEF SeqTypes
        <5>2. Tail(w)[i] = w[i + 1] /\ i + 1 \in 1..Len(w)
          BY <3>1, <3>3, <5>1, WireSplits
        <5> QED BY <5>1, <5>2 DEF Committed
      <4>2. CASE m # n
        BY <3>1, <3>3, <4>2 DEF Committed, SeqTypes
      <4> QED BY <4>1, <4>2
    <3> HIDE DEF w
    <3>4. \A c \in Clients : snapshot'[c] <= version /\ shown'[c] <= version
      BY <3>1, <3>2 DEF Committed
    <3> QED BY <2>1, <3>3, <3>4 DEF Committed
  <2>3. CASE ~Deliver(n)
    <3>1. \A m \in Nodes : wire'[m] \in {wire[m], << >>}
      BY <1>4, <2>3 DEF Reading, ReaderFails, Reconnect, ReconnectFails, Crash, SeqTypes
    <3>2. \A c \in Clients : snapshot'[c] \in {snapshot[c], 0} /\ shown'[c] \in {shown[c], 0}
      <4>1. CASE Crash(n)
        BY <4>1 DEF Crash, Forget
      <4>2. CASE ~Crash(n)
        BY <1>4, <2>3, <4>2 DEF Reading, ReaderFails, Reconnect, ReconnectFails, client
      <4> QED BY <4>1, <4>2
    <3>3. 1..Len(<< >>) = {}
      OBVIOUS
    <3>4. ASSUME NEW m \in Nodes, NEW i \in 1..Len(wire'[m]) PROVE wire'[m][i].version <= version
      <4>1. wire'[m] = wire[m]
        BY <3>1, <3>3, <3>4
      <4> QED BY <3>4, <4>1 DEF Committed
    <3>5. \A c \in Clients : snapshot'[c] <= version /\ shown'[c] <= version
      BY <2>1, <3>2 DEF Committed
    <3> QED BY <2>1, <3>4, <3>5 DEF Committed
  <2> QED BY <2>2, <2>3
<1> QED BY <1>1, <1>2, <1>3, <1>4 DEF Next

\* A publication of the game is under way.
Carrying == \E p \in Publishers : pub[p] # Idle /\ pub[p].version # 0

\* There is a state of the game on the wire, and which is the last.
GameOn(n) == \E i \in 1..Len(wire[n]) : wire[n][i].version # 0

LastGame(n, i) ==
  wire[n][i].version # 0 /\ \A j \in 1..Len(wire[n]) : i < j => wire[n][j].version = 0

\* What a process hears last of the game is the game as committed.
Fresh(n) ==
  listening[n] =>
    Carrying \/ \A i \in 1..Len(wire[n]) : LastGame(n, i) => wire[n][i].version = version

\* What the client knows, or is about to be sent.
Seen(c) == IF phase[c] = "reading" THEN snapshot[c] ELSE shown[c]

\* It is the game as committed, unless more of it is coming.
Following(c) ==
  phase[c] \in {"reading", "live"} /\ Undisturbed(c) =>
    Carrying \/ GameOn(Home[c]) \/ Seen(c) = version

ViewInv ==
  ~unordered =>
    /\ \A p \in Publishers : pub[p] # Idle => pub[p].version \in {0, version}
    /\ \A n \in Nodes : Fresh(n)
    /\ \A c \in Clients : Following(c)

\* What the proof of a step may assume.
ViewContext == CountInv /\ SeqInv /\ ReachInv /\ Committed /\ ViewInv

\* Publications keep the last word on every wire.
LEMMA PublishingViews ==
  ASSUME ViewContext, NEW p \in Publishers, Publishing(p)
  PROVE  ViewInv'
<1> SUFFICES ASSUME ~unordered' PROVE ViewInv'
  BY DEF ViewInv
<1>1. SeqTypes /\ ClientTypes /\ CountTypes
  BY DEF ViewContext, SeqInv, ReachInv, CountInv
<1>2. /\ UNCHANGED <<listening, reader, phase, raced, snapshot, shown>>
      /\ ~unordered
  BY <1>1 DEF Publishing, CommitMove, SendChat, Begin, DrawSeq, Publish, PublishFails, endpoint, redis, client, history, SeqTypes
<1>3. /\ \A q \in Publishers : pub[q] # Idle => pub[q].version \in {0, version}
      /\ \A n \in Nodes : Fresh(n)
      /\ \A c \in Clients : Following(c)
      /\ \A q, r \in Publishers : pub[q] # Idle /\ pub[r] # Idle => q = r
  BY <1>2 DEF ViewContext, ViewInv, SeqInv, OnePublishing
<1>4. \A c \in Clients : Seen(c)' = Seen(c)
  BY <1>2 DEF Seen
<1>5. CASE CommitMove(p)
  <2>1. /\ version' = version + 1 /\ Busy = {}
        /\ pub' = [pub EXCEPT ![p] = [at |-> "committed", version |-> version + 1, seq |-> 0]]
    BY <1>1, <1>5 DEF CommitMove, Begin, SeqTypes
  <2>2. pub'[p] # Idle /\ pub'[p].version = version'
    BY <1>1, <2>1 DEF SeqTypes, Idle
  <2>3. version' # 0
    BY <1>1, <2>1 DEF SeqTypes
  <2>4. \A q \in Publishers : pub'[q] # Idle => q = p
    BY <1>1, <2>1 DEF Busy, SeqTypes
  <2>5. Carrying'
    BY <2>2, <2>3 DEF Carrying
  <2> QED BY <2>2, <2>4, <2>5 DEF ViewInv, Fresh, Following
<1>6. CASE SendChat(p)
  <2>1. /\ UNCHANGED <<version, wire, missed>> /\ Busy = {}
        /\ pub' = [pub EXCEPT ![p] = [at |-> "committed", version |-> 0, seq |-> 0]]
    BY <1>1, <1>6 DEF SendChat, Begin, redis, SeqTypes
  <2>2. ~Carrying /\ \A q \in Publishers : q # p => pub'[q] = Idle
    BY <1>1, <2>1 DEF Busy, Carrying, SeqTypes
  <2>3. pub'[p].version = 0
    BY <1>1, <2>1 DEF SeqTypes
  <2>4. ASSUME NEW n \in Nodes PROVE Fresh(n)'
    BY <1>2, <1>3, <2>1, <2>2 DEF Fresh, LastGame
  <2>5. ASSUME NEW c \in Clients PROVE Following(c)'
    BY <1>2, <1>3, <1>4, <2>1, <2>2 DEF Following, GameOn, Undisturbed
  <2> QED BY <2>2, <2>3, <2>4, <2>5 DEF ViewInv
<1>7. CASE DrawSeq(p)
  <2>1. /\ UNCHANGED <<version, wire, missed>> /\ pub[p] # Idle
        /\ pub' = [pub EXCEPT ![p].at = "drawn", ![p].seq = seq + 1]
    BY <1>7 DEF DrawSeq, redis, history
  <2>2. /\ pub'[p].version = pub[p].version /\ pub'[p] # Idle
        /\ \A q \in Publishers : q # p => pub'[q] = pub[q]
    <3>1. pub[p] \in Sending
      BY <1>1, <2>1, PubIs
    <3>2. pub'[p].at = "drawn" /\ pub'[p].version = pub[p].version
      BY <1>1, <2>1, <3>1 DEF SeqTypes, Sending
    <3>3. pub'[p] # Idle
      BY <3>2 DEF Idle
    <3> QED BY <1>1, <2>1, <3>2, <3>3 DEF SeqTypes
  <2>3. Carrying' <=> Carrying
    BY <2>1, <2>2 DEF Carrying
  <2>4. ASSUME NEW n \in Nodes PROVE Fresh(n)'
    BY <1>2, <1>3, <2>1, <2>3 DEF Fresh, LastGame
  <2>5. ASSUME NEW c \in Clients PROVE Following(c)'
    BY <1>2, <1>3, <1>4, <2>1, <2>3 DEF Following, GameOn, Undisturbed
  <2>6. \A q \in Publishers : pub'[q] # Idle => pub'[q].version \in {0, version'}
    BY <1>3, <2>1, <2>2
  <2> QED BY <2>4, <2>5, <2>6 DEF ViewInv
<1>8. CASE Publish(p)
  <2> DEFINE v == pub[p].version
  <2>1. /\ pub[p] # Idle /\ version' = version /\ pub' = [pub EXCEPT ![p] = Idle]
        /\ \A c \in Clients : missed'[c] = (missed[c] \/ (phase[c] \in Registered /\ reader[Home[c]] # "reading"))
    BY <1>8 DEF Publish
  <2>2. \A q \in Publishers : pub'[q] = Idle
    BY <1>1, <1>3, <2>1 DEF SeqTypes
  <2>3. v \in {0, version} /\ (v = 0 => ~Carrying)
    BY <1>3, <2>1 DEF Carrying
  <2>4. ASSUME NEW n \in Nodes
        PROVE  /\ ~listening[n] => wire'[n] = wire[n]
               /\ listening[n] => /\ Len(wire'[n]) = Len(wire[n]) + 1 /\ Len(wire[n]) \in Nat
                                  /\ \A i \in 1..Len(wire[n]) : wire'[n][i] = wire[n][i]
                                  /\ wire'[n][Len(wire[n]) + 1].version = v
    BY <1>1, <1>8, WireGrows
  <2> HIDE DEF v
  <2>5. ASSUME NEW n \in Nodes, listening[n] PROVE Fresh(n)'
    <3> SUFFICES ASSUME NEW i \in 1..Len(wire'[n]), LastGame(n, i)' PROVE wire'[n][i].version = version
      BY <2>1 DEF Fresh
    <3>1. /\ Len(wire'[n]) = Len(wire[n]) + 1 /\ Len(wire[n]) \in Nat
          /\ \A j \in 1..Len(wire[n]) : wire'[n][j] = wire[n][j]
          /\ wire'[n][Len(wire[n]) + 1].version = v
      BY <2>4, <2>5
    <3>2. i \in 1..Len(wire[n]) \/ i = Len(wire[n]) + 1
      BY <3>1
    <3>3. wire'[n][i].version # 0 /\ \A j \in 1..Len(wire'[n]) : i < j => wire'[n][j].version = 0
      BY DEF LastGame
    <3>4. CASE i = Len(wire[n]) + 1
      BY <2>3, <3>1, <3>3, <3>4
    <3>5. CASE i \in 1..Len(wire[n])
      <4>1. Len(wire[n]) + 1 \in 1..Len(wire'[n]) /\ i < Len(wire[n]) + 1
        BY <3>1, <3>5
      <4>2. v = 0
        BY <3>1, <3>3, <4>1
      <4>3. \A j \in 1..Len(wire[n]) : j \in 1..Len(wire'[n])
        BY <3>1
      <4>4. LastGame(n, i)
        BY <3>1, <3>3, <3>5, <4>3 DEF LastGame
      <4> QED BY <1>3, <2>3, <2>5, <3>1, <3>5, <4>2, <4>4 DEF Fresh
    <3> QED BY <3>2, <3>4, <3>5
  <2>6. ASSUME NEW n \in Nodes, ~listening[n] PROVE Fresh(n)'
    BY <1>2, <2>6 DEF Fresh
  <2>7. ASSUME NEW c \in Clients PROVE Following(c)'
    <3> SUFFICES ASSUME phase[c] \in {"reading", "live"}, Undisturbed(c)' PROVE GameOn(Home[c])' \/ Seen(c) = version
      BY <1>2, <1>4, <2>1 DEF Following
    <3> DEFINE n == Home[c]
    <3>1. ~missed[c] /\ ~raced[n] /\ reader[n] = "reading"
      BY <1>2, <2>1 DEF Undisturbed, Registered, Phases
    <3>2. n \in Nodes /\ listening[n]
      BY <3>1, ToldListens, BackplaneAssumption DEF ViewContext, Told
    <3>3. /\ Len(wire'[n]) = Len(wire[n]) + 1 /\ Len(wire[n]) \in Nat
          /\ \A i \in 1..Len(wire[n]) : wire'[n][i] = wire[n][i]
          /\ wire'[n][Len(wire[n]) + 1].version = v
      BY <2>4, <3>2
    <3>4. Carrying \/ GameOn(n) \/ Seen(c) = version
      BY <1>3, <3>1 DEF Following, Undisturbed
    <3>5. CASE v # 0
      <4>1. Len(wire[n]) + 1 \in 1..Len(wire'[n])
        BY <3>3
      <4> QED BY <3>3, <3>5, <4>1 DEF GameOn
    <3>6. CASE v = 0 /\ GameOn(n)
      <4>1. PICK i \in 1..Len(wire[n]) : wire[n][i].version # 0
        BY <3>6 DEF GameOn
      <4>2. i \in 1..Len(wire'[n]) /\ wire'[n][i] = wire[n][i]
        BY <3>3
      <4> QED BY <4>1, <4>2 DEF GameOn
    <3>7. CASE v = 0 /\ ~GameOn(n)
      BY <2>3, <3>4, <3>7
    <3> QED BY <3>5, <3>6, <3>7
  <2> QED BY <2>2, <2>5, <2>6, <2>7 DEF ViewInv
<1>9. CASE PublishFails(p)
  <2>1. /\ pub[p] # Idle /\ UNCHANGED <<version, wire>> /\ pub' = [pub EXCEPT ![p] = Idle]
        /\ \A c \in Clients : missed'[c] = (phase[c] \in Registered)
        /\ \A n \in Nodes : wire[n] = << >>
    BY <1>9 DEF PublishFails, redis
  <2>2. \A q \in Publishers : pub'[q] = Idle
    BY <1>1, <1>3, <2>1 DEF SeqTypes
  <2>3. \A n \in Nodes : 1..Len(wire'[n]) = {}
    BY <2>1
  <2>4. \A n \in Nodes : Fresh(n)'
    BY <2>3 DEF Fresh
  <2>5. \A c \in Clients : phase[c] \in {"reading", "live"} => missed'[c]
    BY <2>1 DEF Registered, Phases
  <2>6. \A c \in Clients : Following(c)'
    BY <1>2, <2>5 DEF Following, Undisturbed
  <2> QED BY <2>2, <2>4, <2>6 DEF ViewInv
<1> QED BY <1>5, <1>6, <1>7, <1>8, <1>9 DEF Publishing

\* A set-up reads the game as committed, and sends it before any other.
LEMMA EndpointViews ==
  ASSUME ViewContext, NEW d \in Clients, Endpoint(d)
  PROVE  ViewInv'
<1> SUFFICES ASSUME ~unordered' PROVE ViewInv'
  BY DEF ViewInv
<1>1. SeqTypes /\ ClientTypes /\ CountTypes /\ Committed /\ Home[d] \in Nodes
  BY BackplaneAssumption DEF ViewContext, SeqInv, ReachInv, CountInv
<1>2. UNCHANGED <<version, pub, wire>>
  BY DEF Endpoint, Register, Subscribe, FinishSubscribe, ReadSeq, ReadSnapshot, SendSnapshot, Leave, FinishUnsubscribe, CallRaises, Call, game, redis
<1>3. ~unordered
  <2>1. CASE FinishSubscribe(d)
    BY <2>1 DEF FinishSubscribe
  <2>2. CASE ~FinishSubscribe(d)
    BY <2>2 DEF Endpoint, Register, Subscribe, ReadSeq, ReadSnapshot, SendSnapshot, Leave, FinishUnsubscribe, CallRaises, Call, history
  <2> QED BY <2>1, <2>2
<1>4. /\ \A q \in Publishers : pub[q] # Idle => pub[q].version \in {0, version}
      /\ \A n \in Nodes : Fresh(n)
      /\ \A c \in Clients : Following(c)
  BY <1>3 DEF ViewContext, ViewInv
<1>5. Carrying' = Carrying /\ (\A n \in Nodes : GameOn(n)' = GameOn(n))
      /\ \A i : \A n \in Nodes : LastGame(n, i)' = LastGame(n, i)
  BY <1>2 DEF Carrying, GameOn, LastGame
<1>6. ASSUME NEW n \in Nodes PROVE Fresh(n)'
  <2>1. CASE FinishSubscribe(d) /\ n = Home[d]
    <3>1. wire[n] = << >>
      BY <2>1 DEF FinishSubscribe
    <3>2. 1..Len(wire'[n]) = {}
      BY <1>2, <3>1
    <3> QED BY <3>2 DEF Fresh
  <2>2. CASE ~ (FinishSubscribe(d) /\ n = Home[d])
    <3>1. listening'[n] => listening[n]
      <4>1. CASE FinishSubscribe(d)
        BY <1>1, <2>2, <4>1 DEF FinishSubscribe, CountTypes
      <4>2. CASE FinishUnsubscribe(d)
        <5>1. listening' = [listening EXCEPT ![Home[d]] = listening[Home[d]] /\ asked[d] # object[Home[d]]]
          BY <4>2 DEF FinishUnsubscribe
        <5>2. n # Home[d] => listening'[n] = listening[n]
          BY <1>1, <5>1 DEF CountTypes
        <5>3. n = Home[d] => listening'[n] = (listening[n] /\ asked[d] # object[n])
          BY <1>1, <5>1 DEF CountTypes
        <5> QED BY <5>2, <5>3
      <4>3. CASE ~FinishSubscribe(d) /\ ~FinishUnsubscribe(d)
        BY <4>3 DEF Endpoint, Register, Subscribe, ReadSeq, ReadSnapshot, SendSnapshot, Leave, CallRaises, Call, redis
      <4> QED BY <4>1, <4>2, <4>3
    <3> QED BY <1>2, <1>4, <1>5, <3>1 DEF Fresh
  <2> QED BY <2>1, <2>2
<1>7. ASSUME NEW c \in Clients PROVE Following(c)'
  <2> SUFFICES ASSUME phase'[c] \in {"reading", "live"}, Undisturbed(c)', ~Carrying, ~GameOn(Home[c])
               PROVE  Seen(c)' = version
    BY <1>2, <1>5, BackplaneAssumption DEF Following
  <2>1. raced[Home[c]] => raced'[Home[c]]
    BY <1>1, BackplaneAssumption DEF Endpoint, Register, Subscribe, FinishSubscribe, ReadSeq, ReadSnapshot, SendSnapshot, Leave, FinishUnsubscribe, CallRaises, Call, history, CountTypes
  <2>2. CASE c # d
    <3>1. phase'[c] = phase[c] /\ snapshot'[c] = snapshot[c] /\ shown'[c] = shown[c] /\ missed'[c] = missed[c]
      <4>1. CASE Leave(d) \/ CallRaises(d)
        <5>1. Forget({d}) /\ \E then \in Phases : phase' = [phase EXCEPT ![d] = then]
          BY <4>1 DEF Leave, CallRaises, Call, Phases
        <5> QED BY <1>1, <2>2, <5>1 DEF CountTypes, Forget, ClientTypes
      <4>2. CASE ~Leave(d) /\ ~CallRaises(d)
        BY <1>1, <2>2, <4>2 DEF Endpoint, Register, Subscribe, FinishSubscribe, ReadSeq, ReadSnapshot, SendSnapshot, FinishUnsubscribe, Call, history, client, CountTypes, ClientTypes
      <4> QED BY <4>1, <4>2
    <3> QED BY <1>4, <2>1, <3>1 DEF Following, Undisturbed, Seen
  <2>3. CASE c = d
    <3>1. CASE ReadSnapshot(d)
      BY <1>1, <2>3, <3>1 DEF ReadSnapshot, CountTypes, ClientTypes, Seen
    <3>2. CASE SendSnapshot(d)
      <4>1. /\ phase[c] = "reading" /\ phase'[c] = "live" /\ missed'[c] = missed[c]
            /\ shown'[c] = IF snapshot[c] = 0 THEN shown[c] ELSE snapshot[c]
        BY <1>1, <2>3, <3>2 DEF SendSnapshot, history, CountTypes, ClientTypes
      <4>2. snapshot[c] = version
        BY <1>4, <2>1, <4>1 DEF Following, Undisturbed, Seen
      <4>3. shown[c] \in Nat /\ shown[c] <= version
        BY <1>1 DEF Committed, ClientTypes
      <4>4. shown'[c] = version
        BY <4>1, <4>2, <4>3
      <4> QED BY <4>1, <4>4 DEF Seen
    <3>3. CASE ~ReadSnapshot(d) /\ ~SendSnapshot(d)
      <4>1. phase'[c] \notin {"reading", "live"}
        BY <1>1, <2>3, <3>3 DEF Endpoint, Register, Subscribe, FinishSubscribe, ReadSeq, Leave, FinishUnsubscribe, CallRaises, Call, CountTypes
      <4> QED BY <4>1
    <3> QED BY <3>1, <3>2, <3>3
  <2> QED BY <2>2, <2>3
<1> QED BY <1>2, <1>4, <1>6, <1>7 DEF ViewInv

\* A delivery shows the game as committed, or there is more to come.
LEMMA DeliveryViews ==
  ASSUME ViewContext, NEW m \in Nodes, Deliver(m), ~unordered'
  PROVE  /\ Fresh(m)'
         /\ \A c \in Clients : Home[c] = m => Following(c)'
<1> DEFINE w == wire[m]
           v == Head(w).version
<1>1. SeqTypes /\ ClientTypes /\ CountTypes
  BY DEF ViewContext, SeqInv, ReachInv, CountInv
<1>2. /\ UNCHANGED <<version, pub, listening, phase, missed, raced>> /\ reader[m] = "reading"
      /\ w # << >> /\ wire' = [wire EXCEPT ![m] = Tail(w)]
      /\ shown' = [c \in Clients |-> IF c \in Here(m) /\ v # 0 THEN v ELSE shown[c]]
      /\ ~unordered /\ \A c \in Here(m) : phase[c] # "reading"
  BY DEF Deliver, game, endpoint
<1>3. /\ v = w[1].version /\ Len(w) \in Nat /\ Len(w) >= 1 /\ Len(Tail(w)) = Len(w) - 1
      /\ \A i \in 1..Len(Tail(w)) : Tail(w)[i] = w[i + 1] /\ i + 1 \in 1..Len(w)
  BY <1>1, <1>2, WireSplits
<1>4. wire'[m] = Tail(w)
  BY <1>1, <1>2 DEF SeqTypes
<1>5. Fresh(m) /\ Carrying' = Carrying /\ \A c \in Clients : Following(c)
  BY <1>2 DEF ViewContext, ViewInv, Carrying
<1>6. \A i \in 1..Len(w) : i = 1 \/ (i - 1 \in 1..Len(Tail(w)) /\ Tail(w)[i - 1] = w[i])
  <2> SUFFICES ASSUME NEW i \in 1..Len(w), i # 1 PROVE i - 1 \in 1..Len(Tail(w)) /\ Tail(w)[i - 1] = w[i]
    OBVIOUS
  <2>1. i - 1 \in 1..Len(Tail(w)) /\ (i - 1) + 1 = i
    BY <1>3
  <2> QED BY <1>3, <2>1
<1>7. /\ \A i \in 1..Len(w) : LastGame(m, i) <=> w[i].version # 0 /\ \A j \in 1..Len(w) : i < j => w[j].version = 0
      /\ GameOn(m) <=> \E i \in 1..Len(w) : w[i].version # 0
  BY DEF LastGame, GameOn
<1> HIDE DEF w, v
<1>8. Fresh(m)'
  <2> SUFFICES ASSUME listening[m], ~Carrying, NEW i \in 1..Len(Tail(w)), LastGame(m, i)'
               PROVE  Tail(w)[i].version = version
    BY <1>2, <1>4, <1>5 DEF Fresh
  <2>1. Tail(w)[i].version # 0 /\ \A j \in 1..Len(Tail(w)) : i < j => Tail(w)[j].version = 0
    BY <1>4 DEF LastGame
  <2>2. i + 1 \in 1..Len(w) /\ w[i + 1] = Tail(w)[i]
    BY <1>3
  <2>3. ASSUME NEW j \in 1..Len(w), i + 1 < j PROVE w[j].version = 0
    <3>1. j - 1 \in 1..Len(Tail(w)) /\ Tail(w)[j - 1] = w[j] /\ i < j - 1
      BY <1>6, <2>2, <2>3
    <3> QED BY <2>1, <3>1
  <2>4. LastGame(m, i + 1)
    BY <1>7, <2>1, <2>2, <2>3
  <2>5. w[i + 1].version = version
    BY <1>5, <2>2, <2>4 DEF Fresh, w
  <2> QED BY <2>2, <2>5
<1>9. ASSUME NEW c \in Clients, Home[c] = m PROVE Following(c)'
  <2> SUFFICES ASSUME phase[c] \in {"reading", "live"}, Undisturbed(c), ~Carrying, ~GameOn(m)'
               PROVE  Seen(c)' = version
    BY <1>2, <1>5, <1>9 DEF Following, Undisturbed
  <2>1. c \in Here(m) /\ phase[c] = "live"
    BY <1>2, <1>9 DEF Here, Locals, Registered, Phases
  <2>2. listening[m]
    BY <1>2, <1>9, <2>1, ToldListens DEF ViewContext, Undisturbed, Told
  <2>3. \A i \in 1..Len(Tail(w)) : Tail(w)[i].version = 0
    BY <1>4 DEF GameOn
  <2>4. \A i \in 1..Len(w) : i # 1 => w[i].version = 0
    BY <1>6, <2>3
  <2>5. Seen(c)' = IF v # 0 THEN v ELSE shown[c]
    BY <1>2, <2>1 DEF Seen
  <2>6. CASE v # 0
    <3>1. 1 \in 1..Len(w) /\ \A j \in 1..Len(w) : 1 < j => w[j].version = 0
      BY <1>3, <2>4
    <3>2. LastGame(m, 1)
      BY <1>3, <1>7, <2>6, <3>1
    <3>3. w[1].version = version
      BY <1>5, <2>2, <3>1, <3>2 DEF Fresh, w
    <3> QED BY <1>3, <2>5, <2>6, <3>3
  <2>7. CASE v = 0
    <3>1. \A i \in 1..Len(w) : w[i].version = 0
      BY <1>3, <2>4, <2>7
    <3>2. ~GameOn(m)
      BY <1>7, <3>1
    <3>3. Seen(c) = version /\ Seen(c) = shown[c]
      BY <1>5, <1>9, <2>1, <3>2 DEF Following, Seen
    <3> QED BY <2>5, <2>7, <3>3
  <2> QED BY <2>6, <2>7
<1> QED BY <1>8, <1>9

\* What a reader loses, its connections have missed; a new one finds the wire empty.
LEMMA ReadingViews ==
  ASSUME ViewContext, NEW m \in Nodes, Reading(m)
  PROVE  ViewInv'
<1> SUFFICES ASSUME ~unordered' PROVE ViewInv'
  BY DEF ViewInv
<1>1. SeqTypes /\ ClientTypes /\ CountTypes /\ Deaf
  BY DEF ViewContext, SeqInv, ReachInv, CountInv
<1>2. UNCHANGED <<version, pub>> /\ ~unordered
  <2>1. UNCHANGED <<version, pub>>
    BY DEF Reading, Deliver, ReaderFails, Reconnect, ReconnectFails, Crash, game
  <2>2. CASE Deliver(m)
    BY <2>1, <2>2 DEF Deliver
  <2>3. CASE ~Deliver(m)
    BY <2>1, <2>3 DEF Reading, ReaderFails, Reconnect, ReconnectFails, Crash
  <2> QED BY <2>2, <2>3
<1>3. /\ \A q \in Publishers : pub[q] # Idle => pub[q].version \in {0, version}
      /\ \A n \in Nodes : Fresh(n)
      /\ \A c \in Clients : Following(c)
  BY <1>2 DEF ViewContext, ViewInv
<1>4. Carrying' = Carrying
  BY <1>2 DEF Carrying
<1>5. ASSUME NEW n \in Nodes, n # m PROVE wire'[n] = wire[n] /\ listening'[n] = listening[n] /\ raced'[n] = raced[n]
  BY <1>1, <1>5 DEF Reading, Deliver, ReaderFails, Reconnect, ReconnectFails, Crash, SeqTypes, CountTypes
<1>6. ASSUME NEW n \in Nodes PROVE Fresh(n)'
  <2>1. CASE n # m
    BY <1>2, <1>3, <1>4, <1>5, <2>1 DEF Fresh, LastGame
  <2>2. CASE n = m /\ Deliver(m)
    BY <2>2, DeliveryViews
  <2>3. CASE n = m /\ (ReaderFails(m) \/ Crash(m))
    BY <1>1, <2>3 DEF ReaderFails, Crash, CountTypes, Fresh
  <2>4. CASE n = m /\ Reconnect(m)
    <3>1. wire'[n] = << >>
      BY <1>1, <2>4 DEF Reconnect, Deaf
    <3>2. 1..Len(wire'[n]) = {}
      BY <3>1
    <3> QED BY <3>2 DEF Fresh
  <2>5. CASE n = m /\ ReconnectFails(m)
    BY <1>2, <1>3, <1>4, <2>5 DEF ReconnectFails, Fresh, LastGame
  <2> QED BY <2>1, <2>2, <2>3, <2>4, <2>5 DEF Reading
<1>7. ASSUME NEW c \in Clients PROVE Following(c)'
  <2> Home[c] \in Nodes
    BY BackplaneAssumption
  <2>1. CASE Home[c] # m
    <3>1. phase'[c] = phase[c] /\ snapshot'[c] = snapshot[c] /\ shown'[c] = shown[c]
      <4>1. CASE Crash(m)
        BY <1>1, <2>1, <4>1 DEF Crash, Forget, Locals
      <4>2. CASE Deliver(m)
        BY <1>1, <2>1, <4>2 DEF Deliver, Here, Locals, endpoint
      <4>3. CASE ~Crash(m) /\ ~Deliver(m)
        BY <4>3 DEF Reading, ReaderFails, Reconnect, ReconnectFails, endpoint, client
      <4> QED BY <4>1, <4>2, <4>3
    <3>2. missed'[c] = missed[c]
      <4>1. c \notin Here(m) /\ c \notin Locals(m)
        BY <2>1 DEF Here, Locals
      <4>2. CASE Crash(m)
        <5>1. missed'[c] = (missed[c] /\ c \notin Locals(m))
          BY <4>2 DEF Crash, Forget
        <5>2. missed[c] \in BOOLEAN
          BY <1>1 DEF ClientTypes
        <5> QED BY <4>1, <5>1, <5>2
      <4>3. CASE ReaderFails(m) \/ Reconnect(m)
        <5>1. missed'[c] = (missed[c] \/ c \in Here(m))
          BY <4>3 DEF ReaderFails, Reconnect
        <5>2. missed[c] \in BOOLEAN
          BY <1>1 DEF ClientTypes
        <5> QED BY <4>1, <5>1, <5>2
      <4>4. CASE Deliver(m) \/ ReconnectFails(m)
        BY <4>4 DEF Deliver, ReconnectFails
      <4> QED BY <4>2, <4>3, <4>4 DEF Reading
    <3>3. Following(c) /\ wire'[Home[c]] = wire[Home[c]] /\ raced'[Home[c]] = raced[Home[c]]
      BY <1>3, <1>5, <2>1
    <3> QED BY <1>2, <1>4, <3>1, <3>2, <3>3 DEF Following, Undisturbed, GameOn, Seen
  <2>2. CASE Home[c] = m /\ Deliver(m)
    BY <2>2, DeliveryViews
  <2>3. CASE Home[c] = m /\ (ReaderFails(m) \/ Reconnect(m))
    <3>1. missed'[c] = (missed[c] \/ c \in Here(m)) /\ phase' = phase
      BY <2>3 DEF ReaderFails, Reconnect, endpoint
    <3>2. phase[c] \in {"reading", "live"} => c \in Here(m)
      BY <2>3 DEF Here, Locals, Registered, Phases
    <3> QED BY <3>1, <3>2 DEF Following, Undisturbed
  <2>4. CASE Home[c] = m /\ ReconnectFails(m)
    <3>1. UNCHANGED <<phase, missed, wire, snapshot, shown>> /\ (raced[m] => raced'[m])
      BY <1>1, <2>4 DEF ReconnectFails, endpoint, client, CountTypes
    <3> QED BY <1>2, <1>3, <1>4, <2>4, <3>1 DEF Following, Undisturbed, GameOn, Seen
  <2>5. CASE Home[c] = m /\ Crash(m)
    <3>1. phase'[c] = "off"
      BY <2>5 DEF Crash
    <3> QED BY <3>1 DEF Following
  <2> QED BY <2>1, <2>2, <2>3, <2>4, <2>5 DEF Reading
<1> QED BY <1>2, <1>3, <1>6, <1>7 DEF ViewInv

\* Nothing has been committed and nobody is connected at first.
LEMMA InitView == Init => Committed /\ ViewInv
<1> SUFFICES ASSUME Init PROVE Committed /\ ViewInv
  OBVIOUS
<1>1. /\ \A p \in Publishers : pub[p] = Idle
      /\ \A n \in Nodes : ~listening[n] /\ wire[n] = << >>
      /\ \A c \in Clients : phase[c] = "off" /\ snapshot[c] = 0 /\ shown[c] = 0
      /\ version = 0
  BY DEF Init
<1>2. \A n \in Nodes : 1..Len(wire[n]) = {}
  BY <1>1
<1> QED BY <1>1, <1>2 DEF Committed, ViewInv, Fresh, Following

\* Every step leaves everybody following the game.
LEMMA ViewStep == ViewContext /\ [Next]_vars => ViewInv'
<1> SUFFICES ASSUME ViewContext, [Next]_vars PROVE ViewInv'
  OBVIOUS
<1>1. CASE UNCHANGED vars
  <2>1. UNCHANGED <<version, pub, listening, wire, phase, snapshot, shown, missed, raced, unordered>>
    BY <1>1 DEF vars, game, redis, endpoint, client, history
  <2>2. /\ Carrying' = Carrying /\ (\A n \in Nodes : Fresh(n)' = Fresh(n))
        /\ \A c \in Clients : Following(c)' = Following(c)
    BY <2>1 DEF Carrying, Fresh, LastGame, Following, Undisturbed, GameOn, Seen
  <2> QED BY <2>1, <2>2 DEF ViewContext, ViewInv
<1> QED BY <1>1, PublishingViews, EndpointViews, ReadingViews DEF Next

\* ... and the last state it was shown is the game as committed, as long as nothing
\* was sent that later news had overtaken.
THEOREM ViewsAreCurrent == Spec => []ViewCurrent
<1>1. ViewContext => ViewCurrent
  <2> SUFFICES ASSUME ViewContext, ~unordered, NEW c \in Clients, Followed(c) PROVE shown[c] = version
    BY DEF ViewCurrent
  <2>1. /\ phase[c] = "live" /\ Undisturbed(c) /\ Busy = {}
        /\ wire[Home[c]] = << >> \/ count[Home[c]] = 0
    BY DEF Followed, Quiet, Undisturbed
  <2>2. count[Home[c]] > 0 /\ Home[c] \in Nodes /\ count \in [Nodes -> Nat]
    BY <2>1, ToldListens, BackplaneAssumption DEF ViewContext, Undisturbed, Told, CountInv, CountTypes
  <2>3. wire[Home[c]] = << >>
    BY <2>1, <2>2
  <2>4. ~Carrying /\ ~GameOn(Home[c])
    <3>1. 1..Len(wire[Home[c]]) = {}
      BY <2>3
    <3> QED BY <2>1, <3>1 DEF Carrying, GameOn, Busy
  <2>5. Following(c)
    BY DEF ViewContext, ViewInv
  <2> QED BY <2>1, <2>4, <2>5 DEF Following, Seen
<1>2. ViewContext /\ [Next]_vars => ViewContext'
  BY CountStep, SeqStep, ReachStep, CommittedStep, ViewStep DEF ViewContext, SeqInv, ReachInv
<1>3. Init => ViewContext
  BY InitCount, InitSeq, InitReach, InitView DEF ViewContext
<1> QED BY <1>1, <1>2, <1>3, PTL DEF Spec

-----------------------------------------------------------------------------
(* Bounds.                                                                 *)

\* Publications without a number, and those that have drawn theirs.
Undrawn == {p \in Publishers : pub[p] # Idle /\ pub[p].at = "committed"}
Unsent  == {p \in Publishers : Drawn(p)}

\* Numbers are drawn by publications, and nothing is sent or heard that has none.
Extents ==
  /\ IsFiniteSet(Busy)
  /\ seq + Cardinality(Undrawn) <= MaxSeq
  /\ version <= seq + Cardinality(Undrawn) + failures
  /\ \A p \in Publishers : pub[p] # Idle => pub[p].seq <= seq
  /\ \A n \in Nodes : Len(wire[n]) + Cardinality(Unsent) <= seq
  /\ \A c \in Clients : /\ Len(heard[c]) + Len(wire[Home[c]]) + Cardinality(Unsent) <= seq
                        /\ start[c] <= seq

\* The publications are these two kinds.
LEMMA PublicationSets ==
  ASSUME SeqTypes, IsFiniteSet(Busy)
  PROVE  /\ \A p \in Publishers : /\ p \in Undrawn => p \notin Unsent
                                  /\ p \in Busy <=> p \in Undrawn \/ p \in Unsent
         /\ IsFiniteSet(Undrawn) /\ IsFiniteSet(Unsent)
         /\ Cardinality(Undrawn) \in Nat /\ Cardinality(Unsent) \in Nat /\ Cardinality(Busy) \in Nat
         /\ Cardinality(Undrawn) <= Cardinality(Busy)
<1>1. \A p \in Publishers : /\ p \in Undrawn => p \notin Unsent
                            /\ p \in Busy <=> p \in Undrawn \/ p \in Unsent
  <2> SUFFICES ASSUME NEW p \in Publishers
               PROVE  /\ p \in Undrawn => p \notin Unsent
                      /\ p \in Busy <=> p \in Undrawn \/ p \in Unsent
    OBVIOUS
  <2>1. pub[p] = Idle => ~Drawn(p)
    BY PubIs
  <2>2. pub[p] # Idle => pub[p].at \in {"committed", "drawn"}
    BY PubIs DEF Sending
  <2> QED BY <2>1, <2>2 DEF Undrawn, Unsent, Busy, Drawn
<1>2. Undrawn \subseteq Busy /\ Unsent \subseteq Busy
  BY <1>1 DEF Undrawn, Unsent
<1> QED BY <1>1, <1>2, FS_Subset, FS_CardinalityType

\* A publication begins, goes on or ends: what becomes of the two kinds.
LEMMA PublicationMoves ==
  ASSUME SeqTypes, SeqTypes', IsFiniteSet(Busy), NEW p \in Publishers,
         \A q \in Publishers : q # p => pub'[q] = pub[q]
  PROVE  /\ IsFiniteSet(Busy')
         /\ Cardinality(Undrawn') = Cardinality(Undrawn)
              + (IF p \in Undrawn' THEN 1 ELSE 0) - (IF p \in Undrawn THEN 1 ELSE 0)
         /\ Cardinality(Unsent') = Cardinality(Unsent)
              + (IF p \in Unsent' THEN 1 ELSE 0) - (IF p \in Unsent THEN 1 ELSE 0)
<1>1. /\ IsFiniteSet(Undrawn) /\ IsFiniteSet(Unsent)
      /\ Cardinality(Undrawn) \in Nat /\ Cardinality(Unsent) \in Nat
  BY PublicationSets
<1>2. \A q \in Publishers : q # p => (q \in Undrawn' <=> q \in Undrawn) /\ (q \in Unsent' <=> q \in Unsent)
                                     /\ (q \in Busy' <=> q \in Busy)
  BY DEF Undrawn, Unsent, Drawn, Busy
<1>3. /\ Undrawn \subseteq Publishers /\ Unsent \subseteq Publishers /\ Busy \subseteq Publishers
      /\ Undrawn' \subseteq Publishers /\ Unsent' \subseteq Publishers /\ Busy' \subseteq Publishers
  BY DEF Undrawn, Unsent, Busy
<1>4. IsFiniteSet(Busy')
  <2>1. IsFiniteSet(Busy \cup {p}) /\ Busy' \subseteq Busy \cup {p}
    BY <1>2, <1>3, FS_AddElement
  <2> QED BY <2>1, FS_Subset
<1>5. ASSUME NEW A, NEW B, IsFiniteSet(A), Cardinality(A) \in Nat, A \subseteq Publishers, B \subseteq Publishers,
             \A q \in Publishers : q # p => (q \in B <=> q \in A)
      PROVE  Cardinality(B) = Cardinality(A) + (IF p \in B THEN 1 ELSE 0) - (IF p \in A THEN 1 ELSE 0)
  <2>1. CASE (p \in B) <=> (p \in A)
    <3>1. B = A
      BY <1>5, <2>1
    <3> QED BY <1>5, <2>1, <3>1
  <2>2. CASE p \in B /\ p \notin A
    <3>1. B = A \cup {p}
      BY <1>5, <2>2
    <3>2. Cardinality(A \cup {p}) = Cardinality(A) + 1
      BY <1>5, <2>2, FS_AddElement
    <3> QED BY <1>5, <2>2, <3>1, <3>2
  <2>3. CASE p \notin B /\ p \in A
    <3>1. B = A \ {p}
      BY <1>5, <2>3
    <3>2. Cardinality(A \ {p}) = Cardinality(A) - 1
      BY <1>5, <2>3, FS_RemoveElement
    <3> QED BY <1>5, <2>3, <3>1, <3>2
  <2> QED BY <2>1, <2>2, <2>3
<1> QED BY <1>1, <1>2, <1>3, <1>4, <1>5

\* If a wire grows no more than the numbers do, it keeps its bound.
LEMMA WireRoom ==
  \A a, b, u, uu, s, ss \in Int : a - b + uu - u <= ss - s /\ b + u <= s => a + uu <= ss
OBVIOUS

\* Publications keep the bounds.
LEMMA PublishingExtents ==
  ASSUME SeqTypes, SeqTypes', ClientTypes, Extents, NEW p \in Publishers, Publishing(p)
  PROVE  Extents'
<1>1. /\ version \in Nat /\ seq \in Nat /\ failures \in Nat /\ MaxSeq \in Nat /\ version' \in Nat /\ seq' \in Nat
      /\ IsFiniteSet(Busy)
  BY BackplaneAssumption DEF SeqTypes, ClientTypes, Extents
<1>2. /\ \A q \in Publishers : q # p => pub'[q] = pub[q]
      /\ UNCHANGED <<heard, start>>
  BY DEF Publishing, CommitMove, SendChat, Begin, DrawSeq, Publish, PublishFails, client, SeqTypes
<1>3. /\ IsFiniteSet(Busy')
      /\ Cardinality(Undrawn') = Cardinality(Undrawn)
           + (IF p \in Undrawn' THEN 1 ELSE 0) - (IF p \in Undrawn THEN 1 ELSE 0)
      /\ Cardinality(Unsent') = Cardinality(Unsent)
           + (IF p \in Unsent' THEN 1 ELSE 0) - (IF p \in Unsent THEN 1 ELSE 0)
  BY <1>1, <1>2, PublicationMoves
<1>4. /\ Cardinality(Undrawn) \in Nat /\ Cardinality(Unsent) \in Nat /\ Cardinality(Busy) \in Nat
      /\ Cardinality(Undrawn) <= Cardinality(Busy)
      /\ p \in Undrawn => p \notin Unsent
      /\ p \in Busy <=> p \in Undrawn \/ p \in Unsent
  BY <1>1, PublicationSets
<1>5. /\ \A n \in Nodes : Len(wire[n]) \in Nat /\ Len(wire'[n]) \in Nat
      /\ \A c \in Clients : Len(heard[c]) \in Nat /\ start[c] \in Nat /\ Home[c] \in Nodes
  BY BackplaneAssumption DEF SeqTypes, ClientTypes
<1>6. /\ seq + Cardinality(Undrawn) <= MaxSeq
      /\ version <= seq + Cardinality(Undrawn) + failures
      /\ \A q \in Publishers : pub[q] # Idle => pub[q].seq \in Nat /\ pub[q].seq <= seq
      /\ \A n \in Nodes : Len(wire[n]) + Cardinality(Unsent) <= seq
      /\ \A c \in Clients : /\ Len(heard[c]) + Len(wire[Home[c]]) + Cardinality(Unsent) <= seq
                            /\ start[c] <= seq
  BY PubIs DEF Extents, Sending
\* What is left to see, apart from the numbers that others have drawn.
<1> DEFINE u == Cardinality(Unsent)
           uu == Cardinality(Unsent')
<1>7. ASSUME seq <= seq', pub'[p] # Idle => pub'[p].seq \in Nat /\ pub'[p].seq <= seq',
             seq' + Cardinality(Undrawn') <= MaxSeq,
             version' <= seq' + Cardinality(Undrawn') + failures',
             \A n \in Nodes : Len(wire'[n]) - Len(wire[n]) + uu - u <= seq' - seq
      PROVE  Extents'
  <2>1. uu \in Int /\ u \in Int
    BY <1>3, <1>4
  <2>2. \A q \in Publishers : pub'[q] # Idle => pub'[q].seq <= seq'
    BY <1>1, <1>2, <1>6, <1>7
  <2>3. /\ \A n \in Nodes : Len(wire[n]) + u <= seq
        /\ \A c \in Clients : Len(heard[c]) + Len(wire[Home[c]]) + u <= seq
    BY <1>6
  <2> HIDE DEF u, uu
  <2>4. ASSUME NEW n \in Nodes PROVE Len(wire'[n]) + uu <= seq'
    <3> DEFINE a == Len(wire'[n])
               b == Len(wire[n])
    <3>1. a \in Nat /\ b \in Nat /\ a - b + uu - u <= seq' - seq /\ b + u <= seq
      BY <1>5, <1>7, <2>3
    <3> HIDE DEF a, b
    <3>2. seq \in Int /\ seq' \in Int /\ a \in Int /\ b \in Int
      BY <1>1, <3>1
    <3>3. a + uu <= seq'
      BY <2>1, <3>1, <3>2, WireRoom
    <3> QED BY <3>3 DEF a
  <2>5. ASSUME NEW c \in Clients PROVE Len(heard'[c]) + Len(wire'[Home[c]]) + uu <= seq' /\ start'[c] <= seq'
    <3> DEFINE a == Len(wire'[Home[c]])
               b == Len(wire[Home[c]])
               h == Len(heard[c])
    <3>1. a \in Nat /\ b \in Nat /\ h \in Nat /\ start[c] \in Nat
      BY <1>5
    <3>2. a - b + uu - u <= seq' - seq /\ h + b + u <= seq /\ start[c] <= seq
      BY <1>5, <1>6, <1>7, <2>3
    <3>3. Len(heard'[c]) = h /\ start'[c] = start[c]
      BY <1>2
    <3> HIDE DEF a, b, h
    <3>4. seq \in Nat /\ seq' \in Nat /\ seq <= seq'
      BY <1>1, <1>7, Zenon
    <3>5. h + a + uu <= seq'
      <4> DEFINE ha == h + a
                 hb == h + b
                 d  == a - b
      <4>1. /\ ha \in Int /\ hb \in Int /\ seq \in Int /\ seq' \in Int
            /\ d \in Int /\ ha - hb = d
        BY <3>1, <3>4
      <4>2. d + uu - u <= seq' - seq /\ hb + u <= seq
        BY <3>2
      <4> HIDE DEF ha, hb, d
      <4>3. ha - hb + uu - u <= seq' - seq
        BY <4>1, <4>2
      <4>4. ha + uu <= seq'
        BY <2>1, <4>1, <4>2, <4>3, WireRoom
      <4> QED BY <4>4 DEF ha
    <3>6. start[c] <= seq'
      BY <3>1, <3>2, <3>4
    <3> QED BY <3>3, <3>5, <3>6 DEF a
  <2> QED BY <1>3, <1>7, <2>2, <2>4, <2>5 DEF Extents, u, uu
<1>8. CASE CommitMove(p) \/ SendChat(p)
  <2>1. /\ pub[p] = Idle /\ seq + Cardinality(Busy) < MaxSeq /\ UNCHANGED <<seq, wire, failures>>
        /\ version' \in {version, version + 1}
        /\ \E v : pub' = [pub EXCEPT ![p] = [at |-> "committed", version |-> v, seq |-> 0]]
    BY <1>8 DEF CommitMove, SendChat, Begin, redis
  <2>2. pub'[p].at = "committed" /\ pub'[p].seq = 0
    BY <2>1 DEF SeqTypes
  <2>3. pub'[p] # Idle /\ ~Drawn(p)'
    BY <2>2 DEF Idle, Drawn
  <2>4. p \in Undrawn' /\ p \notin Unsent' /\ p \notin Undrawn /\ p \notin Unsent
    BY <2>1, <2>2, <2>3, PubIs DEF Undrawn, Unsent
  <2>5. Cardinality(Undrawn') = Cardinality(Undrawn) + 1 /\ Cardinality(Unsent') = Cardinality(Unsent)
    BY <1>3, <1>4, <2>4
  <2> QED BY <1>1, <1>4, <1>5, <1>6, <1>7, <2>1, <2>2, <2>5
<1>9. CASE DrawSeq(p)
  <2>1. /\ pub[p] # Idle /\ pub[p].at = "committed" /\ seq' = seq + 1 /\ UNCHANGED <<version, wire, failures>>
        /\ pub' = [pub EXCEPT ![p].at = "drawn", ![p].seq = seq + 1]
    BY <1>9 DEF DrawSeq, redis, history
  <2>2. pub'[p].at = "drawn" /\ pub'[p].seq = seq + 1
    BY <2>1, PubIs DEF SeqTypes, Sending
  <2>3. p \notin Undrawn' /\ p \in Unsent' /\ p \in Undrawn /\ p \notin Unsent
    BY <2>1, <2>2 DEF Undrawn, Unsent, Drawn
  <2>4. Cardinality(Undrawn') = Cardinality(Undrawn) - 1 /\ Cardinality(Unsent') = Cardinality(Unsent) + 1
    BY <1>3, <1>4, <2>3
  <2> QED BY <1>1, <1>4, <1>5, <1>6, <1>7, <2>1, <2>2, <2>4
<1>10. CASE Publish(p)
  <2>1. /\ pub[p] # Idle /\ pub[p].at = "drawn" /\ pub' = [pub EXCEPT ![p] = Idle]
        /\ UNCHANGED <<version, seq, failures>>
    BY <1>10 DEF Publish
  <2>2. pub'[p] = Idle /\ ~Drawn(p)'
    BY <2>1 DEF SeqTypes, Drawn, Idle
  <2>3. p \notin Undrawn' /\ p \notin Unsent' /\ p \notin Undrawn /\ p \in Unsent
    BY <2>1, <2>2 DEF Undrawn, Unsent, Drawn
  <2>4. Cardinality(Undrawn') = Cardinality(Undrawn) /\ Cardinality(Unsent') = Cardinality(Unsent) - 1
    BY <1>3, <1>4, <2>3
  <2>5. ASSUME NEW n \in Nodes PROVE Len(wire'[n]) <= Len(wire[n]) + 1
    <3>1. ~listening[n] => wire'[n] = wire[n]
      BY <1>10, WireGrows
    <3>2. listening[n] => Len(wire'[n]) = Len(wire[n]) + 1
      BY <1>10, WireGrows
    <3> QED BY <1>5, <3>1, <3>2
  <2>6. \A n \in Nodes : Len(wire'[n]) - Len(wire[n]) + Cardinality(Unsent') - Cardinality(Unsent) <= seq' - seq
    <3> SUFFICES ASSUME NEW n \in Nodes
                 PROVE  Len(wire'[n]) - Len(wire[n]) + Cardinality(Unsent') - Cardinality(Unsent) <= seq' - seq
      OBVIOUS
    <3>1. uu = u - 1 /\ u \in Nat
      BY <1>4, <2>4
    <3> HIDE DEF u, uu
    <3> DEFINE a == Len(wire'[n])
               b == Len(wire[n])
    <3>2. a \in Nat /\ b \in Nat /\ a <= b + 1
      BY <1>5, <2>5
    <3> HIDE DEF a, b
    <3>3. seq' = seq /\ seq \in Nat
      BY <1>1, <2>1
    <3>4. a - b + uu - u <= seq' - seq
      BY <3>1, <3>2, <3>3
    <3> QED BY <3>4 DEF a, b, u, uu
  <2>7. /\ seq' + Cardinality(Undrawn') <= MaxSeq
        /\ version' <= seq' + Cardinality(Undrawn') + failures'
    BY <1>6, <2>1, <2>4
  <2>8. seq <= seq' /\ pub'[p] = Idle
    BY <1>1, <2>1, <2>2
  <2>9. \A n \in Nodes : Len(wire'[n]) - Len(wire[n]) + uu - u <= seq' - seq
    BY <2>6, Zenon
  <2> HIDE DEF u, uu
  <2> QED BY <1>7, <2>7, <2>8, <2>9
<1>11. CASE PublishFails(p)
  <2>1. /\ pub[p] # Idle /\ pub' = [pub EXCEPT ![p] = Idle] /\ failures' = failures + 1
        /\ UNCHANGED <<version, seq, wire>>
    BY <1>11 DEF PublishFails, redis
  <2>2. pub'[p] = Idle /\ ~Drawn(p)'
    BY <2>1 DEF SeqTypes, Drawn, Idle
  <2>3. p \notin Undrawn' /\ p \notin Unsent'
    BY <2>2 DEF Undrawn, Unsent
  <2>4. /\ Cardinality(Undrawn') \in {Cardinality(Undrawn), Cardinality(Undrawn) - 1}
        /\ Cardinality(Unsent') \in {Cardinality(Unsent), Cardinality(Unsent) - 1}
    BY <1>3, <1>4, <2>3
  <2>5. /\ seq' + Cardinality(Undrawn') <= MaxSeq
        /\ version' <= seq' + Cardinality(Undrawn') + failures'
    BY <1>1, <1>4, <1>6, <2>1, <2>4
  <2>6. \A n \in Nodes : Len(wire'[n]) - Len(wire[n]) + Cardinality(Unsent') - Cardinality(Unsent) <= seq' - seq
    BY <1>1, <1>4, <1>5, <2>1, <2>4
  <2> QED BY <1>1, <1>7, <2>1, <2>2, <2>5, <2>6
<1> QED BY <1>8, <1>9, <1>10, <1>11 DEF Publishing

\* Endpoints forget, and readers take from the wire what they hand on.
LEMMA OthersMove ==
  ASSUME SeqTypes, SeqTypes', ClientTypes,
         (\E c \in Clients : Endpoint(c)) \/ (\E n \in Nodes : Reading(n)) \/ UNCHANGED vars
  PROVE  /\ UNCHANGED <<version, seq, pub>> /\ failures' \in {failures, failures + 1}
         /\ \A n \in Nodes : Len(wire'[n]) <= Len(wire[n])
         /\ \A c \in Clients : /\ Len(heard'[c]) + Len(wire'[Home[c]]) <= Len(heard[c]) + Len(wire[Home[c]])
                               /\ start'[c] \in {start[c], seq, 0}
<1>1. /\ \A n \in Nodes : Len(wire[n]) \in Nat
      /\ \A c \in Clients : Len(heard[c]) \in Nat /\ start[c] \in Nat /\ Home[c] \in Nodes
      /\ Len(<< >>) = 0
  BY BackplaneAssumption DEF SeqTypes, ClientTypes
<1>2. CASE UNCHANGED vars
  <2>1. UNCHANGED <<version, seq, pub, failures, wire, heard, start>>
    BY <1>2 DEF vars, game, redis, history, client
  <2> QED BY <1>1, <2>1
<1>3. ASSUME NEW d \in Clients, Endpoint(d)
      PROVE  /\ UNCHANGED <<version, seq, pub, wire>> /\ failures' \in {failures, failures + 1}
             /\ \A c \in Clients : heard'[c] \in {heard[c], << >>} /\ start'[c] \in {start[c], seq, 0}
  <2>1. UNCHANGED <<version, seq, pub, wire>> /\ failures' \in {failures, failures + 1}
    BY <1>3 DEF Endpoint, Register, Subscribe, FinishSubscribe, ReadSeq, ReadSnapshot, SendSnapshot, Leave, FinishUnsubscribe, CallRaises, Call, game, redis, history
  <2>2. CASE Leave(d) \/ CallRaises(d)
    BY <2>1, <2>2 DEF Leave, CallRaises, Forget
  <2>3. CASE ReadSeq(d)
    BY <2>1, <2>3 DEF ReadSeq, ClientTypes
  <2>4. CASE ~Leave(d) /\ ~CallRaises(d) /\ ~ReadSeq(d)
    BY <1>3, <2>1, <2>4 DEF Endpoint, Register, Subscribe, FinishSubscribe, ReadSnapshot, SendSnapshot, FinishUnsubscribe, Call, client
  <2> QED BY <2>2, <2>3, <2>4
<1>4. ASSUME NEW n \in Nodes, Reading(n), ~Deliver(n)
      PROVE  /\ UNCHANGED <<version, seq, pub>> /\ failures' \in {failures, failures + 1}
             /\ \A m \in Nodes : wire'[m] \in {wire[m], << >>}
             /\ \A c \in Clients : heard'[c] \in {heard[c], << >>} /\ start'[c] \in {start[c], seq, 0}
  <2>1. UNCHANGED <<version, seq, pub>> /\ failures' \in {failures, failures + 1}
    BY <1>4 DEF Reading, ReaderFails, Reconnect, ReconnectFails, Crash, game
  <2>2. \A m \in Nodes : wire'[m] \in {wire[m], << >>}
    BY <1>4 DEF Reading, ReaderFails, Reconnect, ReconnectFails, Crash, SeqTypes
  <2>3. \A c \in Clients : heard'[c] \in {heard[c], << >>} /\ start'[c] \in {start[c], seq, 0}
    BY <1>4 DEF Reading, ReaderFails, Reconnect, ReconnectFails, Crash, Forget, client
  <2> QED BY <2>1, <2>2, <2>3
<1>5. ASSUME NEW n \in Nodes, Deliver(n)
      PROVE  /\ UNCHANGED <<version, seq, pub, failures, start>>
             /\ Len(wire'[n]) = Len(wire[n]) - 1 /\ \A m \in Nodes : m # n => wire'[m] = wire[m]
             /\ \A c \in Clients : \/ heard'[c] = heard[c]
                                   \/ Home[c] = n /\ Len(heard'[c]) = Len(heard[c]) + 1
  <2>1. /\ UNCHANGED <<version, seq, pub, failures, start>> /\ wire[n] # << >>
        /\ wire' = [wire EXCEPT ![n] = Tail(wire[n])]
    BY <1>5 DEF Deliver, game
  <2>2. Len(Tail(wire[n])) = Len(wire[n]) - 1 /\ Head(wire[n]).seq \in Nat
    BY <2>1, WireSplits DEF Message
  <2>3. wire'[n] = Tail(wire[n]) /\ \A m \in Nodes : m # n => wire'[m] = wire[m]
    BY <2>1 DEF SeqTypes
  <2>4. ASSUME NEW c \in Clients PROVE heard'[c] = heard[c] \/ (Home[c] = n /\ Len(heard'[c]) = Len(heard[c]) + 1)
    <3>1. CASE c \in Here(n)
      <4>1. heard'[c] = Append(heard[c], Head(wire[n]).seq) /\ Home[c] = n
        BY <1>5, <3>1 DEF Deliver, Here, Locals
      <4>2. Len(Append(heard[c], Head(wire[n]).seq)) = Len(heard[c]) + 1
        BY <2>2, QueueOps DEF SeqTypes
      <4> QED BY <4>1, <4>2
    <3>2. CASE c \notin Here(n)
      BY <1>5, <3>2 DEF Deliver
    <3> QED BY <3>1, <3>2
  <2> QED BY <2>1, <2>2, <2>3, <2>4
<1>6. CASE \E d \in Clients : Endpoint(d)
  <2>1. /\ UNCHANGED <<version, seq, pub, wire>> /\ failures' \in {failures, failures + 1}
        /\ \A c \in Clients : heard'[c] \in {heard[c], << >>} /\ start'[c] \in {start[c], seq, 0}
    BY <1>3, <1>6
  <2>2. \A c \in Clients : Len(heard'[c]) <= Len(heard[c])
    BY <1>1, <2>1
  <2> QED BY <1>1, <2>1, <2>2
<1>7. CASE \E n \in Nodes : Reading(n) /\ ~Deliver(n)
  <2>1. /\ UNCHANGED <<version, seq, pub>> /\ failures' \in {failures, failures + 1}
        /\ \A m \in Nodes : wire'[m] \in {wire[m], << >>}
        /\ \A c \in Clients : heard'[c] \in {heard[c], << >>} /\ start'[c] \in {start[c], seq, 0}
    BY <1>4, <1>7
  <2>2. \A m \in Nodes : Len(wire'[m]) <= Len(wire[m]) /\ Len(wire'[m]) \in Nat
    BY <1>1, <2>1
  <2>3. \A c \in Clients : Len(heard'[c]) <= Len(heard[c]) /\ Len(heard'[c]) \in Nat
    BY <1>1, <2>1
  <2>4. ASSUME NEW c \in Clients PROVE Len(heard'[c]) + Len(wire'[Home[c]]) <= Len(heard[c]) + Len(wire[Home[c]])
    <3> DEFINE a == Len(heard'[c])
               b == Len(wire'[Home[c]])
               aa == Len(heard[c])
               bb == Len(wire[Home[c]])
    <3>1. a \in Nat /\ b \in Nat /\ aa \in Nat /\ bb \in Nat /\ a <= aa /\ b <= bb
      BY <1>1, <2>2, <2>3
    <3> HIDE DEF a, b, aa, bb
    <3>2. a + b <= aa + bb
      BY <3>1
    <3> QED BY <3>2 DEF a, b, aa, bb
  <2> QED BY <2>1, <2>2, <2>4
<1>8. CASE \E n \in Nodes : Deliver(n)
  <2>1. PICK n \in Nodes : Deliver(n)
    BY <1>8
  <2>2. /\ UNCHANGED <<version, seq, pub, failures, start>>
        /\ Len(wire'[n]) = Len(wire[n]) - 1 /\ \A m \in Nodes : m # n => wire'[m] = wire[m]
        /\ \A c \in Clients : \/ heard'[c] = heard[c]
                              \/ Home[c] = n /\ Len(heard'[c]) = Len(heard[c]) + 1
    BY <1>5, <2>1
  <2>3. \A m \in Nodes : Len(wire'[m]) <= Len(wire[m])
    BY <1>1, <2>2
  <2>4. ASSUME NEW c \in Clients PROVE Len(heard'[c]) + Len(wire'[Home[c]]) <= Len(heard[c]) + Len(wire[Home[c]])
    <3> DEFINE a == Len(heard'[c])
               b == Len(wire'[Home[c]])
               aa == Len(heard[c])
               bb == Len(wire[Home[c]])
    <3>1. aa \in Nat /\ bb \in Nat
      BY <1>1
    <3>2. /\ Home[c] = n => b = bb - 1 /\ a \in {aa, aa + 1}
          /\ Home[c] # n => b = bb /\ a = aa
      BY <1>1, <2>2
    <3> HIDE DEF a, b, aa, bb
    <3>3. a + b <= aa + bb
      BY <3>1, <3>2
    <3> QED BY <3>3 DEF a, b, aa, bb
  <2> QED BY <2>2, <2>3, <2>4
<1> QED BY <1>2, <1>6, <1>7, <1>8

\* So they keep the bounds.
LEMMA OthersExtents ==
  ASSUME SeqTypes, SeqTypes', ClientTypes, Extents,
         (\E c \in Clients : Endpoint(c)) \/ (\E n \in Nodes : Reading(n)) \/ UNCHANGED vars
  PROVE  Extents'
<1>1. /\ UNCHANGED <<version, seq, pub>> /\ failures' \in {failures, failures + 1}
      /\ \A n \in Nodes : Len(wire'[n]) <= Len(wire[n])
      /\ \A c \in Clients : /\ Len(heard'[c]) + Len(wire'[Home[c]]) <= Len(heard[c]) + Len(wire[Home[c]])
                            /\ start'[c] \in {start[c], seq, 0}
  BY OthersMove
<1>2. /\ \A n \in Nodes : Len(wire[n]) \in Nat /\ Len(wire'[n]) \in Nat
      /\ \A c \in Clients : Len(heard[c]) \in Nat /\ Len(heard'[c]) \in Nat /\ Home[c] \in Nodes
      /\ version \in Nat /\ seq \in Nat /\ failures \in Nat
      /\ \A c \in Clients : start[c] \in Nat
  BY BackplaneAssumption DEF SeqTypes, ClientTypes
<1>3. Busy' = Busy /\ Undrawn' = Undrawn /\ Unsent' = Unsent
  BY <1>1 DEF Busy, Undrawn, Unsent, Drawn
<1>4. IsFiniteSet(Busy) /\ Cardinality(Undrawn) \in Nat /\ Cardinality(Unsent) \in Nat
  BY PublicationSets DEF Extents
<1> DEFINE u == Cardinality(Unsent)
           k == Cardinality(Undrawn)
<1>5. /\ seq + k <= MaxSeq /\ version <= seq + k + failures
      /\ \A p \in Publishers : pub[p] # Idle => pub[p].seq <= seq
      /\ \A n \in Nodes : Len(wire[n]) + u <= seq
      /\ \A c \in Clients : Len(heard[c]) + Len(wire[Home[c]]) + u <= seq /\ start[c] <= seq
      /\ u \in Nat /\ k \in Nat /\ Cardinality(Unsent') = u /\ Cardinality(Undrawn') = k
  BY <1>3, <1>4 DEF Extents
<1> HIDE DEF u, k
<1>6. version' <= seq' + k + failures' /\ seq' + k <= MaxSeq
  BY <1>1, <1>2, <1>5
<1>7. ASSUME NEW n \in Nodes PROVE Len(wire'[n]) + u <= seq'
  <2> DEFINE a == Len(wire'[n])
             b == Len(wire[n])
  <2>1. a \in Nat /\ b \in Nat /\ a <= b /\ b + u <= seq
    BY <1>1, <1>2, <1>5
  <2> HIDE DEF a, b
  <2>2. a + u <= seq'
    BY <1>1, <1>2, <1>5, <2>1
  <2> QED BY <2>2 DEF a
<1>8. ASSUME NEW c \in Clients PROVE Len(heard'[c]) + Len(wire'[Home[c]]) + u <= seq' /\ start'[c] <= seq'
  <2> DEFINE a == Len(heard'[c]) + Len(wire'[Home[c]])
             b == Len(heard[c]) + Len(wire[Home[c]])
  <2>1. a \in Nat /\ b \in Nat
    <3>1. /\ Len(heard'[c]) \in Nat /\ Len(heard[c]) \in Nat
          /\ Len(wire'[Home[c]]) \in Nat /\ Len(wire[Home[c]]) \in Nat
      BY <1>2, Zenon
    <3>2. \A i, j \in Nat : i + j \in Nat
      OBVIOUS
    <3> QED BY <3>1, <3>2
  <2>2. a <= b /\ b + u <= seq
    BY <1>1, <1>5
  <2> HIDE DEF a, b
  <2>3. a + u <= seq'
    BY <1>1, <1>2, <1>5, <2>1, <2>2
  <2>4. start'[c] <= seq'
    <3>1. start'[c] \in {start[c], seq, 0} /\ seq' = seq
      BY <1>1, Zenon
    <3>2. start[c] \in Nat /\ start[c] <= seq /\ seq \in Nat
      BY <1>2, <1>5, Zenon
    <3> QED BY <3>1, <3>2
  <2> QED BY <2>3, <2>4 DEF a
<1> QED BY <1>1, <1>3, <1>4, <1>5, <1>6, <1>7, <1>8 DEF Extents

\* The bounds hold at first, and every step keeps them.
LEMMA ExtentsStep == SeqTypes /\ SeqTypes' /\ ClientTypes /\ Extents /\ [Next]_vars => Extents'
BY PublishingExtents, OthersExtents DEF Next

\* What a process counts, what calls that raised left of it, and how often its pub/sub
\* object was replaced, are bounded even where its calls overlap.
Bounded(n) ==
  /\ count[n] <= Cardinality(Counting(n)) + leaked[n] /\ leaked[n] <= MaxFailures
  /\ object[n] + (IF reader[n] = "broken" THEN 1 ELSE 0) <= failures

ProcessExtents == \A n \in Nodes : Bounded(n)

\* Nothing is lost of what a process counts unless a client's step takes it away.
LEMMA CountingMoves ==
  ASSUME NEW d \in Clients, \A c \in Clients : c # d => (phase'[c] \in Counted <=> phase[c] \in Counted)
  PROVE  /\ \A n \in Nodes : n # Home[d] => Counting(n)' = Counting(n)
         /\ \A n \in Nodes : n = Home[d] =>
              Cardinality(Counting(n)') = Cardinality(Counting(n))
                + (IF phase'[d] \in Counted THEN 1 ELSE 0) - (IF phase[d] \in Counted THEN 1 ELSE 0)
<1>1. ASSUME NEW n \in Nodes, n # Home[d] PROVE Counting(n)' = Counting(n)
  BY <1>1 DEF Counting, Locals
<1>2. ASSUME NEW n \in Nodes, n = Home[d]
      PROVE  Cardinality(Counting(n)') = Cardinality(Counting(n))
               + (IF phase'[d] \in Counted THEN 1 ELSE 0) - (IF phase[d] \in Counted THEN 1 ELSE 0)
  <2>1. IsFiniteSet(Counting(n)) /\ Cardinality(Counting(n)) \in Nat
    BY LocalSets
  <2>2. /\ Counting(n) = {c \in Clients : Home[c] = n /\ phase[c] \in Counted}
        /\ Counting(n)' = {c \in Clients : Home[c] = n /\ phase'[c] \in Counted}
    BY DEF Counting, Locals
  <2>3. CASE (phase'[d] \in Counted) <=> (phase[d] \in Counted)
    <3>1. Counting(n)' = Counting(n)
      BY <2>2, <2>3
    <3> QED BY <2>1, <2>3, <3>1
  <2>4. CASE phase'[d] \in Counted /\ phase[d] \notin Counted
    <3>1. Counting(n)' = Counting(n) \cup {d} /\ d \notin Counting(n)
      BY <1>2, <2>2, <2>4
    <3>2. Cardinality(Counting(n) \cup {d}) = Cardinality(Counting(n)) + 1
      BY <2>1, <3>1, FS_AddElement
    <3> QED BY <2>1, <2>4, <3>1, <3>2
  <2>5. CASE phase'[d] \notin Counted /\ phase[d] \in Counted
    <3>1. Counting(n)' = Counting(n) \ {d} /\ d \in Counting(n)
      BY <1>2, <2>2, <2>5
    <3>2. Cardinality(Counting(n) \ {d}) = Cardinality(Counting(n)) - 1
      BY <2>1, <3>1, FS_RemoveElement
    <3> QED BY <2>1, <2>5, <3>1, <3>2
  <2> QED BY <2>3, <2>4, <2>5
<1> QED BY <1>1, <1>2

\* A process whose part of the state does not change stays within its bounds.
LEMMA StaysBounded ==
  ASSUME NEW n \in Nodes, Bounded(n), CountTypes, failures \in Nat, failures' \in {failures, failures + 1},
         \A c \in Locals(n) : phase'[c] = phase[c],
         count'[n] = count[n], object'[n] = object[n], reader'[n] = reader[n], leaked'[n] = leaked[n]
  PROVE  Bounded(n)'
<1>1. Counting(n)' = Counting(n)
  BY DEF Counting, Locals
<1>2. object[n] \in Nat
  BY DEF CountTypes
<1> QED BY <1>1, <1>2 DEF Bounded

\* What an endpoint counts for itself, it counts once.
LEMMA EndpointBounded ==
  ASSUME CountTypes, CountTypes', ClientTypes, ProcessExtents, NEW d \in Clients, Endpoint(d), NEW n \in Nodes
  PROVE  Bounded(n)'
<1>1. /\ UNCHANGED <<object, reader>> /\ failures' \in {failures, failures + 1}
      /\ failures \in Nat /\ MaxFailures \in Nat
  BY BackplaneAssumption DEF Endpoint, Register, Subscribe, FinishSubscribe, ReadSeq, ReadSnapshot, SendSnapshot, Leave, FinishUnsubscribe, CallRaises, Call, redis, history, ClientTypes
<1>2. /\ \A c \in Clients : c # d => phase'[c] = phase[c]
      /\ \A m \in Nodes : m # Home[d] => count'[m] = count[m] /\ leaked'[m] = leaked[m]
  BY DEF Endpoint, Register, Subscribe, FinishSubscribe, ReadSeq, ReadSnapshot, SendSnapshot, Leave, FinishUnsubscribe, CallRaises, Call, history, CountTypes
<1>3. Bounded(n)
  BY DEF ProcessExtents
<1>4. CASE n # Home[d]
  BY <1>1, <1>2, <1>3, <1>4, StaysBounded DEF Locals
<1>5. CASE n = Home[d]
  <2> DEFINE k == Cardinality(Counting(n))
             kk == Cardinality(Counting(n)')
             left == leaked[n]
  <2>1. kk = k + (IF phase'[d] \in Counted THEN 1 ELSE 0) - (IF phase[d] \in Counted THEN 1 ELSE 0)
    BY <1>2, <1>5, CountingMoves
  <2>2. k \in Nat /\ count[n] <= k + left /\ count[n] \in Nat /\ left \in Nat /\ left <= MaxFailures
    BY <1>3, LocalSets DEF Bounded, CountTypes
  <2>3. kk \in Nat
    <3>1. kk \in Int
      BY <2>1, <2>2
    <3>2. phase[d] \in Counted => k >= 1
      <4>1. phase[d] \in Counted => d \in Counting(n)
        BY <1>5 DEF Counting, Locals
      <4>2. Counting(n) # {} => Cardinality(Counting(n)) # 0
        BY LocalSets, FS_EmptySet
      <4> QED BY <2>2, <4>1, <4>2
    <3> HIDE DEF k, kk
    <3> QED BY <2>1, <2>2, <3>1, <3>2
  <2>4. ~CallRaises(d) => leaked'[n] = left
    BY DEF Endpoint, Register, Subscribe, FinishSubscribe, ReadSeq, ReadSnapshot, SendSnapshot, Leave, FinishUnsubscribe, Call, history
  <2> HIDE DEF k, kk, left
  <2>5. ~CallRaises(d) => count'[n] <= kk + left
    <3>1. CASE Subscribe(d)
      <4>1. phase[d] = "registered"
        BY <3>1 DEF Subscribe
      <4>2. CASE count[n] = 0
        <5>1. count' = count
          BY <1>5, <3>1, <4>2 DEF Subscribe
        <5> QED BY <2>2, <2>3, <4>2, <5>1
      <4>3. CASE count[n] # 0
        <5>1. count'[n] = count[n] + 1 /\ phase'[d] = "subscribed"
          BY <1>5, <3>1, <4>3 DEF Subscribe, Call, CountTypes
        <5>2. kk = k + 1
          BY <2>1, <2>2, <4>1, <5>1 DEF Counted
        <5> QED BY <2>2, <5>1, <5>2
      <4> QED BY <4>2, <4>3
    <3>2. CASE FinishSubscribe(d)
      <4>1. count'[n] = 1 /\ phase[d] = "subscribing" /\ phase'[d] = "subscribed"
        BY <1>5, <3>2 DEF FinishSubscribe, CountTypes
      <4>2. kk = k + 1
        BY <2>1, <2>2, <4>1 DEF Counted
      <4> QED BY <2>2, <4>1, <4>2
    <3>3. CASE Leave(d)
      <4>1. phase[d] = "live"
        BY <3>3 DEF Leave
      <4>2. CASE count[n] <= 1
        <5>1. count' = count /\ phase'[d] = "unsubscribing"
          BY <1>5, <3>3, <4>2 DEF Leave, Call, CountTypes
        <5>2. kk = k
          BY <2>1, <2>2, <4>1, <5>1 DEF Counted
        <5> QED BY <2>2, <5>1, <5>2
      <4>3. CASE ~(count[n] <= 1)
        <5>1. count'[n] = count[n] - 1 /\ phase'[d] = "off"
          BY <1>5, <3>3, <4>3 DEF Leave, Call, CountTypes
        <5>2. kk = k - 1
          BY <2>1, <2>2, <4>1, <5>1 DEF Counted
        <5> QED BY <2>2, <5>1, <5>2
      <4> QED BY <4>2, <4>3
    <3>4. CASE FinishUnsubscribe(d)
      <4>1. count'[n] = 0
        BY <1>5, <3>4 DEF FinishUnsubscribe, CountTypes
      <4> QED BY <2>2, <2>3, <4>1
    <3>5. CASE Register(d) \/ ReadSeq(d) \/ ReadSnapshot(d) \/ SendSnapshot(d)
      <4>1. count' = count /\ (phase'[d] \in Counted <=> phase[d] \in Counted)
        BY <3>5 DEF Register, ReadSeq, ReadSnapshot, SendSnapshot, Counted, CountTypes
      <4>2. kk = k
        BY <2>1, <2>2, <4>1
      <4> QED BY <2>2, <4>1, <4>2
    <3> QED BY <3>1, <3>2, <3>3, <3>4, <3>5 DEF Endpoint
  <2>6. CallRaises(d) => count'[n] <= kk + leaked'[n] /\ leaked'[n] <= MaxFailures
    <3> SUFFICES ASSUME CallRaises(d) PROVE count'[n] <= kk + leaked'[n] /\ leaked'[n] <= MaxFailures
      OBVIOUS
    <3>1. /\ count'[n] = count[n] /\ phase'[d] = "off" /\ left < MaxFailures
          /\ leaked'[n] = IF phase[d] \in Counted THEN left + 1 ELSE left
      BY <1>5 DEF CallRaises, CountTypes, left
    <3>2. kk = IF phase[d] \in Counted THEN k - 1 ELSE k
      BY <2>1, <2>2, <3>1 DEF Counted
    <3> QED BY <1>1, <2>2, <3>1, <3>2
  <2>7. count'[n] <= kk + leaked'[n] /\ leaked'[n] <= MaxFailures
    BY <2>2, <2>4, <2>5, <2>6
  <2>8. object'[n] + (IF reader'[n] = "broken" THEN 1 ELSE 0) <= failures'
    <3>1. object[n] \in Nat /\ object[n] + (IF reader[n] = "broken" THEN 1 ELSE 0) <= failures
      BY <1>3 DEF Bounded, CountTypes
    <3> QED BY <1>1, <3>1
  <2> QED BY <2>7, <2>8 DEF Bounded, kk
<1> QED BY <1>4, <1>5

\* A reader that fails pays for the object that replaces its own.
LEMMA ReadingBounded ==
  ASSUME CountTypes, CountTypes', ClientTypes, ProcessExtents, NEW m \in Nodes, Reading(m), NEW n \in Nodes
  PROVE  Bounded(n)'
<1>1. failures \in Nat /\ failures' \in {failures, failures + 1} /\ MaxFailures \in Nat
  BY BackplaneAssumption DEF Reading, Deliver, ReaderFails, Reconnect, ReconnectFails, Crash, ClientTypes
<1>2. /\ n # m => /\ count'[n] = count[n] /\ object'[n] = object[n] /\ reader'[n] = reader[n]
                  /\ leaked'[n] = leaked[n]
      /\ \A c \in Locals(n) : n # m => phase'[c] = phase[c]
  BY DEF Reading, Deliver, ReaderFails, Reconnect, ReconnectFails, Crash, endpoint, CountTypes, Locals
<1>3. Bounded(n)
  BY DEF ProcessExtents
<1>4. CASE n # m
  BY <1>1, <1>2, <1>3, <1>4, StaysBounded
<1>5. CASE n = m /\ Crash(m)
  <2>1. count'[n] = 0 /\ leaked'[n] = 0 /\ object'[n] = 0 /\ reader'[n] = "reading" /\ failures' \in Nat
    BY <1>1, <1>5 DEF Crash, CountTypes
  <2>2. Counting(n)' = {}
    BY <1>5 DEF Crash, Counting, Locals, Counted
  <2>3. Cardinality(Counting(n)') = 0
    BY <2>2, FS_EmptySet
  <2> QED BY <1>1, <2>1, <2>3 DEF Bounded
<1>6. CASE n = m /\ ~Crash(m)
  <2>1. UNCHANGED <<count, phase, leaked>>
    BY <1>6 DEF Reading, Deliver, ReaderFails, Reconnect, ReconnectFails, endpoint
  <2>2. Counting(n)' = Counting(n)
    BY <2>1 DEF Counting, Locals
  <2>3. object'[n] + (IF reader'[n] = "broken" THEN 1 ELSE 0) <= failures'
    <3>1. object[n] \in Nat /\ object[n] + (IF reader[n] = "broken" THEN 1 ELSE 0) <= failures
      BY <1>3 DEF Bounded, CountTypes
    <3>2. CASE Deliver(n)
      BY <3>1, <3>2 DEF Deliver
    <3>3. CASE ReaderFails(n)
      <4>1. reader[n] = "reading" /\ reader'[n] = "broken" /\ object' = object /\ failures' = failures + 1
        BY <3>3 DEF ReaderFails, CountTypes
      <4> QED BY <1>1, <3>1, <4>1
    <3>4. CASE Reconnect(n) \/ ReconnectFails(n)
      <4>1. reader[n] = "broken" /\ reader'[n] # "broken" /\ object'[n] = object[n] + 1 /\ failures' = failures
        BY <3>4 DEF Reconnect, ReconnectFails, CountTypes
      <4> QED BY <1>1, <3>1, <4>1
    <3> QED BY <1>6, <3>2, <3>3, <3>4 DEF Reading
  <2> QED BY <1>3, <2>1, <2>2, <2>3 DEF Bounded
<1> QED BY <1>4, <1>5, <1>6

\* No step takes a process out of its bounds.
LEMMA ProcessStep == CountTypes /\ CountTypes' /\ ClientTypes /\ ProcessExtents /\ [Next]_vars => ProcessExtents'
<1> SUFFICES ASSUME CountTypes, CountTypes', ClientTypes, ProcessExtents, [Next]_vars, NEW n \in Nodes PROVE Bounded(n)'
  BY DEF ProcessExtents
<1>1. Bounded(n) /\ failures \in Nat
  BY BackplaneAssumption DEF ProcessExtents, ClientTypes
<1>2. CASE UNCHANGED vars
  BY <1>1, <1>2, StaysBounded DEF vars, redis, endpoint, history
<1>3. CASE \E p \in Publishers : Publishing(p)
  <2>1. UNCHANGED <<count, phase, object, reader, leaked>> /\ failures' \in {failures, failures + 1}
    BY <1>3 DEF Publishing, CommitMove, SendChat, Begin, DrawSeq, Publish, PublishFails, redis, endpoint, history
  <2> QED BY <1>1, <2>1, StaysBounded
<1> QED BY <1>2, <1>3, EndpointBounded, ReadingBounded DEF Next

\* Everything is empty at first.
LEMMA InitExtents == Init => Extents /\ ProcessExtents
<1> SUFFICES ASSUME Init PROVE Extents /\ ProcessExtents
  OBVIOUS
<1>1. Busy = {} /\ Undrawn = {} /\ Unsent = {}
  BY DEF Init, Busy, Undrawn, Unsent, Drawn, Idle
<1>2. Cardinality({}) = 0 /\ IsFiniteSet({}) /\ MaxSeq \in Nat
  BY FS_EmptySet, BackplaneAssumption
<1>3. /\ \A n \in Nodes : Len(wire[n]) = 0
      /\ \A c \in Clients : Len(heard[c]) = 0 /\ start[c] = 0 /\ Home[c] \in Nodes
      /\ seq = 0 /\ version = 0 /\ failures = 0 /\ \A p \in Publishers : pub[p] = Idle
  BY BackplaneAssumption DEF Init
<1>4. Cardinality(Undrawn) = 0 /\ Cardinality(Unsent) = 0 /\ IsFiniteSet(Busy)
  BY <1>1, <1>2
<1>5. Extents
  <2>1. seq + 0 <= MaxSeq /\ version <= seq + 0 + failures
    BY <1>2, <1>3
  <2>2. /\ \A n \in Nodes : Len(wire[n]) + 0 <= seq
        /\ \A c \in Clients : Len(heard[c]) + Len(wire[Home[c]]) + 0 <= seq /\ start[c] <= seq
    <3>1. ASSUME NEW c \in Clients PROVE Len(heard[c]) + Len(wire[Home[c]]) + 0 <= seq /\ start[c] <= seq
      <4>1. Len(heard[c]) = 0 /\ Len(wire[Home[c]]) = 0 /\ start[c] = 0 /\ seq = 0
        BY <1>3, Zenon
      <4> QED BY <4>1
    <3>2. \A n \in Nodes : Len(wire[n]) + 0 <= seq
      BY <1>3
    <3> QED BY <3>1, <3>2
  <2>3. \A p \in Publishers : pub[p] # Idle => pub[p].seq <= seq
    BY <1>3, Zenon
  <2> QED BY <1>4, <2>1, <2>2, <2>3, Zenon DEF Extents
<1>6. \A n \in Nodes : Cardinality(Counting(n)) \in Nat
  BY LocalSets
<1>7. ProcessExtents
  BY <1>2, <1>6, BackplaneAssumption DEF Init, ProcessExtents, Bounded
<1> QED BY <1>5, <1>7

Context == ViewContext /\ Extents /\ ProcessExtents

\* The variables have their types, for any number of processes, clients, publishers
\* and messages: even where its calls overlap, a process counts no more connections
\* than it has and calls that raised have left counted, and neither its queue nor a
\* client's holds more than was numbered
\* (Backplane._subscriptions, the counter seq:{session_id}, the channel).
THEOREM BackplaneTypeCorrect == Spec => []TypeOK
<1>1. Context => TypeOK
  <2> SUFFICES ASSUME Context PROVE TypeOK
    OBVIOUS
  <2>1. CountTypes /\ SeqTypes /\ ClientTypes /\ Committed /\ Extents /\ ProcessExtents /\ MaxFailures \in Nat /\ MaxSeq \in Nat
    BY BackplaneAssumption DEF Context, ViewContext, CountInv, SeqInv, ReachInv
  <2>2. /\ Cardinality(Undrawn) \in Nat /\ Cardinality(Busy) \in Nat
        /\ Cardinality(Undrawn) <= Cardinality(Busy)
    BY <2>1, PublicationSets DEF Extents
  <2>3. version \in Nat /\ seq \in 0..MaxSeq /\ version <= seq + Cardinality(Busy) + failures
    BY <2>1, <2>2 DEF SeqTypes, ClientTypes, Extents
  <2>4. pub \in [Publishers -> PubState]
    <3>1. ASSUME NEW p \in Publishers PROVE pub[p] \in PubState
      <4>1. CASE pub[p] = Idle
        BY <4>1 DEF PubState
      <4>2. CASE pub[p] # Idle
        <5>1. pub[p] \in Sending /\ pub[p].version <= version /\ pub[p].seq <= seq
          BY <2>1, <4>2, PubIs DEF Committed, Extents
        <5>2. pub[p].version \in 0..version /\ pub[p].seq \in 0..seq /\ pub[p].at \in {"committed", "drawn"}
          BY <2>3, <5>1 DEF Sending
        <5>3. pub[p] = [at |-> pub[p].at, version |-> pub[p].version, seq |-> pub[p].seq]
          BY <5>1 DEF Sending
        <5> QED BY <5>2, <5>3 DEF PubState
      <4> QED BY <4>1, <4>2
    <3>2. pub = [p \in Publishers |-> pub[p]]
      BY <2>1 DEF SeqTypes
    <3> QED BY <3>1, <3>2
  <2>5. ASSUME NEW n \in Nodes
        PROVE  /\ Len(wire[n]) <= seq /\ leaked[n] \in 0..MaxFailures
               /\ count[n] \in 0..(Cardinality(Counting(n)) + leaked[n]) /\ object[n] \in 0..MaxFailures
    <3>1. Len(wire[n]) <= seq
      <4>1. Cardinality(Unsent) \in Nat /\ Len(wire[n]) \in Nat /\ Len(wire[n]) + Cardinality(Unsent) <= seq
        BY <2>1, PublicationSets DEF Extents, SeqTypes
      <4> QED BY <2>3, <4>1
    <3>2. /\ count[n] \in Nat /\ object[n] \in Nat /\ leaked[n] \in Nat /\ failures \in 0..MaxFailures
          /\ count[n] <= Cardinality(Counting(n)) + leaked[n] /\ Cardinality(Counting(n)) \in Nat
          /\ object[n] <= failures /\ leaked[n] <= MaxFailures
      BY <2>1, LocalSets DEF CountTypes, ClientTypes, ProcessExtents, Bounded
    <3> QED BY <2>1, <3>1, <3>2
  <2>6. ASSUME NEW c \in Clients
        PROVE  /\ start[c] \in 0..seq /\ snapshot[c] \in 0..version /\ shown[c] \in 0..version
               /\ Len(heard[c]) <= seq
    <3>1. /\ Cardinality(Unsent) \in Nat /\ Len(heard[c]) \in Nat /\ Len(wire[Home[c]]) \in Nat
          /\ Len(heard[c]) + Len(wire[Home[c]]) + Cardinality(Unsent) <= seq
      BY <2>1, PublicationSets, BackplaneAssumption DEF Extents, SeqTypes
    <3>2. \A h, w, u, s \in Nat : h + w + u <= s => h <= s
      OBVIOUS
    <3>3. Len(heard[c]) <= seq
      BY <2>1, <3>1, <3>2 DEF SeqTypes
    <3>4. /\ start[c] \in Nat /\ snapshot[c] \in Nat /\ shown[c] \in Nat
          /\ start[c] <= seq /\ snapshot[c] <= version /\ shown[c] <= version
          /\ seq \in Nat /\ version \in Nat
      BY <2>1, Zenon DEF SeqTypes, ClientTypes, Committed, Extents
    <3> QED BY <3>3, <3>4
  <2> QED BY <2>1, <2>3, <2>4, <2>5, <2>6 DEF TypeOK, CountTypes, SeqTypes, ClientTypes
<1>2. ViewContext /\ [Next]_vars => ViewContext'
  BY CountStep, SeqStep, ReachStep, CommittedStep, ViewStep DEF ViewContext, SeqInv, ReachInv
<1>3. Context /\ [Next]_vars => Context'
  <2> SUFFICES ASSUME Context, [Next]_vars PROVE Context'
    OBVIOUS
  <2>1. ViewContext /\ ViewContext'
    BY <1>2 DEF Context
  <2>2. CountTypes /\ CountTypes' /\ SeqTypes /\ SeqTypes' /\ ClientTypes
    BY <2>1 DEF ViewContext, CountInv, SeqInv, ReachInv
  <2> QED BY <2>1, <2>2, ExtentsStep, ProcessStep DEF Context
<1>4. Init => Context
  BY InitCount, InitSeq, InitReach, InitView, InitExtents DEF ViewContext, Context
<1> QED BY <1>1, <1>3, <1>4, PTL DEF Spec
=============================================================================
