-------------------------- MODULE GameStore_proofs --------------------------
(***************************************************************************)
(* For any number of processes, connections and players: no update of the  *)
(* shared document is lost, what is closed or rated is over, and nobody's  *)
(* rating is applied twice; together the workers play one match.           *)
(***************************************************************************)
EXTENDS GameStore, TLAPS

Finishing == {"close", "claim", "credit"}

\* What a worker has read is older than the document or equal to it, and what is
\* written from it stays within the bound on versions.
Fresh ==
  \A w \in Worker :
    /\ stored[w].version <= game.version
    /\ stored[w].version = game.version => stored[w].state = game.state
    /\ step[w] = "replace" => stored[w].version < MaxVersion

\* Whoever is on the finish path is there because the game is over.
Over ==
  /\ ClosedMeansOver
  /\ \A w \in Worker : step[w] \in Finishing => game.state.status = "finished"

\* Before the claim nobody is credited or about to be; after it each user is
\* credited already, or about to be by one worker at most.
Accounts ==
  /\ ~game.rated => /\ \A u \in Users : credited[u] = 0
                    /\ \A w \in Worker : unpaid[w] = {}
  /\ \A u \in Users, w \in Worker : u \in unpaid[w] =>
       /\ credited[u] = 0
       /\ \A v \in Worker : u \in unpaid[v] => v = w

\* The inductive invariant.
StoreInv == TypeOK /\ Fresh /\ Over /\ Accounts /\ RatedAtMostOnce

\* A new document satisfies the invariant.
LEMMA InitStore == Init => StoreInv
<1> SUFFICES ASSUME Init PROVE StoreInv
  OBVIOUS
<1> USE StoreAssumption DEF Init
<1>1. << >> \in Seq(Worker)
  OBVIOUS
<1>2. TypeOK
  BY <1>1 DEF TypeOK, Document, State, Snapshot, GameStatus, Steps
<1>3. Fresh
  BY DEF Fresh, Snapshot
<1>4. Over
  BY DEF Over, ClosedMeansOver, Finishing
<1>5. Accounts /\ RatedAtMostOnce
  BY DEF Accounts, RatedAtMostOnce
<1> QED BY <1>2, <1>3, <1>4, <1>5 DEF StoreInv

\* Reading the document preserves the invariant.
LEMMA LoadKeeps ==
  ASSUME StoreInv, NEW w \in Worker, step[w] \notin Finishing, Load(w)
  PROVE  StoreInv'
<1> USE StoreAssumption DEF StoreInv, Load, Goto, Snapshot
<1>1. TypeOK'
  BY DEF TypeOK, Document, State, Steps
<1>2. Fresh'
  BY DEF Fresh, TypeOK, Document
<1>3. Over'
  BY DEF Over, ClosedMeansOver, Finishing, TypeOK
<1>4. Accounts' /\ RatedAtMostOnce'
  BY DEF Accounts, RatedAtMostOnce
<1> QED BY <1>1, <1>2, <1>3, <1>4

\* So does writing it: the version that is compared has not been written since.
LEMMA CommitKeeps ==
  ASSUME StoreInv, NEW w \in Worker, Commit(w)
  PROVE  /\ StoreInv'
         /\ game'.state.moves = Append(game.state.moves, w)
<1> USE StoreAssumption DEF StoreInv
<1>1. PICK next \in Outcomes(w, stored[w].state) :
        /\ game' = [game EXCEPT !.version = @ + 1, !.state = next]
        /\ Goto(w, AfterCommit(w, next.status))
  BY DEF Commit
<1>2. /\ stored[w].version = game.version
      /\ stored[w].version < MaxVersion
      /\ stored[w].state = game.state
      /\ game.state \in State
      /\ game.version \in 0 .. MaxVersion
      /\ game.rated \in BOOLEAN
  BY DEF Commit, IsCurrent, Fresh, TypeOK, Document
<1>3. /\ next.moves = Append(game.state.moves, w)
      /\ next.status \in GameStatus
      /\ game.state.status = "finished" => next.status = "finished"
      /\ next \in State
  <2>1. Append(game.state.moves, w) \in Seq(Worker)
    BY <1>2 DEF State
  <2> QED BY <1>2, <2>1 DEF Outcomes, State, GameStatus
<1>4. /\ game'.version = game.version + 1
      /\ game'.state = next
      /\ game'.rated = game.rated
      /\ game' \in Document
  <2>1. game \in [version : 0 .. MaxVersion, state : State, rated : BOOLEAN]
    BY DEF TypeOK, Document
  <2>2. game.version + 1 \in 0 .. MaxVersion
    BY <1>2
  <2>3. game' = [game EXCEPT !.version = game.version + 1, !.state = next]
    BY <1>1
  <2> QED BY <1>3, <2>1, <2>2, <2>3 DEF Document
<1>5. /\ step' = [step EXCEPT ![w] = AfterCommit(w, next.status)]
      /\ AfterCommit(w, next.status) \in {"idle", "close", "claim"}
      /\ AfterCommit(w, next.status) # "idle" => next.status = "finished"
  BY <1>1, <1>3 DEF Goto, AfterCommit, GameStatus
<1>6. UNCHANGED <<session, stored, unpaid, credited, failures>>
  BY DEF Commit
<1>7. TypeOK'
  BY <1>4, <1>5, <1>6 DEF TypeOK, Steps
<1>8. Fresh'
  BY <1>2, <1>4, <1>5, <1>6 DEF Fresh, TypeOK, Document
<1>9. Over'
  BY <1>3, <1>4, <1>5, <1>6 DEF Over, ClosedMeansOver, Finishing, TypeOK
<1>10. Accounts' /\ RatedAtMostOnce'
  BY <1>4, <1>6 DEF Accounts, RatedAtMostOnce
<1> QED BY <1>3, <1>4, <1>7, <1>8, <1>9, <1>10

\* Claiming the ratings preserves it: nobody else holds them.
LEMMA ClaimKeeps ==
  ASSUME StoreInv, NEW w \in Worker, ClaimForRating(w)
  PROVE  StoreInv'
<1> USE StoreAssumption DEF StoreInv, ClaimForRating, Goto, MayClaim
<1>1. TypeOK'
  BY DEF TypeOK, Document, Steps
<1>2. Fresh'
  BY DEF Fresh, TypeOK, Document
<1>3. Over'
  BY DEF Over, ClosedMeansOver, Finishing, TypeOK, Document
<1>4. Accounts'
  BY DEF Accounts, TypeOK, Document
<1>5. RatedAtMostOnce'
  BY DEF RatedAtMostOnce
<1> QED BY <1>1, <1>2, <1>3, <1>4, <1>5

\* Writing one rating preserves it: the user is taken off the only list it was on.
LEMMA CreditKeeps ==
  ASSUME StoreInv, NEW w \in Worker, UpdateRating(w)
  PROVE  StoreInv'
<1> USE StoreAssumption DEF StoreInv
<1>1. PICK u \in unpaid[w] :
        /\ credited' = [credited EXCEPT ![u] = @ + 1]
        /\ unpaid' = [unpaid EXCEPT ![w] = @ \ {u}]
        /\ Goto(w, IF unpaid[w] = {u} THEN AfterRating(w) ELSE "credit")
  BY DEF UpdateRating
<1>2. /\ step[w] = "credit"
      /\ UNCHANGED <<game, session, stored, failures>>
  BY DEF UpdateRating
<1>3. PICK next \in {"idle", "close", "credit"} : step' = [step EXCEPT ![w] = next]
  BY <1>1 DEF Goto, AfterRating
<1>4. u \in Users /\ credited[u] = 0 /\ game.rated
  BY <1>1 DEF TypeOK, Accounts, Document
<1>5. TypeOK'
  BY <1>1, <1>2, <1>3, <1>4 DEF TypeOK, Steps
<1>6. Fresh'
  BY <1>2, <1>3 DEF Fresh, TypeOK
<1>7. Over'
  BY <1>2, <1>3 DEF Over, ClosedMeansOver, Finishing, TypeOK
<1>8. Accounts'
  BY <1>1, <1>2, <1>4 DEF Accounts, TypeOK
<1>9. RatedAtMostOnce'
  BY <1>1, <1>4 DEF RatedAtMostOnce, TypeOK
<1> QED BY <1>5, <1>6, <1>7, <1>8, <1>9

\* A step that leaves the document and the credits alone preserves it, if it only
\* moves a worker, forgets what was to be credited, or closes a finished game.
LEMMA MoveKeeps ==
  ASSUME StoreInv, NEW w \in Worker, NEW next \in Steps, Goto(w, next),
         next # "replace",
         next \in Finishing => game.state.status = "finished",
         UNCHANGED <<game, stored, credited>>,
         unpaid' = unpaid \/ unpaid' = [unpaid EXCEPT ![w] = {}],
         failures' \in 0 .. MaxFailures,
         session' \in GameStatus,
         session' = session \/ game.state.status = "finished"
  PROVE  StoreInv'
<1> USE StoreAssumption DEF StoreInv, Goto
<1>1. TypeOK'
  BY DEF TypeOK
<1>2. Fresh'
  BY DEF Fresh, TypeOK
<1>3. Over'
  BY DEF Over, ClosedMeansOver, Finishing, TypeOK
<1>4. Accounts'
  BY DEF Accounts, TypeOK
<1>5. RatedAtMostOnce'
  BY DEF RatedAtMostOnce
<1> QED BY <1>1, <1>2, <1>3, <1>4, <1>5

\* Every step preserves the invariant, and writes the document without losing
\* what is there.
LEMMA NextStore ==
  ASSUME StoreInv, Next
  PROVE  /\ StoreInv'
         /\ \/ game'.state = game.state
            \/ \E w \in Worker : game'.state.moves = Append(game.state.moves, w)
<1> USE StoreAssumption DEF Worker
<1>1. CASE \E h \in Handlers : Receive(h)
  BY <1>1, LoadKeeps DEF Receive, Finishing, Load
<1>2. CASE \E i \in Instances : Tick(i)
  <2> PICK i \in Instances : Tick(i)
    BY <1>2
  <2>1. StoreInv'
    BY MoveKeeps DEF Tick, Steps, Finishing, StoreInv, TypeOK
  <2> QED BY <2>1 DEF Tick
<1>3. ASSUME NEW w \in Worker, Proceed(w)
      PROVE  /\ StoreInv'
             /\ \/ game'.state = game.state
                \/ game'.state.moves = Append(game.state.moves, w)
  <2>1. CASE TickOne(w)
    BY <2>1, LoadKeeps DEF TickOne, Finishing, Load
  <2>2. CASE Commit(w)
    BY <2>2, CommitKeeps
  <2>3. CASE TickNone(w) \/ Conflict(w) \/ Refuse(w)
    <3>1. Goto(w, "idle") /\ UNCHANGED <<game, session, stored, unpaid, credited, failures>>
      BY <2>3 DEF TickNone, Conflict, Refuse
    <3>2. StoreInv'
      BY <3>1, MoveKeeps DEF Steps, Finishing, StoreInv, TypeOK
    <3> QED BY <3>1, <3>2
  <2>4. CASE MarkFinished(w)
    <3>1. game.state.status = "finished"
      BY <2>4 DEF MarkFinished, StoreInv, Over, Finishing
    <3>2. AfterClose(w, session = "in_progress") \in {"claim", "idle"}
      BY DEF AfterClose
    <3>3. StoreInv'
      BY <2>4, <3>1, <3>2, MoveKeeps
      DEF MarkFinished, Steps, Finishing, GameStatus, StoreInv, TypeOK
    <3> QED BY <2>4, <3>3 DEF MarkFinished
  <2>5. CASE ClaimForRating(w)
    <3>1. game'.state = game.state
      BY <2>5 DEF ClaimForRating, StoreInv, TypeOK, Document
    <3> QED BY <2>5, <3>1, ClaimKeeps
  <2>6. CASE ClaimRefused(w)
    <3>1. game.state.status = "finished"
      BY <2>6 DEF ClaimRefused, StoreInv, Over, Finishing
    <3>2. AfterRating(w) \in {"close", "idle"}
      BY DEF AfterRating
    <3>3. StoreInv'
      BY <2>6, <3>1, <3>2, MoveKeeps DEF ClaimRefused, Steps, Finishing, StoreInv, TypeOK
    <3> QED BY <2>6, <3>3 DEF ClaimRefused
  <2>7. CASE UpdateRating(w)
    BY <2>7, CreditKeeps DEF UpdateRating
  <2> QED BY <1>3, <2>1, <2>2, <2>3, <2>4, <2>5, <2>6, <2>7 DEF Proceed
<1>4. ASSUME NEW w \in Worker, Fail(w)
      PROVE  StoreInv' /\ game'.state = game.state
  <2>1. failures + 1 \in 0 .. MaxFailures
    BY <1>4 DEF Fail, StoreInv, TypeOK
  <2>2. StoreInv'
    BY <1>4, <2>1, MoveKeeps DEF Fail, Steps, Finishing, StoreInv, TypeOK
  <2> QED BY <1>4, <2>2 DEF Fail
<1> QED BY <1>1, <1>2, <1>3, <1>4 DEF Next

\* A step that changes nothing preserves it.
LEMMA StutterStore ==
  ASSUME StoreInv, UNCHANGED vars
  PROVE  StoreInv'
BY DEF vars, StoreInv, TypeOK, Fresh, Over, ClosedMeansOver, Accounts, RatedAtMostOnce

\* The invariant holds in every reachable state of the store.
THEOREM StoreSafe == Spec => []StoreInv
<1>1. StoreInv /\ [Next]_vars => StoreInv'
  BY NextStore, StutterStore
<1> QED BY <1>1, InitStore, PTL DEF Spec

\* The store's variables keep their types, versions their bound.
THEOREM StoreTypeCorrect == Spec => []TypeOK
<1>1. StoreInv => TypeOK
  BY DEF StoreInv
<1> QED BY <1>1, StoreSafe, PTL

\* A closed session or a rated game is over for good.
THEOREM ClosedIsOver == Spec => []ClosedMeansOver
<1>1. StoreInv => ClosedMeansOver
  BY DEF StoreInv, Over
<1> QED BY <1>1, StoreSafe, PTL

\* No player's rating is changed twice by one game.
THEOREM NobodyRatedTwice == Spec => []RatedAtMostOnce
<1>1. StoreInv => RatedAtMostOnce
  BY DEF StoreInv
<1> QED BY <1>1, StoreSafe, PTL

\* The optimistic lock loses no update, with or without the lock of a process.
THEOREM UpdatesAreKept == Spec => NoLostUpdate
<1>1. StoreInv /\ [Next]_vars =>
        [\/ game'.state = game.state
         \/ \E w \in Worker : game'.state.moves = Append(game.state.moves, w)]_game
  BY NextStore DEF vars
<1> QED BY <1>1, StoreSafe, PTL DEF Spec, NoLostUpdate

-----------------------------------------------------------------------------
(* The match.                                                              *)

\* Everything a match keeps, and nothing but what a worker remembers, is kept.
LEMMA MatchStays ==
  ASSUME UNCHANGED <<game, session, credited>>
  PROVE  UNCHANGED Played!vars
BY DEF Played!vars

\* A new document is a new match.
LEMMA InitPlayed == Init => Played!Init
BY DEF Init, Played!Init

\* The only step of a worker that shows in the document's state is a commit, which is
\* a command of the match.
LEMMA CommitPlays ==
  ASSUME StoreInv, NEW w \in Worker, Commit(w)
  PROVE  Played!Command(w)
<1>1. PICK next \in Outcomes(w, stored[w].state) :
        game' = [game EXCEPT !.version = @ + 1, !.state = next]
  BY DEF Commit
<1>2. stored[w].state = game.state /\ game \in Document
  BY DEF StoreInv, Fresh, TypeOK, Commit, IsCurrent
<1>3. game'.state = next /\ game'.rated = game.rated
  BY <1>1, <1>2 DEF Document
<1>4. /\ next.moves = Append(game.state.moves, w)
      /\ game.state.status = "finished" => next.status = "finished"
  BY <1>2 DEF Outcomes
<1>5. game'.state.moves = Append(game.state.moves, w)
  BY <1>3, <1>4
<1>6. (game'.state.status = "finished") \in {game.state.status = "finished", TRUE}
  <2>1. game.state.status = "finished" => game'.state.status = "finished"
    BY <1>3, <1>4
  <2>2. (game'.state.status = "finished") \in BOOLEAN /\ (game.state.status = "finished") \in BOOLEAN
    OBVIOUS
  <2> QED BY <2>1, <2>2, Zenon
<1>7. UNCHANGED <<session, credited>>
  BY DEF Commit
<1> QED BY <1>3, <1>5, <1>6, <1>7 DEF Played!Command

\* Every step of the store is a step of the match, or none.
LEMMA StepPlays == StoreInv /\ [Next]_vars => [Played!Next]_Played!vars
<1> SUFFICES ASSUME StoreInv, [Next]_vars PROVE [Played!Next]_Played!vars
  OBVIOUS
<1>1. CASE UNCHANGED vars
  BY <1>1, MatchStays DEF vars
<1>2. CASE \E w \in Worker : Load(w) \/ Conflict(w) \/ Refuse(w) \/ ClaimRefused(w) \/ Fail(w) \/ TickNone(w)
  BY <1>2, MatchStays DEF Load, Conflict, Refuse, ClaimRefused, Fail, TickNone
<1>3. CASE \E i \in Instances : Tick(i)
  BY <1>3, MatchStays DEF Tick
<1>4. ASSUME NEW w \in Worker, Commit(w) PROVE Played!Next
  BY <1>4, CommitPlays DEF Played!Next
<1>5. ASSUME NEW w \in Worker, MarkFinished(w) PROVE [Played!Next]_Played!vars
  <2>1. /\ session' = "finished" /\ UNCHANGED <<game, credited>> /\ step[w] = "close"
    BY <1>5 DEF MarkFinished
  <2>2. game.state.status = "finished"
    BY <2>1 DEF StoreInv, Over, Finishing
  <2>3. CASE session = "finished"
    BY <2>1, <2>3, MatchStays
  <2>4. CASE session # "finished"
    <3>1. (session' = "finished") = TRUE
      BY <2>1
    <3>2. Played!Close
      BY <2>1, <2>2, <2>4, <3>1 DEF Played!Close
    <3> QED BY <3>2 DEF Played!Next
  <2> QED BY <2>3, <2>4
<1>6. ASSUME NEW w \in Worker, ClaimForRating(w) PROVE Played!Next
  <2>1. /\ game' = [game EXCEPT !.rated = TRUE] /\ ~game.rated /\ step[w] = "claim"
        /\ UNCHANGED <<session, credited>> /\ game \in Document
    BY <1>6 DEF ClaimForRating, MayClaim, StoreInv, TypeOK
  <2>2. game'.rated = TRUE /\ game'.state = game.state
    BY <2>1 DEF Document
  <2>3. game.state.status = "finished"
    BY <2>1 DEF StoreInv, Over, Finishing
  <2>4. Played!Claim
    BY <2>1, <2>2, <2>3 DEF Played!Claim
  <2> QED BY <2>4 DEF Played!Next
<1>7. ASSUME NEW w \in Worker, UpdateRating(w) PROVE Played!Next
  <2>1. PICK u \in unpaid[w] : credited' = [credited EXCEPT ![u] = credited[u] + 1]
    BY <1>7 DEF UpdateRating
  <2>2. u \in Users /\ credited[u] = 0 /\ game.rated
    BY <2>1 DEF StoreInv, TypeOK, Accounts, Document
  <2>3. credited' = [credited EXCEPT ![u] = 1]
    <3>1. credited[u] + 1 = 1
      BY <2>2
    <3> QED BY <2>1, <3>1, Zenon
  <2>4. UNCHANGED <<game, session>>
    BY <1>7 DEF UpdateRating
  <2>5. Played!Apply(u)
    BY <2>2, <2>3, <2>4 DEF Played!Apply
  <2> QED BY <2>2, <2>5 DEF Played!Next
<1>8. CASE \E w \in Worker : Proceed(w)
  BY <1>2, <1>4, <1>5, <1>6, <1>7, <1>8 DEF Proceed, TickOne
<1>9. CASE \E h \in Handlers : Receive(h)
  BY <1>2, <1>9 DEF Receive, Worker
<1> QED BY <1>1, <1>2, <1>3, <1>8, <1>9 DEF Next

\* The store implements the match: for any number of processes and connections, what
\* is read and written apart, by either finish path, failures included, looks like
\* the work of one writer.
THEOREM StorePlaysMatch == Spec => PlaysMatch
<1> QED BY InitPlayed, StepPlays, StoreSafe, PTL DEF Spec, PlaysMatch, Played!Spec
=============================================================================
