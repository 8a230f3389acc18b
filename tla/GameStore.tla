------------------------------ MODULE GameStore ------------------------------
(***************************************************************************)
(* One game document shared by several server processes: the handlers of   *)
(* players' messages (GameService.apply_intent, then the handler's finish  *)
(* path) race with the schedulers of all processes.  A worker reads the    *)
(* document, computes the next state, and writes it back if the version    *)
(* is still the one it read; whoever commits a finished state then closes  *)
(* the session and applies the ratings, in an order that differs between   *)
(* handlers and schedulers.                                                *)
(*                                                                         *)
(* The state of the game is abstracted to the commands folded into it, so  *)
(* that a lost update is visible, and to its status; what a command does   *)
(* is the subject of GameEngine.  Publishing changes nothing kept here.    *)
(* Any worker may die between two steps (an exception, a cancelled task, a *)
(* crash of the process); a player may then send the next message.         *)
(***************************************************************************)
EXTENDS Naturals, Sequences

CONSTANTS
  Instances,    \* server processes; each one runs a scheduler
  Handlers,     \* connections; each one handles a message at a time
  Home,         \* Home[h]: the process the connection h belongs to
  Users,        \* the players of the game
  Ranked,       \* the ranked flag of the session
  MaxVersion,   \* bound on committed commands
  MaxFailures   \* bound on workers that die

Worker == Handlers \cup Instances

ASSUME StoreAssumption ==
  /\ Handlers \cap Instances = {}
  /\ Home \in [Handlers -> Instances]
  /\ Ranked \in BOOLEAN
  /\ MaxVersion \in Nat /\ MaxFailures \in Nat

VARIABLES
  game,      \* the document: version, state (commands and status), rated flag
  session,   \* status of the session
  step,      \* what each worker does next
  stored,    \* the version and state each worker has read
  unpaid,    \* users whose rating a worker has computed and not yet written
  credited,  \* how often the result of this game was written to each user
  failures
vars == <<game, session, step, stored, unpaid, credited, failures>>

GameStatus == {"in_progress", "finished"}
Steps == {"idle", "load", "replace", "close", "claim", "credit"}
State == [moves : Seq(Worker), status : GameStatus]
Document == [version : 0 .. MaxVersion, state : State, rated : BOOLEAN]
Snapshot(doc) == [version |-> doc.version, state |-> doc.state]

TypeOK ==
  /\ game \in Document
  /\ session \in GameStatus
  /\ step \in [Worker -> Steps]
  /\ stored \in [Worker -> [version : Nat, state : State]]
  /\ unpaid \in [Worker -> SUBSET Users]
  /\ credited \in [Users -> Nat]
  /\ failures \in 0 .. MaxFailures

Init ==
  /\ game = [version |-> 0, rated |-> FALSE,
             state |-> [moves |-> << >>, status |-> "in_progress"]]
  /\ session = "in_progress"
  /\ step = [w \in Worker |-> "idle"]
  /\ stored = [w \in Worker |-> Snapshot(game)]
  /\ unpaid = [w \in Worker |-> {}]
  /\ credited = [u \in Users |-> 0]
  /\ failures = 0

Goto(w, next) == step' = [step EXCEPT ![w] = next]

-----------------------------------------------------------------------------
(***************************************************************************)
(* Reading and writing the document                                        *)
(***************************************************************************)

Load(w) ==
  /\ game.version < MaxVersion
  /\ stored' = [stored EXCEPT ![w] = Snapshot(game)]
  /\ Goto(w, "replace")
  /\ UNCHANGED <<game, session, unpaid, credited, failures>>

\* A handler holds its process's lock for the session from reading to writing.
Receive(h) ==
  /\ step[h] = "idle"
  /\ \A other \in Handlers : Home[other] = Home[h] => step[other] # "replace"
  /\ Load(h)

\* A tick lists the games in progress, and reads each one again, later and
\* without the lock; it may be finished by then.
Tick(i) ==
  /\ step[i] = "idle"
  /\ game.state.status = "in_progress"
  /\ Goto(i, "load")
  /\ UNCHANGED <<game, session, stored, unpaid, credited, failures>>

TickOne(i) ==
  /\ step[i] = "load"
  /\ Load(i)

\* No timer is due.
TickNone(i) ==
  /\ step[i] = "load"
  /\ Goto(i, "idle")
  /\ UNCHANGED <<game, session, stored, unpaid, credited, failures>>

\* Mutant: a finished game goes on.
OutcomesReopened(w, state) ==
  [moves : {Append(state.moves, w)}, status : GameStatus]

\* The states a command of w may lead to: a finished game stays finished.
Outcomes(w, state) ==
  [moves : {Append(state.moves, w)},
   status : IF state.status = "finished" THEN {"finished"} ELSE GameStatus]

\* Mutant: the version is not compared.
IsCurrentAlways(base) == TRUE

\* The filter of update_with_version.
IsCurrent(base) == game.version = base.version

\* Mutant: only the scheduler finishes sessions.
AfterCommitLazy(w, status) ==
  IF status = "in_progress" \/ w \in Handlers THEN "idle" ELSE "claim"

\* A handler closes the session before it looks at ratings, a scheduler after.
AfterCommit(w, status) ==
  IF status = "in_progress" THEN "idle"
  ELSE IF w \in Handlers THEN "close" ELSE "claim"

Commit(w) ==
  /\ step[w] = "replace"
  /\ IsCurrent(stored[w])
  /\ \E next \in Outcomes(w, stored[w].state) :
       /\ game' = [game EXCEPT !.version = @ + 1, !.state = next]
       /\ Goto(w, AfterCommit(w, next.status))
  /\ UNCHANGED <<session, stored, unpaid, credited, failures>>

\* GameVersionConflictError for a handler; a scheduler waits for its next tick.
Conflict(w) ==
  /\ step[w] = "replace"
  /\ ~IsCurrent(stored[w])
  /\ Goto(w, "idle")
  /\ UNCHANGED <<game, session, stored, unpaid, credited, failures>>

\* The engine refuses the command; nothing is written.
Refuse(w) ==
  /\ step[w] = "replace"
  /\ Goto(w, "idle")
  /\ UNCHANGED <<game, session, stored, unpaid, credited, failures>>

-----------------------------------------------------------------------------
(***************************************************************************)
(* Finishing: the session is closed once, the ratings are claimed once     *)
(***************************************************************************)

\* Where a worker goes when it has closed the session, or found it closed.
AfterClose(w, closed) ==
  IF closed /\ w \in Handlers /\ Ranked THEN "claim" ELSE "idle"

\* mark_finished: only a session in progress is set to finished.
MarkFinished(w) ==
  /\ step[w] = "close"
  /\ session' = "finished"
  /\ Goto(w, AfterClose(w, session = "in_progress"))
  /\ UNCHANGED <<game, stored, unpaid, credited, failures>>

\* Where a worker goes when the ratings are no longer its business.
AfterRating(w) == IF w \in Handlers THEN "idle" ELSE "close"

\* Mutant: the claim does not look at the flag.
MayClaimAgain(doc) == TRUE

\* The filter of claim_for_rating.
MayClaim(doc) == ~doc.rated

ClaimForRating(w) ==
  /\ step[w] = "claim"
  /\ MayClaim(game)
  /\ game' = [game EXCEPT !.rated = TRUE]
  /\ unpaid' = [unpaid EXCEPT ![w] = Users]
  /\ Goto(w, "credit")
  /\ UNCHANGED <<session, stored, credited, failures>>

ClaimRefused(w) ==
  /\ step[w] = "claim"
  /\ ~MayClaim(game)
  /\ Goto(w, AfterRating(w))
  /\ UNCHANGED <<game, session, stored, unpaid, credited, failures>>

\* One user's rating is written; the others follow one at a time.
UpdateRating(w) ==
  /\ step[w] = "credit"
  /\ \E u \in unpaid[w] :
       /\ credited' = [credited EXCEPT ![u] = @ + 1]
       /\ unpaid' = [unpaid EXCEPT ![w] = @ \ {u}]
       /\ Goto(w, IF unpaid[w] = {u} THEN AfterRating(w) ELSE "credit")
  /\ UNCHANGED <<game, session, stored, failures>>

-----------------------------------------------------------------------------
\* The worker dies where it stands; what it had in memory is gone.
Fail(w) ==
  /\ step[w] # "idle"
  /\ failures < MaxFailures
  /\ failures' = failures + 1
  /\ unpaid' = [unpaid EXCEPT ![w] = {}]
  /\ Goto(w, "idle")
  /\ UNCHANGED <<game, session, stored, credited>>

\* What a worker that has begun goes on to do by itself.
Proceed(w) ==
  \/ TickOne(w) \/ TickNone(w)
  \/ Commit(w) \/ Conflict(w) \/ Refuse(w)
  \/ MarkFinished(w)
  \/ ClaimForRating(w) \/ ClaimRefused(w) \/ UpdateRating(w)

Next ==
  \/ \E h \in Handlers : Receive(h)
  \/ \E i \in Instances : Tick(i)
  \/ \E w \in Worker : Proceed(w) \/ Fail(w)

Spec == Init /\ [][Next]_vars

\* A task that has begun runs on until it ends or dies.
FairSpec == Spec /\ \A w \in Worker : WF_vars(Proceed(w))

-----------------------------------------------------------------------------
(***************************************************************************)
(* Properties                                                              *)
(***************************************************************************)

\* No update is lost: whatever handlers and schedulers read and however they are
\* delayed, a write extends the state that is there by one command.
NoLostUpdate ==
  [][game'.state = game.state
     \/ \E w \in Worker : game'.state.moves = Append(game.state.moves, w)]_game

\* A closed session and a rated game stand for a game that is over, and never
\* for one that a late write has put back in play.
ClosedMeansOver ==
  session = "finished" \/ game.rated => game.state.status = "finished"

\* repository.py:119: ratings are applied "exactly once even if both finish paths
\* fire": never twice, however commits, finish paths and failures interleave.
RatedAtMostOnce == \A u \in Users : credited[u] <= 1

\* A finished game closes its session, and when it is ranked reaches every
\* player's rating, whichever path gets there first; only a worker that dies on
\* the way, which nothing retries, can prevent it.
FinishCompletes ==
  game.state.status = "finished" ~>
    \/ failures > 0
    \/ session = "finished" /\ (Ranked => \A u \in Users : credited[u] = 1)

\* The match that all the workers together play.
Played == INSTANCE Match
            WITH Authors <- Worker, Players <- Users, moves <- game.state.moves,
                 over <- game.state.status = "finished", closed <- session = "finished",
                 claimed <- game.rated, applied <- credited

\* Every history of the document, the session and the ratings is one of a match
\* that a single writer might have led: reading and writing apart, two finish
\* paths in opposite orders and workers that die in between do not show.
PlaysMatch == Played!Spec

\* handlers/game.py:125: "apply ratings if ranked".
UnrankedNotRated == ~Ranked => \A u \in Users : credited[u] = 0
=============================================================================
