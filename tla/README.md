# Formal models of the Monopoly backend

TLA+ models, model-checking configurations and proofs for the server in this
repository: a FastAPI/WebSocket backend whose core is a pure rules engine, applied
to game documents in MongoDB by players' messages and by a timer loop. Paths below
are relative to the repository's `src/` directory.

## 1. The system

| part | state | operations | meets the others through |
|---|---|---|---|
| **Game engine** `domain/game/engine.py`, `rules/*.py` | the game document `GameState` (`schemas/state.py`) | 15 player intents, 3 system commands; a pure function of document, command, dice and clock | called by game service and scheduler |
| **Game service** `application/services/game_service.py`, `infra/mongo/games` | one versioned document per session (`version`, `state`, `rng_state`, `rated`) | `start_game`, `apply_intent`, `update_with_version`, `claim_for_rating` | compare-and-set on `version`; a lock per process and session |
| **Scheduler** `application/services/game_scheduler.py` | none of its own | once a second: end expired auctions, trades and turns; finish games | the same documents, without the lock |
| **Intent handler** `gateway/handlers/game.py` | none | apply, publish, finish | service, backplane, sessions, ratings |
| **Ratings** `application/services/rating_service.py`, `domain/rating/elo.py` | rating of each user | claim once, then write every player's rating | called by both finish paths |
| **Sessions** `application/services/session_service.py`, `infra/mongo/sessions`, `api/sessions/router.py` | the room: status, host, members | create, join, leave, kick, start, finish | members become the players of the game |
| **WebSocket gateway** `gateway/router.py`, `connection.py`, `backpressure.py`, `manager.py` | connections, outbound queues, pending removals | connect, receive, send, heartbeat, close; remove absent members of waiting rooms | sessions, backplane |
| **Redis backplane** `gateway/backplane.py` | subscriptions, sequence number of each session | subscribe, publish, deliver to local connections | Redis channels between processes |
| **Authentication** `application/services/user_service.py`, `infra/mongo/refresh_tokens` | users, single-use refresh tokens | register, log in, refresh, log out | REST and WebSocket authorisation |
| Boards, cards, animation, REST schemas, wiring | tables, presentation | - | - |

What is hard here, and what makes each part correct:

- *The engine* is sequential, but its states are many-sided: phase, pending purchase,
  auction, trade, debt, jail, strikes. Fifteen intents and three timers meet in orders
  no test lists. Correct means: the turn always rests on someone who can move the game
  on, nothing (money, houses, cards, squares) appears or vanishes, the game ends exactly
  when one player is left, and a table of silent players comes to an end.
- *The store* has concurrent writers: handlers in several processes and a scheduler in
  each. Correct means: no update lost, no finished game reopened, each game's ratings
  applied once although two finish paths run in opposite orders and either may die.
- *The lobby* is read-check-then-update code over a document several users change.
  Correct means: never too many members, one start, the status never going back, always
  a host who is there.
- *The backplane* counts subscribers across awaited calls, numbers messages before it sends
  them, and publishes after the commit, outside every lock. Correct means: whoever is connected is
  handed every later message, and ends on the committed state.
- *The gateway* tears a connection down while the next one is being set up, with bounded queues,
  silent clients, and a timer that removes absent members. Correct means: every connection ends, nobody is
  removed who came back, and nobody who stays away keeps a seat.

`PROJECT.json` lists each hazard at its line with the properties that watch it.

## 2. Modules

| module | what it models | how it corresponds to the code |
|---|---|---|
| `GameState` | constants of a board and its decks, the document, `new_game` | a record with the fields of `GameState`, `PlayerState`, `TurnState` that some rule branches on |
| `GameRules` | payments, debts, turn passing, bankruptcy, surrender, win check | `rules/payments.py`, `bankruptcy.py`, `surrender.py` as operators from document to document |
| `Landing` | moving, landing, drawing and applying cards, the end of a move | `rules/movement.py`, `cards.py`, `engine._execute_move`, as operators from document to set of documents (dice, cards and rents are choices) |
| `Dealings` | auctions and trades | `rules/auction.py`, `trade.py` |
| `Estate` | houses, hotels, mortgages | `rules/building.py` |
| `GameEngine` | `engine.apply`: one action per intent or system command, on the variable `game` | guards are the handler's checks, in any order, since a rejected command changes nothing |
| `Elimination` | the abstract specification of a whole game: survivors, turn, winner | what every command does to those three |
| `ActionBar` | the flags a client gates its buttons on | `rules/actions.py`: by phase, and from the player's own list of squares, apart from the engine's checks |
| `GameProperties` | properties of the engine and of the flags, refinement mapping to `Elimination`, fairness | - |
| `Match` | the abstract specification of one stored game: its commands one after the other, its end, and once each its closing, its claim and every player's rating | what readers of the document, the session and the ratings may rely on, as if one writer led the game |
| `GameStore` | one document, many processes: load, versioned write, finish paths, claim, rating writes, dying workers | a step per database operation of `apply_intent`, `_tick`/`_tick_one`, both `_finish_session`, `apply_for_finished_game` |
| `SessionLobby` | one room: requests as tasks of several atomic database steps | a step per database operation of `SessionService`, plus the grace removal of `gateway/router.py` |
| `Backplane` | the messages of one session: commit, number, publish; subscribe, welcome, snapshot; the reader task | a step per awaited call of `gateway/backplane.py` and of the set-up in `gateway/router.py`; calls that raise, failures of the reader, crashes |
| `Presence` | connections to a room and the grace removal of absent members | the endpoint and `_schedule_removal` .. `_remove_if_still_gone` of `gateway/router.py`, the loops of `connection.py`, the queue of `backpressure.py` |
| `MCGame`, `MCStore`, `MCLobby`, `MCBackplane`, `MCPresence` | small instances for TLC | - |
| `GameRules_proofs`, `Landing_proofs`, `GameEngine_proofs`, `GameOrder_proofs`, `GameStore_proofs`, `SessionLobby_proofs`, `Presence_proofs`, `Backplane_proofs` | theorems and proofs | - |

A command of the engine is one atomic step, because the code computes it in memory and
stores the result with one write; `GameStore` is the module that takes that write apart.
There a game's state is only the sequence of commands folded into it and its status, which
is what is needed to see a lost update; that a finished game stays finished, which its
`Outcomes` assumes, is what `EnginePlaysElimination` proves of the engine. `PlaysMatch` maps its variables to those of `Match`: the commands are the history of the document, a claim is its `rated` flag. `SessionLobby` ends where a game is
inserted and when `mark_finished` (a step of `GameStore`) flips the room. `Backplane` and `Presence` look at one endpoint
from two sides: what its client is sent, where connections come and go cleanly; and how it ends, where messages have no content.
A leave that a grace removal makes is one step in `Presence`, and several, against other requests, in `SessionLobby`.
`Backplane` takes up the committed versions that `GameStore` produces.

### Abstractions

- *Time.* Deadlines are not modelled: a system command may come at any moment at which
  the code would accept it. This only adds behaviours. `TurnTimeout` is held back while an auction
  is open, as in `_tick_one`, which looks at auctions first; an auction's deadline never outlasts the turn's.
- *Chance.* Dice, card draws and the shuffle are choices. Of a deck only its effects and its
  number of get-out-of-jail cards are kept, so any card may come next.
- *Amounts.* The rent of a landing is any member of `Rents`; prices, fees, taxes and
  repair costs are constants. `advance_to_nearest` is an `advance` to the square it finds,
  with the rent of any landing.
- *Presentation.* Names, tokens, net worth, log, timeline, the active card and round
  numbers are left out: no rule reads them. `actions_available` is not part of the document but a function of it (`ActionBar`).
- *Lobby and store.* Invite codes, visibility, names and rating snapshots in the room are left out,
  and so is publishing to clients, which changes nothing kept there (`Backplane` has it). A user is any member of `Users`; a task that dies stands for an
  exception, a cancelled task or a crash.
- *Redis* hands the messages of a channel to its subscribers in one order, and a SUBSCRIBE counts from the moment its call
  returns. A call that raises has had no effect on Redis. These are assumptions about Redis and its client, not translated from this repository.
- *Messages.* In `Backplane` a message is a number and the version of the game it shows; what a viewer may see of it is left out.
  A client leaves only once it has its snapshot; `Presence` lets it go at any moment. There a message is a frame without content.
- *The room in `Presence`* is one user's membership and the status: that other members exist, or that the room was deleted, is
  left open, which only adds behaviours.

## 3. Runs that pass

TLC checks deadlock nowhere: a finished game, a deleted room and the bounds may
stop each of these systems.

| run | instance | properties | states |
|---|---|---|---|
| `Moves` | 2 players, 7 squares with both decks, jail, goto_jail, tax, a property; 2 doubles to jail, 2 jail turns, 2 strikes | `TypeOK`, `JailedNotStuck`, `StrikesOut`, `JailCardsConserved` | 320 000 |
| `Market` | 3 players, one street, bids, a hotel, mortgage, rent beyond what anyone has | `TurnHolderInGame`, `OutcomeConsistent`, `WaitingPhaseHasSubject`, `OwnerListed`, `PlaysElimination`, `SurrenderConservesMoney`, `StockConserved`, `NothingHidden` | 563 000 |
| `Estates` | 2 players, a group of two streets, a bank of 2 houses and 1 hotel, repairs, a jail card, offers of a street, money or the card | `TypeOK`, `NoBuildingBesideMortgage`, `WaitingPhaseHasSubject`, `StaysEven`, `StockConserved`, `TradeSound` | 798 000 |
| `Silence` | 2 players, property, auctions, trades, debts; with fairness | `SilentGameEnds` | 24 000 |
| `Store` | 2 processes with a scheduler each, 3 connections, 2 commits, 1 death; with fairness | `TypeOK`, `ClosedMeansOver`, `RatedAtMostOnce`, `NoLostUpdate`, `FinishCompletes`, `PlaysMatch` | 277 000 |
| `Lobby` | 4 users, 3 seats, 2 requests at a time, 3 joins, 1 death | `TypeOK`, `RoomBound`, `OneStartWins`, `OrderlyHost`, `StatusForward` | 841 000 |
| `Fanout` | 1 process, 2 clients who come and go, 2 publishers, 2 messages, 1 failure | `TypeOK`, `CountIsRight`, `NothingMissed`, `ViewCurrent`, `Ascending` | 2 718 000 |
| `Presence` | 1 user with 2 connections, queues of 2, 1 failing call or restart; with fairness | `TypeOK`, `WatchedOver`, `WholeGraceAway`, `RunEnds`, `GoneAreRemoved` | 122 000 |

What they show:

- **Turn and outcome.** `TurnHolderInGame`: while play goes on the turn is never on an
  eliminated player (else `end_turn` raises for ever). `OutcomeConsistent`: finished, sole survivor and
  recorded winner agree, although bids and trade answers return before the win check.
  `PlaysElimination`: `end_turn` finds the successor by index in the list of active players, an elimination
  by walking the ring of all players; both are the same abstract step.
- **Nobody waits for nothing.** `WaitingPhaseHasSubject`: a phase without a turn timer has
  the auction, trade or debt that ends it. `JailedNotStuck`: a jailed turn holder is never
  in `pre_roll`, where it could do nothing. `StrikesOut`: the limit of missed turns eliminates at once.
- **Nothing appears or vanishes.** `SurrenderConservesMoney` (the remainder of the split goes
  somewhere), `TradeSound` (what was offered may be gone when the answer comes), `OwnerListed` (ownership is kept twice),
  `StockConserved` and `JailCardsConserved`: through purchases of hotels the bank has too few houses for, cards kept for many turns, surrenders and bankruptcies. They except
  what the code loses or doubles (section 5): the buildings of a bankruptcy to the bank, the cards a player leaves to the bank. `Moves` has bankruptcies between
  holders of jail cards, `Market` surrenders and bankruptcies with a hotel, `Estates` groups with houses.
- **Buildings.** `NoBuildingBesideMortgage`, `StaysEven`: also after a trade has split a built group.
- **Buttons.** `NothingHidden`: a command whose flag is not set is refused, although the flags are computed apart, with five exceptions, each of which
  the engine accepts: a fine charged below the one the flag tests (the flag has a constant, the engine a setting; `Market` charges 1 and shows 2),
  a surrender during an auction, a trade or a debt, an offer in phases that show no flag or after the end, a bankruptcy outside
  `bankrupt_resolution`, and outbidding oneself.
- **Silence.** `SilentGameEnds`: from any reachable state, if players send nothing more, the scheduler ends the game, or
  stops at a debt, which no timer resolves.
- **Store.** `NoLostUpdate`: a write appends one command to the state that is there. `ClosedMeansOver`: no late write
  puts a game back in play whose session is closed or whose ratings are applied. `RatedAtMostOnce`, with deaths anywhere.
  `FinishCompletes`: without a death, handler (close, then rate) and scheduler (rate, then close) together
  always close the session and rate every player of a ranked game exactly once. `PlaysMatch`: no reader can tell the workers from one writer.
- **Lobby.** `RoomBound`: two joins for the last seat, or a rewritten member list, never overfill. `StatusForward` and
  `OneStartWins`: stale checks of a status never count. `OrderlyHost`: if no two requests overlap and none dies, the room has its
  first member as host, or is gone.
- **Backplane.** `CountIsRight`: while no two calls of a process overlap, the count is the connections it stands for and those that calls
  which raised have left counted (`leaked`), and with no call pending the channel is heard exactly when the count is not zero, also over reconnections to Redis: a
  channel is kept although nobody reads it only after such a call. `NothingMissed`: a connection gets every message numbered after its welcome,
  whatever came between its set-up steps. `ViewCurrent` and `Ascending`: it ends on the committed version, in order, unless publications overlapped
  or one of the races of section 5 occurred. The history variables `missed`, `raced` and `unordered` say exactly when; that they are needed is what
  the run `Resync` shows.
- **Presence.** `WholeGraceAway`: a timer set before the user's last connection never removes it. `WatchedOver`: an absent member always has a tear-down or
  a timer coming. `RunEnds`: a connection whose client is gone, silent or closed ends, with the queue full or empty, whichever loop notices
  first. `GoneAreRemoved`: a member who stays away loses its seat in the end.

Every property has a mutant, a plausible bug in a mapped definition that makes TLC find it violated.

### Bounds

`MinCash .. MaxCash` caps balances: a command whose result leaves the range is not taken.
The ranges reach overdrafts on one side and more than a player starts with on the other, so that debts,
bankruptcies and purchases all happen. In `Silence` no command of the scheduler changes a balance beyond the
range, so the bound never stops it. Boards have 2 to 7 squares, since each rule looks at a square, its kind, its group and
its owner only; three players are the fewest among whom an elimination does not end the game. Doubles, jail turns, strikes and
offers have the smallest limits that are passed in several steps. `Market` shows a jail fine of 2 and charges 1, so that the button and the engine disagree. In `Store` two commits are enough for
two writers to compete and for a finished game to be written again by the other path; `MaxVersion` only stops new
loads, never a worker under way. In `Fanout` two messages are enough to overtake one another, two clients to share and race a count, one failure to
break a reader, and a connection may come back any number of times; processes share nothing but Redis, so one is enough to interleave with the publishers. Calls that raise while a reader is broken belong to that one failure;
at most `MaxFailures` of them leave a count behind. `MaxSeq` only stops new messages. In
`Presence` a queue of two is full in two steps, and the next connection of a user can overlap the tear-down of the one before it. In `Lobby` three joins after the creator are enough to compete for the last of three seats and to leave an heir a choice.

### Fairness

- `Silence`: `WF(SchedulerCommand)`. The loop runs every second until shutdown and deadlines
  pass if no command renews them, so a system command that stays possible is issued. Nothing is assumed of players.
- `Store`: `WF(Proceed(w))` for each worker. A coroutine that has begun runs until it returns, raises
  or is cancelled; the last two are `Fail`. That a message arrives or a tick begins is not assumed.
- `Presence`: weak fairness of what coroutines do by themselves: set-up, the send loop, noticing a closed socket, stopping, tear-down, timers and
  their checks. A send to a client that has gone silent may hang for ever, so `Send` is fair only towards others; a heartbeat that misses pongs
  gives up, fair only towards the silent. Nobody has to connect, leave, send or pong.
- `Fanout` needs none: its properties are invariants.

## 4. Proofs

`tlapm` checks all theorems; they hold for every board, deck, price list, number of players, processes, connections and
users that satisfies the named assumptions `GameAssumption`, `EngineAssumption`, `ActionBarAssumption`, `StoreAssumption`, `LobbyAssumption`, `PresenceAssumption` and `BackplaneAssumption`.

| theorem | states |
|---|---|
| `SpecSound` | the engine's inductive invariant |
| `TypeCorrect`, `TurnHolderStays`, `OutcomeIsConsistent`, `StrikesEliminate` | `TypeOK`, `TurnHolderInGame`, `OutcomeConsistent`, `StrikesOut` |
| `EnginePlaysElimination` | `Spec => PlaysElimination`, the refinement of `Elimination` |
| `SpecOrderly`, `SpecClosing` | the engine's further inductive invariants, of ownership and phases, and of finished games |
| `JailedCanAct`, `WaitingHasSubject`, `OwnersAreListed`, `BuildingsUnmortgaged` | `JailedNotStuck`, `WaitingPhaseHasSubject`, `OwnerListed`, `NoBuildingBesideMortgage` |
| `JailCardsAreConserved`, `StockIsConserved`, `SurrendersConserveMoney`, `TradesAreSound` | `JailCardsConserved`, `StockConserved`, `SurrenderConservesMoney`, `TradeSound` |
| `GroupsStayEven`, `MovesAreShown` | `StaysEven`, `NothingHidden` |
| `StoreSafe` | the store's inductive invariant |
| `StoreTypeCorrect`, `UpdatesAreKept`, `ClosedIsOver`, `NobodyRatedTwice` | `TypeOK`, `NoLostUpdate`, `ClosedMeansOver`, `RatedAtMostOnce` of `GameStore` |
| `StorePlaysMatch` | `Spec => PlaysMatch`, the refinement of `Match` |
| `LobbySafe` | the lobby's inductive invariant |
| `LobbyTypeCorrect`, `NeverOverfull`, `OneGamePerRoom`, `StatusOnlyForward` | `TypeOK`, `RoomBound`, `OneStartWins`, `StatusForward` of `SessionLobby` |
| `HostInOrder` | `OrderlyHost` of `SessionLobby` |
| `PresenceSafe` | the gateway's inductive invariant |
| `PresenceTypeCorrect`, `NobodyForgotten`, `OnlyTheAbsentLeave` | `TypeOK`, `WatchedOver`, `WholeGraceAway` of `Presence` |
| `CountStaysRight`, `NumbersAscend`, `NobodyMisses`, `ViewsAreCurrent`, `BackplaneTypeCorrect` | `CountIsRight`, `Ascending`, `NothingMissed`, `ViewCurrent`, `TypeOK` of `Backplane` |

**Engine.** The invariant `Sound` is the schema (`GameDoc`) and an agreement of the fields `out`, `current`, `status`,
`winner`, `strikes`, which together are the `Table`. `TurnHolderInGame` alone is not inductive: whether the turn has to move off a player depends on
whether the game has ended, and the end on who is out; and strikes must name only players still in. Most
rules do not touch the table, so the proofs rest on one relation, `Kept(g, h)`: the schema is kept and the table
unchanged. `GameRules_proofs` and `Landing_proofs` prove it for each rule, card effects, auctions and trades included;
what remains are the two eliminations and the two ways of passing the turn. `Continues(g, h)` says
that `h` is sound and a step or stutter of the abstract game from `g`; every action is shown to continue, which gives the invariant and the
refinement at once. The key lemma, `NextInListIsNextActive`, identifies the two searches for the successor by counting.

**Order of the game.** None of `OwnerListed`, `NoBuildingBesideMortgage`, `JailedNotStuck` and `WaitingPhaseHasSubject` is inductive; `Orderly` is, which joins them with
what their proofs need besides. Nobody owes or trades with itself (`Parties`): else a bankruptcy would hand squares to the player whose list is emptied next. A jailed turn holder has
no streak of doubles, so a deferred extra roll never puts it in `pre_roll`. In `must_pay_rent` no purchase is pending, although the engine accepts one there and no flag shows it: `NothingHidden` needs that.
`Standing`, `Carries` and `Landed` say what a rule leaves alone, and are to `Orderly` what `Kept` is to `Sound`.

The action properties follow from it. Stock and jail cards are sums over squares and players, `SumTo`, a recursive function: what an update adds to such a sum at one or two places is a lemma,
and each rule is shown to move equal amounts. What a surrender, a strike-out or a bankruptcy to a player moves at many squares at once is found by splitting the sum into the leaver's squares and the rest (`BuildingsSplit`). For `SurrenderConservesMoney`, `Share` gives each survivor `cash \div n` and the first `cash % n` of them one more; the
proof adds them up player by player and counts the survivors passed so far. `StaysEven` concerns finished games too, in which the last leaver still holds the turn, and may build and sell:
`Closing` says that whatever is built on a square it owns, the rest of the group that it does not own is bare, so that the group it still can build on is all that counts.

**Store.** What a worker has read is older than the document or equal to it (`Fresh`), so a write whose version compares equal
extends the current state. A worker on the finish path is there because the game is over (`Over`), and `Outcomes` never reopens a game. Before the
claim nobody is credited; after it every user is credited, or on the list of one worker, never both (`Accounts`). The refinement of `Match` rests on the same invariant: each step of a worker is one of the match or a stutter.

**Lobby.** `RoomBound` needs more than itself: `update_host` writes back a list of members read earlier, so the invariant's `TypeOK` says that every
list a request remembers is within `max_players` too (a `Party`). `OneStartWins` needs `Undealt`: while the room waits, nobody is between
`set_status` and the insertion of the game. `StatusForward` is an action property of the same lemma, `NextLobby`; no fairness and no number of
requests or failures matters to any of them. `HostInOrder` needs `InTurn`: while no two requests have overlapped, there is one at most (`Alone`), and what it remembers is
still true of the room (`Fitting`): the heir it has chosen is the earliest member, the list it is about to write back is the list that is there.

**Presence.** `WatchedOver` needs to know that ghosts, registered connections nobody attends, come from failures only (`NoGhosts`): else the connection
for whose sake a tear-down schedules nothing might never run its own. `WholeGraceAway` rests on `FreshTimers`: while a removal is pending, its user has not connected since. While the others are told of a removal, its entry keeps
another from being set; that nobody is forgotten meanwhile takes `Alone` and `Over`: its user has no connection then, and is out of the room or back without one.

**Backplane.** `CountIsRight` is not inductive, since it says too little of a process with a call under way. `InOrder` adds that there is at most one, and that what
it read before it waited still holds when it writes (`CallHolds`). For `Ascending`, `SeqInv` orders what was heard before what is on the wire, and both before the one number
that is drawn and not yet sent. `NothingMissed` speaks of quiet moments only; `Reached` says at any moment where each number after a welcome is: heard, on the wire, or drawn. It needs
`InOrder`, without which the process might not listen, and `Deaf`, that a reader that has lost its connection neither listens nor has anything to read. `ViewCurrent` likewise rests on
`Following`: what a client knows, the snapshot it is about to be sent included, is the game as committed unless more of the game is on its wire or about to be published, and on
`Fresh`: the last state of the game on the wire of a process that listens is the committed one. `TypeOK` holds with calls that overlap, too: `Bounded` shows that a count may fall behind the connections, but
exceeds them by no more than the calls that raised have left. All are proved from `BackplaneAssumption` for any number of processes, clients, publishers, messages and failures.

**Only model-checked:** the liveness properties `SilentGameEnds`, `FinishCompletes`, `RunEnds` and `GoneAreRemoved`, which rest on fairness and are out of the prover's reach. Every invariant, every
action property and every refinement of a passing run is also a theorem.

## 5. Where the code and its documents disagree

Each of these runs ends in a counterexample:

| run | property | what happens |
|---|---|---|
| `Debtor` | `DebtorHoldsTurn` | a debtor surrenders, its debt stays open, and a later turn holder waits in `bankrupt_resolution` for a debt nobody can declare |
| `Unranked` | `UnrankedNotRated` | a game the scheduler ends is rated although its session is unranked |
| `Hosting` | `HostIsEarliest` | a host whose leave is under way kicks the only other member, and the kick's checks pass; the leave removes the host and names that member host; the kick then removes it: the room stays, empty |
| `Resync` | `LastStateCurrent` | the endpoint reads a snapshot, a newer broadcast is queued, then the older snapshot: the client stays behind; so it does when two moves are published in the other order, or after a race of the reference count |

Seen while modelling, without a run of their own:

- a card that neither moves nor jails the drawer leaves the phase at `pre_roll`, so a player rolls again without doubles (docs/game-protocol.md:212);
- the highest bidder is charged without looking at its balance or at whether it is still in the game, and is overdrawn (docs/ruleset.md:82-83);
- flags are set for moves the engine refuses: `can_buy` without the money, `can_end_turn` with a debt open, `can_declare_bankruptcy` for another's debt (docs/game-protocol.md:131-132);
- numbers can arrive out of order when publications overlap (docs/sessions-and-realtime.md:422, docs/game-protocol.md:44), and a broadcast may precede
  `system.welcome` in the queue (docs/sessions-and-realtime.md:444);
- two first subscribers of a session read a count of 0 across their calls and both write 1: the first to leave unsubscribes the other; likewise a subscriber during an unsubscribe;
- a re-subscription that fails inside the handler of the first failure ends the reader task for good (gateway/backplane.py:138);
- a set-up that fails after `register` leaves a connection registered, which then hides its user's absence, and, once it is subscribed, counted; an `unsubscribe`
  that raises leaves its count too, and schedules no removal: a reconnection then takes up again a channel nobody reads (gateway/backplane.py:74, router.py:145);
- the flag for the jail fine tests the constant 50, the engine charges `settings.jail_fine` (rules/actions.py:38, engine.py:420), and a turn holder may surrender during an
  auction, a trade or a debt though the flag is off (rules/actions.py:76-85);
- a removal cancelled while its `leave` is on the way may still remove the user who reconnected; and a game started between the check and the `leave` loses a player
  of a running game's room, though "in-progress games are never touched" (gateway/router.py:40);
- pending removals are lost by a restart, and members who were away then keep their seats;
- a frame that is not text ends the connection, where malformed text is answered;
- a bankruptcy to the bank loses the houses on the debtor's squares, and an elimination returns one jail card to *each* deck for every card held;
- after the end, the last leaver still holds the turn: if its surrender left a debt open it may trade for a jail card and go bankrupt to the bank, which returns a card to each deck although
  nobody is eliminated (so `JailCardsConserved` excepts a bankruptcy to the bank whether or not it eliminates);
- selling a hotel takes four houses from the bank even when it has fewer: `bank_houses` becomes negative;
- a trade can be proposed in any phase, also while an auction or a debt is open, and a turn holder who surrenders leaves an auction open, so the
  sub-states are not exclusive and outlive their phase (docs/game-protocol.md:102, 137);
- any player may reject a trade and the proposer may accept its own; trade commands still work on a finished game;
- a player freed from jail by doubles who draws a card that does not move it stays in `jail_decision`;
- a debt that an accepted trade made payable is settled only at the next turn command;
- an in-progress room loses a member to a grace removal that had seen it waiting; a join can be lost to a rehost or to the deletion of the room;
- an heir that leaves between its election and the rewrite, or a leaving host's request that dies there, leaves a room whose `host_user_id` names somebody who is gone: nobody has the
  role of host, so nobody can kick or start (infra/mongo/sessions/repository.py:114);
- a change of host resets the members' rating snapshots in the room;
- a crash after `set_status` leaves a room in progress without a game; a crash after `claim_for_rating` leaves ratings unapplied; nothing retries either;
- a host alone can start a game of one player, which `GameAssumption` (two or more) excludes.

## 6. Not modelled

- Rent tables, net worth, board and card tables: pure data or functions no rule's control depends on.
- Elo arithmetic; two games of one user finishing together (ratings are written back as absolute values); the mortgage interest in floating point.
- Event log and timeline, REST schemas, parsing of messages, routing, configuration, logging, deployment.
- Registration, log-in and tokens: no game, room or connection depends on more of them than a user's identity.
- In `Backplane`, the queue between a connection and its socket, and clients that leave during their set-up; in `Presence`, what messages say.

## 7. Plan

Done, in this order: `GameState`, `GameRules`, `Landing`, `Dealings`, `Estate`, `GameEngine`, `Elimination` with its refinement; their proofs;
`GameStore` and its proofs; `SessionLobby` and its proofs; `Backplane` and `Presence` with their proofs, and `ActionBar`.

Then, in `GameOrder_proofs` and the later parts of `SessionLobby_proofs` and `Backplane_proofs`, the remaining invariants and action properties of all runs; `Match` and the proof
that the store implements it.

Next, in order of importance:

1. An abstract specification of the lobby, a room in which each request takes effect at one moment, for executions in which requests do not overlap.
2. One of the backplane: what a client that stays sees, as a suffix of what was published.

## 8. Running

    tlc -config Market.cfg MCGame      # Store.cfg, Unranked.cfg: MCStore; Lobby.cfg, Hosting.cfg: MCLobby;
                                       # Fanout.cfg, Resync.cfg: MCBackplane; Presence.cfg: MCPresence
    tlapm GameEngine_proofs.tla        # and the other *_proofs modules
