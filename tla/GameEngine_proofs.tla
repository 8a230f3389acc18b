-------------------------- MODULE GameEngine_proofs --------------------------
(***************************************************************************)
(* Every command keeps the game sound, and is a step of the game of        *)
(* elimination or changes nothing there.                                   *)
(***************************************************************************)
EXTENDS GameProperties, Landing_proofs

\* The steps of the abstract game, on documents.
Stays(g, h) ==
  /\ h.out = g.out
  /\ h.current = g.current
  /\ h.winner = g.winner

Continues(g, h) == Sound(h) /\ (Stays(g, h) \/ Passes(g, h) \/ Leaves(g, h))

\* A step that keeps the table is none of the abstract game.
LEMMA KeptContinues ==
  ASSUME NEW g, Sound(g), NEW h, Kept(g, h)
  PROVE  Continues(g, h)
<1>1. Sound(h)
  BY KeptIsSound
<1> QED BY <1>1 DEF Continues, Kept, Table, Stays

\* Looking at debts and survivors after a command changes nothing more.
LEMMA SettledContinues ==
  ASSUME NEW g, NEW h, Continues(g, h)
  PROVE  Continues(g, Settled(h))
<1> DEFINE k == TrySettleDebt(h)
<1>1. Kept(h, k)
  BY TrySettleDebtKept DEF Continues, Sound
<1> HIDE DEF k
<1>2. Sound(k)
  BY <1>1, KeptIsSound DEF Continues
<1>3. CheckWin(k) = k
  BY <1>2, CheckWinIdle
<1>4. k.out = h.out /\ k.current = h.current /\ k.winner = h.winner
  BY <1>1 DEF Kept, Table
<1>5. Survivors(k) = Survivors(h)
  BY <1>4 DEF Survivors
<1>6. NextActive(k, g.current) = NextActive(h, g.current)
  BY <1>5 DEF NextActive
<1>7. Continues(g, k)
  BY <1>2, <1>4, <1>5, <1>6 DEF Continues, Stays, Passes, Leaves
<1> QED BY <1>3, <1>7 DEF Settled, k

\* Nor does clearing the strikes of the author.
LEMMA ResetContinues ==
  ASSUME NEW g, NEW h, Continues(g, h), NEW p \in Player
  PROVE  Continues(g, ResetStrikes(h, p))
<1> DEFINE x == [h.strikes EXCEPT ![p] = 0]
           k == [h EXCEPT !.strikes = x]
<1>1. h \in GameDoc
  BY DEF Continues, Sound
<1>2. x \in [Player -> 0 .. MaxStrikes]
  BY <1>1, Sizes DEF GameDoc
<1>3. \A q \in Player : x[q] >= MaxStrikes => h.strikes[q] >= MaxStrikes
  BY <1>1, Sizes DEF GameDoc
<1>4. ResetStrikes(h, p) = k
  BY DEF ResetStrikes
<1> HIDE DEF x
<1>5. k \in GameDoc
  BY <1>1, <1>2 DEF GameDoc
<1>6. /\ k.strikes = x /\ k.out = h.out /\ k.current = h.current
      /\ k.winner = h.winner /\ k.status = h.status
  BY <1>1 DEF GameDoc
<1> HIDE DEF k
<1>7. Survivors(k) = Survivors(h)
  BY <1>6 DEF Survivors
<1>8. NextActive(k, g.current) = NextActive(h, g.current)
  BY <1>7 DEF NextActive
<1>9. Sound(k)
  BY <1>3, <1>5, <1>6, <1>7 DEF Continues, Sound, TableOK
<1>10. Continues(g, k)
  BY <1>6, <1>7, <1>8, <1>9 DEF Continues, Stays, Passes, Leaves
<1> QED BY <1>4, <1>10

\* The three ways a command is committed.
LEMMA PlayContinues ==
  ASSUME NEW h, Continues(game, h), NEW p \in Player, Play(h, p)
  PROVE  Continues(game, game')
<1>1. game' = Settled(ResetStrikes(h, p))
  BY DEF Play, Commit
<1> QED BY <1>1, ResetContinues, SettledContinues

\* A bid or a trade answer,
LEMMA PlayOutOfTurnContinues ==
  ASSUME NEW h, Continues(game, h), NEW p \in Player, PlayOutOfTurn(h, p)
  PROVE  Continues(game, game')
<1>1. game' = ResetStrikes(h, p)
  BY DEF PlayOutOfTurn, Commit
<1> QED BY <1>1, ResetContinues

\* and a scheduler command likewise.
LEMMA CommitContinues ==
  ASSUME NEW h, Continues(game, h), Commit(Settled(h))
  PROVE  Continues(game, game')
<1>1. game' = Settled(h)
  BY DEF Commit
<1> QED BY <1>1, SettledContinues

-----------------------------------------------------------------------------
(***************************************************************************)
(* The two searches for the next player find the same one                  *)
(***************************************************************************)

\* Ranks in the list of survivors grow with the turn order.
LEMMA RankGrows ==
  ASSUME NEW S, S \subseteq Player, NEW p \in S, NEW q \in S, p < q
  PROVE  /\ Cardinality({r \in S : r < p}) \in Nat
         /\ Cardinality({r \in S : r < p}) < Cardinality({r \in S : r < q})
<1>1. S \subseteq Int /\ IsFiniteSet(S)
  <2>1. IsFiniteSet(Player)
    BY Sizes, FS_Interval DEF Player
  <2>2. IsFiniteSet(S)
    BY <2>1, FS_Subset
  <2>3. S \subseteq Int
    BY Sizes DEF Player
  <2> QED BY <2>2, <2>3
<1> DEFINE P == {r \in S : r < p}
           Q == {r \in S : r < q}
           T == P \cup {p}
<1>2. IsFiniteSet(P) /\ IsFiniteSet(Q) /\ IsFiniteSet(T)
  <2>1. P \subseteq S /\ Q \subseteq S /\ T \subseteq S
    OBVIOUS
  <2> QED BY <1>1, <2>1, FS_Subset
<1>3. p \notin P
  BY <1>1
<1>4. Cardinality(T) = Cardinality(P) + 1
  <2> HIDE DEF P
  <2> QED BY <1>2, <1>3, FS_AddElement
<1>5. T \subseteq Q
  <2> SUFFICES ASSUME NEW r \in S, r < p \/ r = p PROVE r < q
    OBVIOUS
  <2>1. r \in Int /\ p \in Int /\ q \in Int
    BY <1>1
  <2> QED BY <2>1
<1>6. Cardinality(T) <= Cardinality(Q)
  BY <1>2, <1>5, FS_Subset
<1>7. Cardinality(P) \in Nat /\ Cardinality(Q) \in Nat
  BY <1>2, FS_CardinalityType
<1> QED BY <1>4, <1>6, <1>7

\* The player after p in the list of survivors is the next survivor after p
\* around the table.
LEMMA NextInListIsNextActive ==
  ASSUME NEW g, NEW p \in Survivors(g)
  PROVE  NextInList(g, p) = NextActive(g, p)
<1> DEFINE S == Survivors(g)
           rank(q) == Cardinality({r \in S : r < q})
           n == Cardinality(S)
           a == NextActive(g, p)
<1>1. S \subseteq Player /\ S \subseteq Nat /\ S # {} /\ IsFiniteSet(S)
  <2>1. IsFiniteSet(Player)
    BY Sizes, FS_Interval DEF Player
  <2> QED BY <2>1, Sizes, FS_Subset DEF Player, Survivors
<1>2. a \in S
  BY <1>1, NextActiveSurvives
<1>3. \A q \in S : rank(q) \in Nat /\ rank(q) < n
  <2> SUFFICES ASSUME NEW q \in S PROVE rank(q) \in Nat /\ rank(q) < n
    OBVIOUS
  <2> DEFINE Q == {r \in S : r < q}
  <2>1. q \notin Q /\ Q \cup {q} \subseteq S /\ Q \subseteq S
    BY <1>1
  <2>2. IsFiniteSet(Q)
    BY <1>1, <2>1, FS_Subset
  <2>3. Cardinality(Q) \in Nat
    BY <2>2, FS_CardinalityType
  <2>4. Cardinality(Q \cup {q}) = Cardinality(Q) + 1
    <3> HIDE DEF Q
    <3> QED BY <2>1, <2>2, FS_AddElement
  <2>5. Cardinality(Q \cup {q}) <= n
    BY <1>1, <2>1, FS_Subset
  <2>6. n \in Nat
    BY <1>1, FS_CardinalityType
  <2> QED BY <2>3, <2>4, <2>5, <2>6
<1>4. n \in Nat /\ n > 0
  <2>1. n \in Nat
    BY <1>1, FS_CardinalityType
  <2>2. rank(a) \in Nat /\ rank(a) < n
    BY <1>2, <1>3
  <2> HIDE DEF rank, n
  <2> QED BY <2>1, <2>2
<1>5. rank(a) = (rank(p) + 1) % n
  <2>1. CASE \E q \in S : q > p
    <3> DEFINE later == {q \in S : q > p}
    <3>1. a = Least(later)
      BY <2>1 DEF NextActive
    <3>2. later \subseteq Nat /\ later # {}
      BY <1>1, <2>1
    <3>3. a \in later /\ \A q \in later : a <= q
      BY <3>1, <3>2, LeastIsMember
    <3> DEFINE P == {r \in S : r < p}
    <3>4. {r \in S : r < a} = P \cup {p}
      BY <1>1, <3>3
    <3>5. IsFiniteSet(P) /\ p \notin P
      <4>1. P \subseteq S
        OBVIOUS
      <4> QED BY <1>1, <4>1, FS_Subset
    <3>6. Cardinality(P \cup {p}) = Cardinality(P) + 1
      <4> HIDE DEF P
      <4> QED BY <3>5, FS_AddElement
    <3>7. rank(a) = rank(p) + 1
      BY <3>4, <3>6
    <3>8. rank(p) + 1 \in 0 .. n - 1
      BY <1>2, <1>3, <1>4, <3>7
    <3> HIDE DEF rank, n
    <3>9. (rank(p) + 1) % n = rank(p) + 1
      BY <1>4, <3>8
    <3> QED BY <3>7, <3>9
  <2>2. CASE ~ \E q \in S : q > p
    <3>1. a = Least(S)
      BY <2>2 DEF NextActive
    <3>2. \A q \in S : a <= q
      BY <1>1, <3>1, LeastIsMember
    <3>3. {r \in S : r < a} = {}
      BY <1>1, <1>2, <3>2
    <3>4. rank(a) = 0
      BY <3>3, FS_EmptySet
    <3> DEFINE P == {r \in S : r < p}
    <3>5. S = P \cup {p} /\ p \notin P /\ P \subseteq S
      BY <1>1, <2>2
    <3>6. n = rank(p) + 1
      <4>1. IsFiniteSet(P)
        BY <1>1, <3>5, FS_Subset
      <4>2. Cardinality(P \cup {p}) = Cardinality(P) + 1
        <5> HIDE DEF P
        <5> QED BY <3>5, <4>1, FS_AddElement
      <4> QED BY <3>5, <4>2
    <3> HIDE DEF rank, n
    <3>7. n % n = 0
      BY <1>4
    <3> QED BY <3>4, <3>6, <3>7
  <2> QED BY <2>1, <2>2
<1>6. \A q \in S : rank(q) = rank(a) => q = a
  <2> SUFFICES ASSUME NEW q \in S, q # a PROVE rank(q) # rank(a)
    OBVIOUS
  <2>1. CASE q < a
    <3>1. rank(q) \in Nat /\ rank(q) < rank(a)
      BY <1>1, <1>2, <2>1, RankGrows
    <3>2. rank(a) \in Nat
      BY <1>2, <1>3
    <3> HIDE DEF rank
    <3> QED BY <3>1, <3>2
  <2>2. CASE a < q
    <3>1. rank(a) \in Nat /\ rank(a) < rank(q)
      BY <1>1, <1>2, <2>2, RankGrows
    <3>2. rank(q) \in Nat
      BY <1>3
    <3> HIDE DEF rank
    <3> QED BY <3>1, <3>2
  <2>3. q < a \/ a < q
    BY <1>1, <1>2
  <2> QED BY <2>1, <2>2, <2>3
<1>7. NextInList(g, p) = CHOOSE q \in S : rank(q) = (rank(p) + 1) % n
  BY DEF NextInList
<1> HIDE DEF S, rank, n, a
<1>8. (CHOOSE q \in S : rank(q) = (rank(p) + 1) % n) = a
  BY <1>2, <1>5, <1>6
<1> QED BY <1>7, <1>8 DEF a

-----------------------------------------------------------------------------
(***************************************************************************)
(* The commands                                                            *)
(***************************************************************************)

\* Another turn in jail shortens the term.
LEMMA StayInJailKept ==
  ASSUME NEW g \in GameDoc, NEW p \in Player, g.jail[p] > 1
  PROVE  Kept(g, StayInJail(g, p))
<1> DEFINE j == [g.jail EXCEPT ![p] = @ - 1]
           h == [g EXCEPT !.jail = j, !.rolled = TRUE, !.streak = 0,
                          !.phase = "post_roll", !.pending = NoSquare]
<1>1. g.jail \in [Player -> 0 .. JailTurns]
  BY DEF GameDoc
<1>2. g.jail[p] - 1 \in 0 .. JailTurns
  BY <1>1, Sizes
<1>3. j \in [Player -> 0 .. JailTurns]
  BY <1>1, <1>2
<1>4. 0 \in 0 .. DoublesLimit - 1 /\ "post_roll" \in Phases /\ NoSquare \in 0 .. Size
  BY Sizes DEF Phases, NoSquare
<1>5. StayInJail(g, p) = h
  BY DEF StayInJail
<1> HIDE DEF j
<1>6. h \in GameDoc
  BY <1>3, <1>4 DEF GameDoc
<1>7. Table(h) = Table(g)
  BY DEF Table, GameDoc
<1> QED BY <1>5, <1>6, <1>7 DEF Kept

\* The roll that would complete the doubles run goes to jail instead.
LEMMA JailForDoublesKept ==
  ASSUME NEW g \in GameDoc, NEW p \in Player
  PROVE  Kept(g, JailForDoubles(g, p))
<1> DEFINE s == SendToJail(g, p)
           h == [s EXCEPT !.rolled = TRUE, !.streak = 0,
                          !.phase = "post_roll", !.pending = NoSquare]
<1>1. Kept(g, s)
  BY SendToJailKept
<1>2. 0 \in 0 .. DoublesLimit - 1 /\ "post_roll" \in Phases /\ NoSquare \in 0 .. Size
  BY Sizes DEF Phases, NoSquare
<1>3. JailForDoubles(g, p) = h
  BY DEF JailForDoubles
<1> HIDE DEF s
<1>4. s \in GameDoc
  BY <1>1 DEF Kept
<1>5. h \in GameDoc
  BY <1>2, <1>4 DEF GameDoc
<1>6. Table(h) = Table(s)
  BY <1>4 DEF Table, GameDoc
<1>7. Kept(s, h)
  BY <1>5, <1>6 DEF Kept
<1> QED BY <1>1, <1>3, <1>7, KeptIsTransitive

\* A player freed from jail, and what the freedom costs it.
Freed(g, p, n) == [g EXCEPT !.jail[p] = 0, !.balance[p] = @ - n]

\* Freedom changes the term and the balance only.
LEMMA FreedKept ==
  ASSUME NEW g \in GameDoc, NEW p \in Player, NEW n \in Int
  PROVE  Kept(g, Freed(g, p, n))
<1> DEFINE j == [g.jail EXCEPT ![p] = 0]
           b == [g.balance EXCEPT ![p] = @ - n]
           h == [g EXCEPT !.jail = j, !.balance = b]
<1>1. j \in [Player -> 0 .. JailTurns] /\ b \in [Player -> Int]
  BY Sizes DEF GameDoc
<1>2. Freed(g, p, n) = h
  BY DEF Freed
<1> HIDE DEF j, b
<1>3. h \in GameDoc
  BY <1>1 DEF GameDoc
<1>4. Table(h) = Table(g)
  BY DEF Table, GameDoc
<1> QED BY <1>2, <1>3, <1>4 DEF Kept

\* The fine is a whole amount.
LEMMA JailFineIsInt == JailFine \in Int
  BY GameAssumption

\* A roll keeps the schema: the doubles run never reaches its limit.
LEMMA RollOutcomesKept ==
  ASSUME NEW g \in GameDoc, NEW p \in Player, NEW dice \in Rolls,
         NEW h \in RollOutcomes(g, p, dice)
  PROVE  Kept(g, h)
<1> DEFINE steps == dice[1] + dice[2]
           doubles == dice[1] = dice[2]
<1>1. steps \in Int
  <2>1. Rolls \subseteq Nat \X Nat
    BY GameAssumption
  <2>2. dice[1] \in Nat /\ dice[2] \in Nat
    BY <2>1
  <2> QED BY <2>2
<1>2. doubles \in BOOLEAN
  OBVIOUS
<1>3. g.jail[p] \in 0 .. JailTurns /\ g.streak \in 0 .. DoublesLimit - 1
  BY DEF GameDoc
<1>4. h \in IF g.jail[p] # 0 THEN RollFromJail(g, p, steps, doubles)
           ELSE RollFree(g, p, steps, doubles)
  BY DEF RollOutcomes
<1> HIDE DEF steps, doubles
<1>5. CASE g.jail[p] # 0 /\ doubles
  <2> DEFINE k == [g EXCEPT !.jail[p] = 0]
  <2>1. RollFromJail(g, p, steps, doubles) = ExecuteMove(k, p, steps, FALSE)
    BY <1>5 DEF RollFromJail
  <2>2. Kept(g, k)
    BY Sizes, SetJail
  <2> HIDE DEF k
  <2>3. Kept(k, h)
    <3>1. k \in GameDoc
      BY <2>2 DEF Kept
    <3>2. h \in ExecuteMove(k, p, steps, FALSE)
      BY <1>4, <1>5, <2>1
    <3> QED BY <1>1, <3>1, <3>2, LastMoveKept
  <2> QED BY <2>2, <2>3, KeptIsTransitive
<1>6. CASE g.jail[p] # 0 /\ ~ doubles /\ g.jail[p] > 1
  <2>1. RollFromJail(g, p, steps, doubles) = {StayInJail(g, p)}
    BY <1>6 DEF RollFromJail
  <2>2. h = StayInJail(g, p)
    BY <1>4, <1>6, <2>1
  <2> QED BY <1>6, <2>2, StayInJailKept
<1>7. CASE g.jail[p] # 0 /\ ~ doubles /\ ~ (g.jail[p] > 1)
  <2> DEFINE k == Freed(g, p, JailFine)
  <2>1. RollFromJail(g, p, steps, doubles) = ExecuteMove(k, p, steps, FALSE)
    BY <1>7 DEF RollFromJail, Freed
  <2>2. Kept(g, k)
    BY JailFineIsInt, FreedKept
  <2> HIDE DEF k
  <2>3. Kept(k, h)
    <3>1. k \in GameDoc
      BY <2>2 DEF Kept
    <3>2. h \in ExecuteMove(k, p, steps, FALSE)
      BY <1>4, <1>7, <2>1
    <3> QED BY <1>1, <3>1, <3>2, LastMoveKept
  <2> QED BY <2>2, <2>3, KeptIsTransitive
<1>8. CASE g.jail[p] = 0 /\ doubles /\ g.streak + 1 >= DoublesLimit
  <2>1. RollFree(g, p, steps, doubles) = {JailForDoubles(g, p)}
    BY <1>8 DEF RollFree
  <2>2. h = JailForDoubles(g, p)
    BY <1>4, <1>8, <2>1
  <2> QED BY <2>2, JailForDoublesKept
<1>9. CASE g.jail[p] = 0 /\ ~ (doubles /\ g.streak + 1 >= DoublesLimit)
  <2>1. RollFree(g, p, steps, doubles) = ExecuteMove(g, p, steps, doubles)
    BY <1>9 DEF RollFree
  <2>2. h \in ExecuteMove(g, p, steps, doubles)
    BY <1>4, <1>9, <2>1
  <2>3. doubles => g.streak + 1 \in 0 .. DoublesLimit - 1
    BY <1>3, <1>9, Sizes
  <2> QED BY <1>1, <1>2, <2>2, <2>3, ExecuteMoveKept
<1> QED BY <1>5, <1>6, <1>7, <1>8, <1>9

\* A roll eliminates nobody and passes no turn.
LEMMA RollDiceContinues ==
  ASSUME Sound(game), NEW p \in Player, RollDice(p)
  PROVE  Continues(game, game')
<1>1. PICK dice \in Rolls : \E h \in RollOutcomes(game, p, dice) : Play(h, p)
  BY DEF RollDice
<1>2. PICK h \in RollOutcomes(game, p, dice) : Play(h, p)
  BY <1>1
<1>3. Kept(game, h)
  BY RollOutcomesKept DEF Sound
<1> QED BY <1>2, <1>3, KeptContinues, PlayContinues

\* A purchase moves a square and money,
LEMMA BoughtKept ==
  ASSUME NEW g \in GameDoc, NEW p \in Player, NEW s \in Square
  PROVE  Kept(g, Bought(g, p, s))
<1> DEFINE o == [g.owner EXCEPT ![s] = p]
           l == [g.owned EXCEPT ![p] = @ \cup {s}]
           b == [g.balance EXCEPT ![p] = @ - Price[s]]
           ph == IF g.streak > 0 THEN "pre_roll" ELSE g.phase
           h == [g EXCEPT !.owner = o, !.owned = l, !.balance = b,
                          !.pending = NoSquare, !.phase = ph]
<1>1. p \in 0 .. N /\ NoSquare \in 0 .. Size
  BY Sizes DEF Player, NoSquare
<1>2. o \in [Square -> 0 .. N] /\ l \in [Player -> SUBSET Square]
  BY <1>1 DEF GameDoc
<1>3. b \in [Player -> Int]
  <2>1. Price[s] \in Int
    BY GameAssumption
  <2> QED BY <2>1 DEF GameDoc
<1>4. ph \in Phases
  BY DEF GameDoc, Phases
<1>5. Bought(g, p, s) = h
  BY DEF Bought
<1> HIDE DEF o, l, b, ph
<1>6. h \in GameDoc
  BY <1>1, <1>2, <1>3, <1>4 DEF GameDoc
<1>7. Table(h) = Table(g)
  BY DEF Table, GameDoc
<1> QED BY <1>5, <1>6, <1>7 DEF Kept

\* of a square of the board.
LEMMA PendingIsSquare ==
  ASSUME NEW g \in GameDoc, g.pending # NoSquare
  PROVE  g.pending \in Square
<1>1. g.pending \in 0 .. Size
  BY DEF GameDoc
<1> QED BY <1>1, Sizes DEF NoSquare, Square

\* Nor does a purchase,
LEMMA BuyPropertyContinues ==
  ASSUME Sound(game), NEW p \in Player, BuyProperty(p)
  PROVE  Continues(game, game')
<1>1. Play(Bought(game, p, game.pending), p)
  BY DEF BuyProperty
<1>2. game \in GameDoc /\ game.pending # NoSquare
  BY DEF Sound, BuyProperty
<1>3. Kept(game, Bought(game, p, game.pending))
  BY <1>2, PendingIsSquare, BoughtKept
<1> QED BY <1>1, <1>3, KeptContinues, PlayContinues

\* a refusal to buy,
LEMMA PassBuyContinues ==
  ASSUME Sound(game), NEW p \in Player, PassBuy(p)
  PROVE  Continues(game, game')
<1>1. game \in GameDoc
  BY DEF Sound
<1>2. game.pending \in Square
  BY <1>1, PendingIsSquare DEF PassBuy
<1>3. Kept(game, StartAuction(game, game.pending))
  BY <1>1, <1>2, StartAuctionKept
<1>4. Play(StartAuction(game, game.pending), p)
  BY DEF PassBuy
<1> QED BY <1>3, <1>4, KeptContinues, PlayContinues

\* The turn passes to the next survivor although it is looked for in a list.
LEMMA EndTurnContinues ==
  ASSUME Sound(game), NEW p \in Player, EndTurn(p)
  PROVE  Continues(game, game')
<1> DEFINE q == NextInList(game, p)
<1>1. p = game.current /\ p \notin game.out /\ Play(StartTurn(game, q), p)
  BY DEF EndTurn, HoldsTurn
<1>2. p \in Survivors(game)
  BY <1>1 DEF Survivors
<1>3. q = NextActive(game, game.current)
  BY <1>1, <1>2, NextInListIsNextActive
<1>4. q \in Survivors(game)
  BY <1>2, <1>3, NextActiveSurvives
<1>5. game.status = "in_progress"
  BY <1>1 DEF Sound, TableOK
<1> HIDE DEF q
<1>6. q \in Player
  BY <1>4 DEF Survivors
<1>7. Sound(StartTurn(game, q)) /\ Passes(game, StartTurn(game, q))
  BY <1>3, <1>4, <1>5, <1>6, StartTurnSound, StartTurnPasses
<1>8. Continues(game, StartTurn(game, q))
  BY <1>7 DEF Continues
<1> QED BY <1>1, <1>8, PlayContinues

\* Paying the fine keeps the table,
LEMMA PayJailFineContinues ==
  ASSUME Sound(game), NEW p \in Player, PayJailFine(p)
  PROVE  Continues(game, game')
<1> DEFINE f == Freed(game, p, JailFine)
           h == [f EXCEPT !.phase = "pre_roll"]
<1>1. game \in GameDoc /\ "pre_roll" \in Phases
  BY DEF Sound, Phases
<1>2. Play(h, p)
  BY DEF PayJailFine, Freed
<1>3. Kept(game, f)
  BY <1>1, JailFineIsInt, FreedKept
<1> HIDE DEF f
<1>4. Kept(f, h)
  BY <1>1, <1>3, SetPhase DEF Kept
<1>5. Kept(game, h)
  BY <1>3, <1>4, KeptIsTransitive
<1> HIDE DEF h
<1> QED BY <1>2, <1>5, KeptContinues, PlayContinues

\* and so does the card that saves it;
CardUsed(g, p) ==
  [g EXCEPT !.jail[p] = 0, !.cards[p] = @ - 1, !.deck["chance"] = @ + 1,
            !.phase = "pre_roll"]

\* Using a get-out-of-jail card keeps the schema and the table.
LEMMA CardUsedKept ==
  ASSUME NEW g \in GameDoc, NEW p \in Player, g.cards[p] > 0
  PROVE  Kept(g, CardUsed(g, p))
<1> DEFINE j == [g.jail EXCEPT ![p] = 0]
           c == [g.cards EXCEPT ![p] = @ - 1]
           k == [g.deck EXCEPT !["chance"] = @ + 1]
           h == [g EXCEPT !.jail = j, !.cards = c, !.deck = k, !.phase = "pre_roll"]
<1>1. j \in [Player -> 0 .. JailTurns] /\ k \in [Decks -> Nat]
  BY Sizes DEF GameDoc, Decks
<1>2. c \in [Player -> Nat] /\ "pre_roll" \in Phases
  BY DEF GameDoc, Phases
<1>3. CardUsed(g, p) = h
  BY DEF CardUsed
<1> HIDE DEF j, c, k
<1>4. h \in GameDoc
  BY <1>1, <1>2 DEF GameDoc
<1>5. Table(h) = Table(g)
  BY DEF Table, GameDoc
<1> QED BY <1>3, <1>4, <1>5 DEF Kept

\* use_jail_card continues the game.
LEMMA UseJailCardContinues ==
  ASSUME Sound(game), NEW p \in Player, UseJailCard(p)
  PROVE  Continues(game, game')
<1>1. game \in GameDoc /\ game.cards[p] > 0 /\ Play(CardUsed(game, p), p)
  BY DEF Sound, UseJailCard, CardUsed
<1> QED BY <1>1, CardUsedKept, KeptContinues, PlayContinues

\* building,
LEMMA BuildHouseContinues ==
  ASSUME Sound(game), NEW p \in Player, NEW s \in Square, BuildHouse(p, s)
  PROVE  Continues(game, game')
<1>1. game \in GameDoc
  BY DEF Sound
<1>2. MayBuild(game, p, s) /\ Play(Build(game, p, s), p)
  BY DEF BuildHouse
<1>3. Kept(game, Build(game, p, s))
  BY <1>1, <1>2, BuildKept
<1> QED BY <1>2, <1>3, KeptContinues, PlayContinues

\* selling a building,
LEMMA SellHouseContinues ==
  ASSUME Sound(game), NEW p \in Player, NEW s \in Square, SellHouse(p, s)
  PROVE  Continues(game, game')
<1>1. game \in GameDoc
  BY DEF Sound
<1>2. MaySell(game, p, s) /\ Play(Sell(game, p, s), p)
  BY DEF SellHouse
<1>3. Kept(game, Sell(game, p, s))
  BY <1>1, <1>2, SellKept
<1> QED BY <1>2, <1>3, KeptContinues, PlayContinues

\* mortgaging,
LEMMA MortgagePropertyContinues ==
  ASSUME Sound(game), NEW p \in Player, NEW s \in Square, MortgageProperty(p, s)
  PROVE  Continues(game, game')
<1>1. game \in GameDoc
  BY DEF Sound
<1>2. Play(Mortgage(game, p, s), p)
  BY DEF MortgageProperty
<1>3. Kept(game, Mortgage(game, p, s))
  BY <1>1, <1>2, MortgageKept
<1> QED BY <1>2, <1>3, KeptContinues, PlayContinues

\* and redeeming keep it too.
LEMMA UnmortgagePropertyContinues ==
  ASSUME Sound(game), NEW p \in Player, NEW s \in Square, UnmortgageProperty(p, s)
  PROVE  Continues(game, game')
<1>1. game \in GameDoc
  BY DEF Sound
<1>2. Play(Redeem(game, p, s), p)
  BY DEF UnmortgageProperty
<1>3. Kept(game, Redeem(game, p, s))
  BY <1>1, <1>2, MortgageKept
<1> QED BY <1>2, <1>3, KeptContinues, PlayContinues

\* A bankruptcy is the turn holder leaving, unless the game is over.
LEMMA DeclareBankruptcyContinues ==
  ASSUME Sound(game), NEW p \in Player, DeclareBankruptcy(p)
  PROVE  Continues(game, game')
<1> DEFINE h == ResolveBankruptcy(game, p)
<1>1. p = game.current /\ Play(h, p)
  BY DEF DeclareBankruptcy, HoldsTurn
<1>2. Sound(h) /\ (Kept(game, h) \/ Leaves(game, h))
  BY <1>1, ResolveBankruptcySound
<1> HIDE DEF h
<1>3. Continues(game, h)
  BY <1>2, KeptContinues DEF Continues
<1> QED BY <1>1, <1>3, PlayContinues

\* A surrender is the turn holder leaving.
LEMMA SurrenderContinues ==
  ASSUME Sound(game), NEW p \in Player, Surrender(p)
  PROVE  Continues(game, game')
<1> DEFINE h == ResolveSurrender(game, p)
<1>1. p = game.current /\ p \notin game.out /\ Play(h, p)
  BY DEF Surrender, HoldsTurn
<1>2. Playing(game)
  BY <1>1, SoundIsPlaying
<1>3. Sound(h) /\ Leaves(game, h)
  BY <1>1, <1>2, ResolveSurrenderSound
<1> HIDE DEF h
<1>4. Continues(game, h)
  BY <1>3 DEF Continues
<1> QED BY <1>1, <1>4, PlayContinues

-----------------------------------------------------------------------------
\* A bid keeps the table,
LEMMA PlaceBidContinues ==
  ASSUME Sound(game), NEW p \in Player, PlaceBid(p)
  PROVE  Continues(game, game')
<1>1. PICK n \in Bids : MayBid(game, p, n) /\ PlayOutOfTurn(PlaceBidBy(game, p, n), p)
  BY DEF PlaceBid
<1>2. n \in Nat
  BY EngineAssumption
<1>3. game \in GameDoc /\ game.auction # NoAuction
  BY <1>1 DEF Sound, MayBid
<1>4. Kept(game, PlaceBidBy(game, p, n))
  BY <1>2, <1>3, PlaceBidKept
<1> QED BY <1>1, <1>4, KeptContinues, PlayOutOfTurnContinues

\* and so do an offer,
LEMMA ProposeTradeContinues ==
  ASSUME Sound(game), NEW p \in Player, ProposeTrade(p)
  PROVE  Continues(game, game')
<1>1. PICK q \in Player, o \in Offers, r \in Offers :
        MayPropose(game, p, q, o, r) /\ Play(Propose(game, p, q, o, r), p)
  BY DEF ProposeTrade
<1>2. o \in Offer /\ r \in Offer
  BY EngineAssumption
<1>3. game \in GameDoc /\ game.offers < MaxOffers
  BY <1>1 DEF Sound, MayPropose
<1>4. Kept(game, Propose(game, p, q, o, r))
  BY <1>2, <1>3, ProposeKept
<1> QED BY <1>1, <1>4, KeptContinues, PlayContinues

\* its rejection,
LEMMA RejectTradeContinues ==
  ASSUME Sound(game), NEW p \in Player, RejectTrade(p)
  PROVE  Continues(game, game')
<1>1. PlayOutOfTurn(CloseTrade(game), p)
  BY DEF RejectTrade
<1>2. Kept(game, CloseTrade(game))
  BY CloseTradeKept DEF Sound
<1> QED BY <1>1, <1>2, KeptContinues, PlayOutOfTurnContinues

\* a counter-offer,
LEMMA CounterTradeContinues ==
  ASSUME Sound(game), NEW p \in Player, CounterTrade(p)
  PROVE  Continues(game, game')
<1>1. PICK o \in Offers : MayCounter(game, p, o) /\ PlayOutOfTurn(Counter(game, o), p)
  BY DEF CounterTrade
<1>2. o \in Offer
  BY EngineAssumption
<1>3. game \in GameDoc /\ game.trade # NoTrade
  BY <1>1 DEF Sound, MayCounter
<1>4. Kept(game, Counter(game, o))
  BY <1>2, <1>3, CounterKept
<1> QED BY <1>1, <1>4, KeptContinues, PlayOutOfTurnContinues

\* the exchange,
LEMMA AcceptTradeContinues ==
  ASSUME Sound(game), NEW p \in Player, AcceptTrade(p)
  PROVE  Continues(game, game')
<1>1. MayAccept(game, p) /\ PlayOutOfTurn(ExecuteTrade(game), p)
  BY DEF AcceptTrade
<1>2. Kept(game, ExecuteTrade(game))
  BY <1>1, ExecuteTradeKept DEF Sound
<1> QED BY <1>1, <1>2, KeptContinues, PlayOutOfTurnContinues

\* the end of an auction
LEMMA AdvanceAuctionContinues ==
  ASSUME Sound(game), AdvanceAuction
  PROVE  Continues(game, game')
<1>1. game.auction # NoAuction /\ Commit(Settled(ResolveAuction(game)))
  BY DEF AdvanceAuction
<1>2. Kept(game, ResolveAuction(game))
  BY <1>1, ResolveAuctionKept DEF Sound
<1> QED BY <1>1, <1>2, KeptContinues, CommitContinues

\* and the expiry of a trade.
LEMMA ExpireTradeContinues ==
  ASSUME Sound(game), ExpireTrade
  PROVE  Continues(game, game')
<1>1. Commit(Settled(CloseTrade(game)))
  BY DEF ExpireTrade
<1>2. Kept(game, CloseTrade(game))
  BY CloseTradeKept DEF Sound
<1> QED BY <1>1, <1>2, KeptContinues, CommitContinues

\* A turn that times out passes, or its holder leaves.
LEMMA TurnTimeoutContinues ==
  ASSUME Sound(game), TurnTimeout
  PROVE  Continues(game, game')
<1> DEFINE h == StrikeOut(game)
<1>1. game.status = "in_progress" /\ Commit(Settled(h))
  BY DEF TurnTimeout
<1>2. Sound(h) /\ (Passes(game, h) \/ Leaves(game, h))
  BY <1>1, StrikeSound DEF StrikeOut
<1> HIDE DEF h
<1>3. Continues(game, h)
  BY <1>2 DEF Continues
<1> QED BY <1>1, <1>3, CommitContinues

-----------------------------------------------------------------------------
(***************************************************************************)
(* The theorems                                                            *)
(***************************************************************************)

\* A new game is sound.
LEMMA InitSound ==
  ASSUME Init
  PROVE  Sound(game)
<1>1. game = NewGame
  BY DEF Init
<1>2. NewGame \in GameDoc
  <2>1. /\ StartBalance \in Int /\ BankHouses \in Int /\ BankHotels \in Int
        /\ JailFreeCards \in [Decks -> Nat]
    BY GameAssumption
  <2>2. 1 \in Player /\ "pre_roll" \in Phases /\ NoOne \in 0 .. N /\ NoSquare \in 0 .. Size
        /\ 0 \in 0 .. DoublesLimit - 1 /\ 0 \in 0 .. MaxOffers /\ 0 \in 0 .. JailTurns
        /\ 0 \in 0 .. MaxStrikes /\ 0 \in 0 .. HotelLevel
    BY Sizes DEF Player, Phases, NoOne, NoSquare
  <2> QED BY <2>1, <2>2, Sizes DEF NewGame, GameDoc
<1>3. Survivors(NewGame) = Player
  BY DEF Survivors, NewGame
<1>4. ~ \E w \in Player : Player = {w}
  <2>1. 1 \in Player /\ 2 \in Player
    BY Sizes DEF Player
  <2> QED BY <2>1
<1>5. TableOK(NewGame)
  <2>1. 1 \in Player
    BY Sizes DEF Player
  <2> QED BY <1>3, <1>4, <2>1, Sizes DEF TableOK, NewGame, NoOne
<1> QED BY <1>1, <1>2, <1>5 DEF Sound

\* Every step of the engine is a step of the abstract game, or none.
LEMMA StepContinues ==
  ASSUME Sound(game), [Next]_game
  PROVE  Continues(game, game')
<1>1. CASE UNCHANGED game
  BY <1>1 DEF Continues, Stays
<1>2. CASE SchedulerCommand
  BY <1>2, AdvanceAuctionContinues, ExpireTradeContinues, TurnTimeoutContinues
  DEF SchedulerCommand
<1>3. ASSUME NEW p \in Player, PlayerCommand(p) PROVE Continues(game, game')
  <2>1. CASE RollDice(p) \/ BuyProperty(p) \/ PassBuy(p) \/ EndTurn(p)
    BY <2>1, RollDiceContinues, BuyPropertyContinues, PassBuyContinues, EndTurnContinues
  <2>2. CASE PayJailFine(p) \/ UseJailCard(p)
    BY <2>2, PayJailFineContinues, UseJailCardContinues
  <2>3. CASE \E s \in Square : BuildHouse(p, s) \/ SellHouse(p, s)
    BY <2>3, BuildHouseContinues, SellHouseContinues
  <2>4. CASE \E s \in Square : MortgageProperty(p, s) \/ UnmortgageProperty(p, s)
    BY <2>4, MortgagePropertyContinues, UnmortgagePropertyContinues
  <2>5. CASE DeclareBankruptcy(p) \/ Surrender(p)
    BY <2>5, DeclareBankruptcyContinues, SurrenderContinues
  <2>6. CASE PlaceBid(p)
    BY <2>6, PlaceBidContinues
  <2>7. CASE ProposeTrade(p) \/ RejectTrade(p) \/ CounterTrade(p) \/ AcceptTrade(p)
    BY <2>7, ProposeTradeContinues, RejectTradeContinues, CounterTradeContinues,
       AcceptTradeContinues
  <2> QED BY <1>3, <2>1, <2>2, <2>3, <2>4, <2>5, <2>6, <2>7 DEF PlayerCommand
<1> QED BY <1>1, <1>2, <1>3 DEF Next

\* The inductive invariant: the schema, and how the game stands.
THEOREM SpecSound == Spec => []Sound(game)
<1>1. Init => Sound(game)
  BY InitSound
<1>2. Sound(game) /\ [Next]_game => Sound(game)'
  BY StepContinues DEF Continues
<1> QED BY <1>1, <1>2, PTL DEF Spec

\* The document keeps the shape of the schema, with the doubles run, the offers
\* of a turn, the strikes and the jail terms within their limits.
THEOREM TypeCorrect == Spec => []TypeOK
<1>1. Sound(game) => TypeOK
  BY DEF Sound, TypeOK
<1> QED BY <1>1, SpecSound, PTL

\* Play goes on exactly as long as the turn holder is in the game.
THEOREM TurnHolderStays == Spec => []TurnHolderInGame
<1>1. Sound(game) => TurnHolderInGame
  BY DEF Sound, TableOK, TurnHolderInGame, InProgress
<1> QED BY <1>1, SpecSound, PTL

\* The game is over exactly when one player is left, who is the winner.
THEOREM OutcomeIsConsistent == Spec => []OutcomeConsistent
<1>1. Sound(game) => OutcomeConsistent
  BY DEF Sound, TableOK, OutcomeConsistent, InProgress, Finished
<1> QED BY <1>1, SpecSound, PTL

\* Who has missed the limit of turns is out.
THEOREM StrikesEliminate == Spec => []StrikesOut
<1>1. Sound(game) => StrikesOut
  BY DEF Sound, TableOK, StrikesOut
<1> QED BY <1>1, SpecSound, PTL

-----------------------------------------------------------------------------
(***************************************************************************)
(* The refinement                                                          *)
(***************************************************************************)

\* Both searches of the abstract game are the engine's.
LEMMA SuccessorIsNextActive ==
  ASSUME NEW g, NEW p
  PROVE  Game!Successor(Survivors(g), p) = NextActive(g, p)
  BY DEF Game!Successor, NextActive, Least

\* A new game is a new game of elimination.
LEMMA InitRefines ==
  ASSUME Init
  PROVE  Game!Init
<1>1. game = NewGame
  BY DEF Init
<1> QED BY <1>1 DEF Game!Init, Game!Undecided, NewGame, Survivors, Player, NoOne

\* What the engine's steps do to survivors, turn and winner is a step of the
\* abstract game or none.
LEMMA StepRefines ==
  ASSUME Sound(game), Continues(game, game')
  PROVE  [Game!Next]_Game!vars
<1>1. CASE Stays(game, game')
  <2>1. UNCHANGED Game!vars
    BY <1>1 DEF Game!vars, Stays, Survivors
  <2> QED BY <2>1
<1>2. CASE Passes(game, game')
  <2>1. Survivors(game)' = Survivors(game)
    BY <1>2 DEF Passes, Survivors
  <2>2. Game!Pass
    BY <1>2, <2>1, SuccessorIsNextActive DEF Game!Pass, Game!Undecided, Passes, NoOne
  <2> QED BY <2>2 DEF Game!Next
<1>3. CASE Leaves(game, game')
  <2>1. /\ game.winner = Game!Undecided
        /\ game.current \in Survivors(game)
        /\ Survivors(game)' = Survivors(game) \ {game.current}
    BY <1>3 DEF Leaves, Game!Undecided, NoOne, Survivors
  <2>2. CASE Survivors(game') = {game'.winner} /\ game'.current = game.current
    <3>1. game'.winner \in 1 .. N
      BY <2>2 DEF Survivors, Player
    <3>2. Survivors(game)' = {game'.winner}
      BY <2>2 DEF Survivors
    <3>3. Game!Leave
      BY <2>1, <2>2, <3>1, <3>2 DEF Game!Leave
    <3> QED BY <3>3 DEF Game!Next
  <2>3. CASE /\ ~ \E w \in Player : Survivors(game') = {w}
             /\ game'.winner = NoOne
             /\ game'.current = NextActive(game', game.current)
    <3>1. ~ \E w \in 1 .. N : Survivors(game)' = {w}
      BY <2>3 DEF Survivors, Player
    <3>2. game'.current = Game!Successor(Survivors(game)', game.current)
      BY <2>3, SuccessorIsNextActive DEF Survivors
    <3>3. game'.winner = game.winner
      BY <2>1, <2>3 DEF Game!Undecided, NoOne
    <3>4. Game!Leave
      BY <2>1, <3>1, <3>2, <3>3 DEF Game!Leave
    <3> QED BY <3>4 DEF Game!Next
  <2> QED BY <1>3, <2>2, <2>3 DEF Leaves
<1> QED BY <1>1, <1>2, <1>3 DEF Continues

\* The engine implements the game of elimination.
THEOREM EnginePlaysElimination == Spec => PlaysElimination
<1>1. Init => Game!Init
  BY InitRefines
<1>2. Sound(game) /\ [Next]_game => [Game!Next]_Game!vars
  BY StepContinues, StepRefines
<1> QED BY <1>1, <1>2, SpecSound, PTL DEF Spec, PlaysElimination, Game!Spec
=============================================================================
