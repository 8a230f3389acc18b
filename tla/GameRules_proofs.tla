-------------------------- MODULE GameRules_proofs --------------------------
(***************************************************************************)
(* The rules of modules GameRules, Dealings and Estate keep the schema and *)
(* respect the table: who is out, whose turn it is, and how the game       *)
(* stands.                                                                 *)
(***************************************************************************)
EXTENDS Dealings, Estate, FiniteSetTheorems, WellFoundedInduction, TLAPS

-----------------------------------------------------------------------------
(***************************************************************************)
(* The operators of GameState: least elements, the survivors, sums over    *)
(* players and squares                                                     *)
(***************************************************************************)

\* Every nonempty set of naturals has a least element.
LEMMA NatHasLeast ==
  ASSUME NEW T, T \subseteq Nat, T # {}
  PROVE  \E m \in T : \A k \in T : m <= k
<1> DEFINE R == {ss \in Nat \X Nat : ss[1] < ss[2]}
<1>1. IsWellFoundedOn(R, Nat)
  BY NatLessThanWellFounded DEF OpToRel
<1>2. PICK m \in T : \A k \in T : ~ (<<k, m>> \in R)
  <2> HIDE DEF R
  <2> QED BY <1>1, WFMin
<1>3. \A k \in T : m <= k
  <2> SUFFICES ASSUME NEW k \in T PROVE m <= k
    OBVIOUS
  <2>1. k \in Nat /\ m \in Nat
    OBVIOUS
  <2>2. ~ (k < m)
    BY <1>2, <2>1
  <2> QED BY <2>1, <2>2
<1> QED BY <1>3

\* Least picks it: the first survivor found is a survivor.
LEMMA LeastIsMember ==
  ASSUME NEW T, T \subseteq Nat, T # {}
  PROVE  /\ Least(T) \in T
         /\ \A k \in T : Least(T) <= k
  BY NatHasLeast DEF Least

\* The recurrence that SumTo sums by has a solution.
LEMMA SumExists ==
  ASSUME NEW n \in Nat, NEW x \in [1 .. n -> Int]
  PROVE  \E f : f = [i \in 0 .. n |-> IF i = 0 THEN 0 ELSE f[i - 1] + x[i]]
<1> DEFINE Summable(k) ==
      \E f : f = [i \in 0 .. k |-> IF i = 0 THEN 0 ELSE f[i - 1] + x[i]]
<1> DEFINE Bad == {k \in 0 .. n : ~ Summable(k)}
<1>1. Summable(0)
  <2> DEFINE f == [i \in 0 .. 0 |-> 0]
  <2>1. f = [i \in 0 .. 0 |-> IF i = 0 THEN 0 ELSE f[i - 1] + x[i]]
    OBVIOUS
  <2> QED BY <2>1
<1>2. ASSUME NEW k \in 1 .. n, Summable(k - 1) PROVE Summable(k)
  <2>1. PICK f : f = [i \in 0 .. k - 1 |-> IF i = 0 THEN 0 ELSE f[i - 1] + x[i]]
    BY <1>2
  <2> DEFINE g == [i \in 0 .. k |-> IF i = k THEN f[k - 1] + x[k] ELSE f[i]]
  <2>2. ASSUME NEW i \in 0 .. k
        PROVE  g[i] = IF i = 0 THEN 0 ELSE g[i - 1] + x[i]
    <3>1. CASE i = k
      BY <3>1
    <3>2. CASE i # k
      <4>1. i \in 0 .. k - 1
        BY <3>2
      <4>2. f[i] = IF i = 0 THEN 0 ELSE f[i - 1] + x[i]
        BY <2>1, <4>1
      <4> QED BY <3>2, <4>1, <4>2
    <3> QED BY <3>1, <3>2
  <2>3. g = [i \in 0 .. k |-> IF i = 0 THEN 0 ELSE g[i - 1] + x[i]]
    BY <2>2
  <2> QED BY <2>3
<1> HIDE DEF Summable
<1>3. Bad = {}
  <2> SUFFICES ASSUME Bad # {} PROVE FALSE
    OBVIOUS
  <2>1. Bad \subseteq Nat
    OBVIOUS
  <2>2. PICK k \in Bad : \A j \in Bad : k <= j
    <3> HIDE DEF Bad
    <3> QED BY <2>1, NatHasLeast
  <2>3. k # 0
    BY <1>1
  <2>4. k \in 1 .. n /\ k - 1 \in 0 .. n /\ k - 1 \notin Bad
    BY <2>2, <2>3
  <2>5. Summable(k - 1)
    BY <2>4
  <2> QED BY <1>2, <2>4, <2>5
<1>4. Summable(n)
  BY <1>3
<1> QED BY <1>4 DEF Summable

\* A sum of integers is an integer.
LEMMA SumToInt ==
  ASSUME NEW n \in Nat, NEW x \in [1 .. n -> Int]
  PROVE  SumTo(x, n) \in Int
<1> DEFINE total == CHOOSE f : f = [i \in 0 .. n |-> IF i = 0 THEN 0 ELSE f[i - 1] + x[i]]
<1> DEFINE Bad == {k \in 0 .. n : total[k] \notin Int}
<1>1. total = [i \in 0 .. n |-> IF i = 0 THEN 0 ELSE total[i - 1] + x[i]]
  BY SumExists
<1>2. SumTo(x, n) = total[n]
  BY DEF SumTo
<1> HIDE DEF total
<1>3. Bad = {}
  <2> SUFFICES ASSUME Bad # {} PROVE FALSE
    OBVIOUS
  <2>1. Bad \subseteq Nat
    OBVIOUS
  <2>2. PICK k \in Bad : \A j \in Bad : k <= j
    <3> HIDE DEF Bad
    <3> QED BY <2>1, NatHasLeast
  <2>3. total[k] = IF k = 0 THEN 0 ELSE total[k - 1] + x[k]
    BY <1>1, <2>2
  <2>4. k # 0 => k - 1 \in 0 .. n /\ k - 1 \notin Bad
    BY <2>2
  <2> QED BY <2>2, <2>3, <2>4
<1> QED BY <1>2, <1>3

\* f[i] is the sum of the first i terms of x.
PartialSums(f, x, n) ==
  /\ SumTo(x, n) = f[n]
  /\ f[0] = 0
  /\ \A i \in 1 .. n : f[i] = f[i - 1] + x[i]
  /\ \A i \in 0 .. n : f[i] \in Int

\* The partial sums that lead to a sum.
LEMMA SumUnfolds ==
  ASSUME NEW n \in Nat, NEW x \in [1 .. n -> Int]
  PROVE  \E f : PartialSums(f, x, n)
<1> DEFINE f == CHOOSE h : h = [i \in 0 .. n |-> IF i = 0 THEN 0 ELSE h[i - 1] + x[i]]
<1>1. f = [i \in 0 .. n |-> IF i = 0 THEN 0 ELSE f[i - 1] + x[i]]
  BY SumExists
<1>2. SumTo(x, n) = f[n]
  BY DEF SumTo
<1> HIDE DEF f
<1>3. f[0] = 0 /\ \A i \in 1 .. n : f[i] = f[i - 1] + x[i]
  BY <1>1
<1> DEFINE Bad == {k \in 0 .. n : f[k] \notin Int}
<1>4. Bad = {}
  <2> SUFFICES ASSUME Bad # {} PROVE FALSE
    OBVIOUS
  <2>1. Bad \subseteq Nat
    OBVIOUS
  <2>2. PICK k \in Bad : \A j \in Bad : k <= j
    <3> HIDE DEF Bad
    <3> QED BY <2>1, NatHasLeast
  <2>3. k # 0
    BY <1>3, <2>2
  <2>4. k \in 1 .. n /\ k - 1 \in 0 .. n /\ k - 1 \notin Bad
    BY <2>2, <2>3
  <2> QED BY <1>3, <2>2, <2>4
<1>5. PartialSums(f, x, n)
  BY <1>2, <1>3, <1>4 DEF PartialSums
<1> QED BY <1>5

\* d[i] is how far the first i terms of y exceed those of x.
Exceeds(d, x, y, n) ==
  d[0] = 0 /\ \A i \in 1 .. n : y[i] - x[i] = d[i] - d[i - 1]

\* Two sums differ by what their terms differ by, all told.
LEMMA SumsDiffer ==
  ASSUME NEW n \in Nat, NEW x \in [1 .. n -> Int], NEW y \in [1 .. n -> Int],
         NEW d \in [0 .. n -> Int], Exceeds(d, x, y, n)
  PROVE  SumTo(y, n) = SumTo(x, n) + d[n]
<1>1. PICK f : PartialSums(f, x, n)
  BY SumUnfolds
<1>2. PICK g : PartialSums(g, y, n)
  BY SumUnfolds
<1> DEFINE Bad == {k \in 0 .. n : g[k] # f[k] + d[k]}
<1>3. f[0] = 0 /\ g[0] = 0 /\ d[0] = 0
  BY <1>1, <1>2 DEF PartialSums, Exceeds
<1>4. Bad = {}
  <2> SUFFICES ASSUME Bad # {} PROVE FALSE
    OBVIOUS
  <2>1. Bad \subseteq Nat
    OBVIOUS
  <2>2. PICK k \in Bad : \A j \in Bad : k <= j
    <3> HIDE DEF Bad
    <3> QED BY <2>1, NatHasLeast
  <2>3. k # 0
    BY <1>3, <2>2
  <2>4. k \in 1 .. n /\ k - 1 \in 0 .. n /\ k - 1 \notin Bad
    BY <2>2, <2>3
  <2> DEFINE a == f[k - 1]
             b == d[k - 1]
             c == d[k]
             u == x[k]
             v == y[k]
  <2>5. g[k - 1] = a + b /\ v - u = c - b /\ g[k] = g[k - 1] + v /\ f[k] = a + u
    BY <1>1, <1>2, <2>4 DEF PartialSums, Exceeds
  <2>6. a \in Int /\ b \in Int /\ c \in Int /\ u \in Int /\ v \in Int
    BY <1>1, <2>4 DEF PartialSums
  <2> HIDE DEF a, b, c, u, v, Bad
  <2>7. a + b + v = a + u + c
    BY <2>5, <2>6
  <2>8. g[k] = f[k] + d[k]
    BY <2>5, <2>7 DEF c
  <2> QED BY <2>2, <2>8 DEF Bad
<1>5. n \in 0 .. n
  OBVIOUS
<1> QED BY <1>1, <1>2, <1>4, <1>5 DEF PartialSums

\* A new value for one term changes the sum by as much.
LEMMA SumUpdated ==
  ASSUME NEW n \in Nat, NEW x \in [1 .. n -> Int], NEW p \in 1 .. n, NEW v \in Int
  PROVE  SumTo([x EXCEPT ![p] = v], n) = SumTo(x, n) + (v - x[p])
<1> DEFINE y == [x EXCEPT ![p] = v]
           d == [i \in 0 .. n |-> IF i < p THEN 0 ELSE v - x[p]]
<1>1. y \in [1 .. n -> Int] /\ d \in [0 .. n -> Int] /\ d[0] = 0 /\ d[n] = v - x[p]
  OBVIOUS
<1>2. ASSUME NEW i \in 1 .. n PROVE y[i] - x[i] = d[i] - d[i - 1]
  <2>1. i \in 0 .. n /\ i - 1 \in 0 .. n
    OBVIOUS
  <2>2. CASE i = p
    BY <2>1, <2>2
  <2>3. CASE i # p
    BY <2>1, <2>3
  <2> QED BY <2>2, <2>3
<1> HIDE DEF y, d
<1>3. SumTo(y, n) = SumTo(x, n) + d[n]
  BY <1>1, <1>2, SumsDiffer DEF Exceeds
<1> QED BY <1>1, <1>3 DEF y

-----------------------------------------------------------------------------
(***************************************************************************)
(* What every step of a rule that neither passes the turn nor eliminates   *)
(* a player leaves alone, besides staying within the schema.               *)
(***************************************************************************)
Table(g) == <<g.out, g.current, g.status, g.winner, g.strikes>>

Kept(g, h) == h \in GameDoc /\ Table(h) = Table(g)

\* Steps that keep the table add up.
LEMMA KeptIsTransitive ==
  ASSUME NEW f, NEW g, NEW h, Kept(f, g), Kept(g, h)
  PROVE  Kept(f, h)
  BY DEF Kept

\* Doing nothing keeps the table.
LEMMA KeptIsReflexive ==
  ASSUME NEW g \in GameDoc
  PROVE  Kept(g, g)
  BY DEF Kept

\* The parts of GameAssumption that most proofs need.
LEMMA Sizes ==
  /\ N \in Nat /\ N >= 2
  /\ Size \in Nat /\ Size >= 1
  /\ JailSquare \in Square
  /\ StartSquare \in Square
  /\ DoublesLimit \in Nat /\ DoublesLimit >= 1
  /\ JailTurns \in Nat /\ JailTurns >= 1
  /\ MaxStrikes \in Nat /\ MaxStrikes >= 1
  /\ MaxOffers \in Nat
  /\ HotelLevel \in Nat /\ HotelLevel >= 1
<1>1. /\ N \in Nat /\ N >= 2
      /\ Size \in Nat \ {0}
      /\ JailSquare \in Square
      /\ DoublesLimit \in Nat \ {0}
      /\ JailTurns \in Nat \ {0}
      /\ MaxStrikes \in Nat \ {0}
      /\ MaxOffers \in Nat
      /\ HotelLevel \in Nat \ {0}
  BY GameAssumption
<1>2. StartSquare \in Square
  BY <1>1 DEF StartSquare, Square
<1> QED BY <1>1, <1>2

\* A document stays in the schema, and the table as it is, when one of the other
\* fields gets a value of its type.
LEMMA SetBalance ==
  ASSUME NEW g \in GameDoc, NEW b \in [Player -> Int]
  PROVE  Kept(g, [g EXCEPT !.balance = b])
  BY DEF Kept, Table, GameDoc

\* A phase of the protocol keeps the document in the schema.
LEMMA SetPhase ==
  ASSUME NEW g \in GameDoc, NEW ph \in Phases
  PROVE  Kept(g, [g EXCEPT !.phase = ph])
  BY DEF Kept, Table, GameDoc

\* So does a pending square, or none,
LEMMA SetPending ==
  ASSUME NEW g \in GameDoc, NEW s \in 0 .. Size
  PROVE  Kept(g, [g EXCEPT !.pending = s])
  BY DEF Kept, Table, GameDoc

\* and an open debt, or none.
LEMMA SetDebt ==
  ASSUME NEW g \in GameDoc, NEW d \in Debt \cup {NoDebt}
  PROVE  Kept(g, [g EXCEPT !.debt = d])
  BY DEF Kept, Table, GameDoc

-----------------------------------------------------------------------------
(***************************************************************************)
(* Payments                                                                *)
(***************************************************************************)

\* A transfer changes balances only.
LEMMA TransferFundsKept ==
  ASSUME NEW g \in GameDoc, NEW p, NEW c, NEW n \in Int
  PROVE  Kept(g, TransferFunds(g, p, c, n))
<1> DEFINE b == [q \in Player |-> g.balance[q] - (IF q = p THEN n ELSE 0)
                                               + (IF q = c THEN n ELSE 0)]
<1>1. b \in [Player -> Int]
  BY DEF GameDoc
<1> HIDE DEF b
<1>2. Kept(g, [g EXCEPT !.balance = b])
  BY <1>1, SetBalance
<1> QED BY <1>2 DEF b, TransferFunds

\* A payment that fails opens a debt and eliminates nobody.
LEMMA AttemptPaymentKept ==
  ASSUME NEW g \in GameDoc, NEW p \in Player, NEW n \in Int, NEW c \in 0 .. N
  PROVE  Kept(g, AttemptPayment(g, p, n, c))
<1>1. CASE n <= 0
  BY <1>1, KeptIsReflexive DEF AttemptPayment
<1>2. CASE n > 0 /\ g.balance[p] >= n
  <2>1. g.balance[p] \in Int
    BY DEF GameDoc
  <2>2. AttemptPayment(g, p, n, c) = TransferFunds(g, p, c, n)
    BY <1>2, <2>1 DEF AttemptPayment
  <2> QED BY <2>2, TransferFundsKept
<1>3. CASE n > 0 /\ ~ (g.balance[p] >= n) /\ g.debt # NoDebt
  <2>1. g.balance[p] \in Int
    BY DEF GameDoc
  <2>2. AttemptPayment(g, p, n, c) = g
    BY <1>3, <2>1 DEF AttemptPayment
  <2> QED BY <2>2, KeptIsReflexive
<1>4. CASE n > 0 /\ ~ (g.balance[p] >= n) /\ g.debt = NoDebt
  <2>1. AttemptPayment(g, p, n, c) = OweDebt(g, p, n, c)
    BY <1>4 DEF AttemptPayment
  <2> DEFINE d == [debtor |-> p, creditor |-> c, owed |-> n]
  <2>2. d \in Debt
    BY <1>4 DEF Debt, Player
  <2>3. "bankrupt_resolution" \in Phases
    BY DEF Phases
  <2> HIDE DEF d
  <2>4. Kept(g, [g EXCEPT !.debt = d, !.phase = "bankrupt_resolution"])
    BY <2>2, <2>3 DEF Kept, Table, GameDoc
  <2> QED BY <2>1, <2>4 DEF d, OweDebt
<1> QED BY <1>1, <1>2, <1>3, <1>4

\* Settling a debt pays it and closes it, and nothing else.
LEMMA TrySettleDebtKept ==
  ASSUME NEW g \in GameDoc
  PROVE  Kept(g, TrySettleDebt(g))
<1>1. CASE g.debt # NoDebt /\ g.balance[g.debt.debtor] >= g.debt.owed
  <2> DEFINE h == TransferFunds(g, g.debt.debtor, g.debt.creditor, g.debt.owed)
  <2>1. g.debt.owed \in Int
    BY DEF GameDoc, Debt, NoDebt
  <2>2. Kept(g, h)
    BY <2>1, TransferFundsKept
  <2>3. TrySettleDebt(g) = [h EXCEPT !.debt = NoDebt, !.phase = "post_roll"]
    BY <1>1 DEF TrySettleDebt
  <2> HIDE DEF h
  <2>4. Kept(h, [h EXCEPT !.debt = NoDebt, !.phase = "post_roll"])
    <3>1. "post_roll" \in Phases /\ h \in GameDoc
      BY <2>2 DEF Phases, Kept
    <3> QED BY <3>1 DEF Kept, Table, GameDoc
  <2> QED BY <2>2, <2>3, <2>4, KeptIsTransitive
<1>2. CASE ~ (g.debt # NoDebt /\ g.balance[g.debt.debtor] >= g.debt.owed)
  BY <1>2, KeptIsReflexive DEF TrySettleDebt
<1> QED BY <1>1, <1>2

-----------------------------------------------------------------------------
(***************************************************************************)
(* The turn and the end of the game                                        *)
(***************************************************************************)

\* How the game stands: whose turn it is decides whether it goes on, one
\* survivor decides it, and missed turns are counted below the limit.
TableOK(g) ==
  /\ g.status = "in_progress" <=> g.current \notin g.out
  /\ g.status = "finished" <=> \E w \in Player : Survivors(g) = {w}
  /\ g.status = "finished" => Survivors(g) = {g.winner}
  /\ g.status = "in_progress" => g.winner = NoOne
  /\ \A p \in Player : g.strikes[p] >= MaxStrikes => p \in g.out

Sound(g) == g \in GameDoc /\ TableOK(g)

\* A step that keeps the table keeps the game sound.
LEMMA KeptIsSound ==
  ASSUME NEW g, NEW h, Sound(g), Kept(g, h)
  PROVE  Sound(h)
  BY DEF Sound, Kept, Table, TableOK, Survivors

\* The next player found by the search around the table is a survivor.
LEMMA NextActiveSurvives ==
  ASSUME NEW g, NEW p, Survivors(g) # {}
  PROVE  NextActive(g, p) \in Survivors(g)
<1>1. Survivors(g) \subseteq Nat
  BY Sizes DEF Survivors, Player
<1>2. CASE \E q \in Survivors(g) : q > p
  <2> DEFINE later == {q \in Survivors(g) : q > p}
  <2>1. later \subseteq Nat /\ later # {}
    BY <1>1, <1>2
  <2>2. Least(later) \in later
    BY <2>1, LeastIsMember
  <2> QED BY <1>2, <2>2 DEF NextActive
<1>3. CASE ~ \E q \in Survivors(g) : q > p
  BY <1>1, <1>3, LeastIsMember DEF NextActive
<1> QED BY <1>2, <1>3

\* A fresh turn names its player and leaves the rest of the table.
LEMMA StartTurnTyped ==
  ASSUME NEW g \in GameDoc, NEW p \in Player
  PROVE  /\ StartTurn(g, p) \in GameDoc
         /\ StartTurn(g, p).current = p
         /\ StartTurn(g, p).out = g.out
         /\ StartTurn(g, p).status = g.status
         /\ StartTurn(g, p).winner = g.winner
         /\ StartTurn(g, p).strikes = g.strikes
<1> DEFINE ph == IF g.jail[p] # 0 THEN "jail_decision" ELSE "pre_roll"
<1>1. ph \in Phases
  BY DEF Phases
<1>2. 0 \in 0 .. DoublesLimit - 1 /\ 0 \in 0 .. MaxOffers /\ NoSquare \in 0 .. Size
  BY Sizes DEF NoSquare
<1>3. StartTurn(g, p) =
        [g EXCEPT !.current = p, !.phase = ph, !.rolled = FALSE, !.streak = 0,
                  !.offers = 0, !.pending = NoSquare]
  BY DEF StartTurn
<1> DEFINE h == [g EXCEPT !.current = p, !.phase = ph, !.rolled = FALSE, !.streak = 0,
                        !.offers = 0, !.pending = NoSquare]
<1> HIDE DEF ph
<1>4. h \in GameDoc
  BY <1>1, <1>2 DEF GameDoc
<1>5. h.current = p /\ h.out = g.out /\ h.status = g.status
      /\ h.winner = g.winner /\ h.strikes = g.strikes
  BY DEF GameDoc
<1> HIDE DEF h
<1> QED BY <1>3, <1>4, <1>5 DEF h

\* A win check changes nothing in a sound document: the game was decided by the
\* command that left one survivor.
LEMMA CheckWinIdle ==
  ASSUME NEW g, Sound(g)
  PROVE  CheckWin(g) = g
  BY DEF Sound, TableOK, CheckWin, GameDoc

\* Passing the turn to any survivor keeps the game sound.
LEMMA StartTurnSound ==
  ASSUME NEW g, Sound(g), g.status = "in_progress", NEW p \in Survivors(g)
  PROVE  Sound(StartTurn(g, p))
<1>1. g \in GameDoc /\ p \in Player /\ p \notin g.out
  BY DEF Sound, Survivors
<1> QED BY <1>1, StartTurnTyped DEF Sound, TableOK, Survivors

\* The turn goes to the next survivor: the other step of the game of elimination.
Passes(g, h) ==
  /\ g.winner = NoOne
  /\ h.winner = NoOne
  /\ h.out = g.out
  /\ h.current = NextActive(g, g.current)

\* A fresh turn for the next survivor passes the turn.
LEMMA StartTurnPasses ==
  ASSUME NEW g, Sound(g), g.status = "in_progress", NextActive(g, g.current) \in Player
  PROVE  Passes(g, StartTurn(g, NextActive(g, g.current)))
  BY StartTurnTyped DEF Sound, TableOK, Passes

\* Whoever the search finds, the next turn is sound.
LEMMA AdvanceTurnSound ==
  ASSUME NEW g, Sound(g), g.status = "in_progress"
  PROVE  LET h == AdvanceTurnOff(g, g.current) IN Sound(h) /\ Passes(g, h)
<1>1. g.current \in Survivors(g)
  BY DEF Sound, TableOK, Survivors, GameDoc
<1> DEFINE q == NextActive(g, g.current)
<1>2. q \in Survivors(g)
  BY <1>1, NextActiveSurvives
<1>3. AdvanceTurnOff(g, g.current) = StartTurn(g, q)
  BY <1>1 DEF AdvanceTurnOff
<1> HIDE DEF q
<1>4. g \in GameDoc /\ q \in Player
  BY <1>2 DEF Sound, Survivors
<1> QED BY <1>2, <1>3, <1>4, StartTurnSound, StartTurnPasses DEF q

\* A game that the turn holder has just left, before anything is said about it.
Bereft(g) ==
  /\ g \in GameDoc
  /\ g.status = "in_progress"
  /\ g.winner = NoOne
  /\ g.current \in g.out
  /\ Survivors(g) # {}
  /\ \A p \in Player : g.strikes[p] >= MaxStrikes => p \in g.out

\* What becomes of it: the last survivor wins, or the first survivor after the
\* one who left is to move.
Departed(g, h) ==
  /\ h.out = g.out
  /\ \/ Survivors(g) = {h.winner} /\ h.current = g.current
     \/ /\ ~ \E w \in Player : Survivors(g) = {w}
        /\ h.winner = NoOne
        /\ h.current = NextActive(g, g.current)

\* What the win check and the passing of the turn make of a bereft game.
Sequel(g) ==
  IF CheckWin(g).status = "finished" THEN CheckWin(g)
  ELSE AdvanceTurnOff(CheckWin(g), g.current)

\* After the win check and the passing of the turn the game is sound again.
LEMMA DepartureSound ==
  ASSUME NEW g, Bereft(g)
  PROVE  Sound(Sequel(g)) /\ Departed(g, Sequel(g))
<1>1. CASE \E w \in Player : Survivors(g) = {w}
  <2> DEFINE w == CHOOSE v \in Player : Survivors(g) = {v}
  <2>1. w \in Player /\ Survivors(g) = {w}
    BY <1>1
  <2>2. CheckWin(g) = [g EXCEPT !.status = "finished", !.winner = w, !.phase = "game_over"]
    BY <1>1 DEF CheckWin, Bereft
  <2> HIDE DEF w
  <2>3. w \in 0 .. N /\ "game_over" \in Phases
    BY <2>1, Sizes DEF Player, Phases
  <2> DEFINE h == [g EXCEPT !.status = "finished", !.winner = w, !.phase = "game_over"]
  <2>4. h \in GameDoc
    BY <2>3 DEF Bereft, GameDoc
  <2>5. /\ h.status = "finished" /\ h.winner = w /\ h.out = g.out
        /\ h.current = g.current /\ h.strikes = g.strikes
    BY DEF Bereft, GameDoc
  <2> HIDE DEF h
  <2>6. Sound(h)
    BY <2>1, <2>4, <2>5 DEF Sound, TableOK, Survivors, Bereft
  <2>7. Departed(g, h)
    BY <2>1, <2>5 DEF Departed
  <2> QED BY <2>2, <2>5, <2>6, <2>7 DEF h, Sequel
<1>2. CASE ~ \E w \in Player : Survivors(g) = {w}
  <2>1. CheckWin(g) = g /\ g.status = "in_progress"
    BY <1>2 DEF CheckWin, Bereft
  <2> DEFINE q == NextActive(g, g.current)
  <2>2. q \in Survivors(g)
    BY NextActiveSurvives DEF Bereft
  <2>3. AdvanceTurnOff(g, g.current) = StartTurn(g, q)
    BY DEF AdvanceTurnOff, Bereft
  <2> HIDE DEF q
  <2>4. q \in Player /\ q \notin g.out
    BY <2>2 DEF Survivors
  <2> DEFINE h == StartTurn(g, q)
  <2>5. h \in GameDoc /\ h.current = q /\ h.out = g.out /\ h.status = "in_progress"
        /\ h.winner = NoOne /\ h.strikes = g.strikes
    BY <2>4, StartTurnTyped DEF Bereft
  <2> HIDE DEF h
  <2>6. Sound(h)
    BY <1>2, <2>4, <2>5 DEF Sound, TableOK, Survivors, Bereft
  <2>7. Departed(g, h)
    BY <1>2, <2>5 DEF Departed, q
  <2> QED BY <2>1, <2>3, <2>6, <2>7 DEF h, Sequel
<1> QED BY <1>1, <1>2

-----------------------------------------------------------------------------
(***************************************************************************)
(* Elimination                                                             *)
(***************************************************************************)

\* A document like g, but for the players that are out.
EliminateTyped(g, p, h) ==
  /\ h \in GameDoc
  /\ h.out = g.out \cup {p}
  /\ h.current = g.current /\ h.status = g.status
  /\ h.winner = g.winner /\ h.strikes = g.strikes

\* Elimination takes one player out and leaves the turn and the outcome.
LEMMA EliminateLeaves ==
  ASSUME NEW g \in GameDoc, NEW p \in Player
  PROVE  EliminateTyped(g, p, Eliminate(g, p))
<1> DEFINE b == [g.balance EXCEPT ![p] = 0]
           o == [g.owned EXCEPT ![p] = {}]
           c == [g.cards EXCEPT ![p] = 0]
           j == [g.jail EXCEPT ![p] = 0]
           u == g.out \cup {p}
           h == [g EXCEPT !.balance = b, !.owned = o, !.cards = c, !.jail = j, !.out = u]
<1>1. b \in [Player -> Int] /\ o \in [Player -> SUBSET Square]
      /\ c \in [Player -> Nat] /\ j \in [Player -> 0 .. JailTurns]
      /\ u \in SUBSET Player
  BY Sizes DEF GameDoc
<1>2. Eliminate(g, p) = h
  BY DEF Eliminate
<1> HIDE DEF b, o, c, j, u
<1>3. h \in GameDoc
  BY <1>1 DEF GameDoc
<1>4. h.out = u /\ h.current = g.current /\ h.status = g.status
      /\ h.winner = g.winner /\ h.strikes = g.strikes
  BY DEF GameDoc
<1> HIDE DEF h
<1> QED BY <1>2, <1>3, <1>4 DEF EliminateTyped, u

\* Estate that goes back to the bank stays within the schema.
LEMMA ReturnToBankKept ==
  ASSUME NEW g \in GameDoc, NEW p \in Player
  PROVE  Kept(g, ReturnToBank(g, p))
<1> DEFINE o == [s \in Square |-> IF s \in g.owned[p] THEN NoOne ELSE g.owner[s]]
           m == g.mortgaged \ g.owned[p]
           l == [s \in Square |-> IF s \in g.owned[p] THEN 0 ELSE g.level[s]]
           k == [d \in Decks |-> g.deck[d] + g.cards[p]]
<1>1. o \in [Square -> 0 .. N]
  BY Sizes DEF GameDoc, NoOne
<1>2. m \in SUBSET Square
  BY DEF GameDoc
<1>3. l \in [Square -> 0 .. HotelLevel]
  BY Sizes DEF GameDoc
<1>4. k \in [Decks -> Nat]
  BY DEF GameDoc
<1>5. ReturnToBank(g, p) = [g EXCEPT !.owner = o, !.mortgaged = m, !.level = l, !.deck = k]
  BY DEF ReturnToBank
<1> HIDE DEF o, m, l, k
<1> DEFINE h == [g EXCEPT !.owner = o, !.mortgaged = m, !.level = l, !.deck = k]
<1>6. h \in GameDoc
  BY <1>1, <1>2, <1>3, <1>4 DEF GameDoc
<1>7. Table(h) = Table(g)
  BY DEF Table, GameDoc
<1> QED BY <1>5, <1>6, <1>7 DEF Kept

\* Counting buildings gives integers.
LEMMA BuildingsAreInt ==
  ASSUME NEW g \in GameDoc, NEW S \in SUBSET Square
  PROVE  Houses(g, S) \in Int /\ Cardinality(Hotels(g, S)) \in Nat
<1>1. IsFiniteSet(Hotels(g, S))
  <2>1. IsFiniteSet(Square)
    BY Sizes, FS_Interval DEF Square
  <2> QED BY <2>1, FS_Subset DEF Hotels
<1> DEFINE x == [s \in Square |-> IF s \in S \ Hotels(g, S) THEN g.level[s] ELSE 0]
<1>2. x \in [1 .. Size -> Int]
  BY Sizes DEF GameDoc, Square
<1>3. Houses(g, S) = SumTo(x, Size)
  BY DEF Houses
<1> HIDE DEF x
<1>4. SumTo(x, Size) \in Int
  BY <1>2, Sizes, SumToInt
<1> QED BY <1>1, <1>3, <1>4, FS_CardinalityType

\* So do the buildings that go back to the bank's stock,
LEMMA RestoreStockKept ==
  ASSUME NEW g \in GameDoc, NEW p \in Player
  PROVE  Kept(g, RestoreStock(g, p))
<1> DEFINE a == g.houses + Houses(g, g.owned[p])
           b == g.hotels + Cardinality(Hotels(g, g.owned[p]))
<1>1. g.owned[p] \in SUBSET Square /\ g.houses \in Int /\ g.hotels \in Int
  BY DEF GameDoc
<1>2. a \in Int /\ b \in Int
  BY <1>1, BuildingsAreInt
<1>3. RestoreStock(g, p) = [g EXCEPT !.houses = a, !.hotels = b]
  BY DEF RestoreStock
<1> HIDE DEF a, b
<1>4. [g EXCEPT !.houses = a, !.hotels = b] \in GameDoc
  BY <1>2 DEF GameDoc
<1>5. Table([g EXCEPT !.houses = a, !.hotels = b]) = Table(g)
  BY DEF Table, GameDoc
<1> QED BY <1>3, <1>4, <1>5 DEF Kept

\* and the estate that goes to a creditor, who may end up overdrawn.
LEMMA TransferToCreditorKept ==
  ASSUME NEW g \in GameDoc, NEW d \in Player, NEW c \in 0 .. N
  PROVE  Kept(g, TransferToCreditor(g, d, c))
<1> DEFINE cash == IF g.balance[d] <= g.debt.owed THEN g.balance[d] ELSE g.debt.owed
           fees == TransferFee * Cardinality(g.owned[d] \cap g.mortgaged)
           b == [g.balance EXCEPT ![c] = @ + cash - fees]
           o == [s \in Square |-> IF s \in g.owned[d] THEN c ELSE g.owner[s]]
           l == [g.owned EXCEPT ![c] = @ \cup g.owned[d]]
           k == [g.cards EXCEPT ![c] = @ + g.cards[d]]
<1>1. cash \in Int
  BY DEF GameDoc, Debt, NoDebt
<1>2. fees \in Int
  <2>1. IsFiniteSet(Square)
    BY Sizes, FS_Interval DEF Square
  <2>2. IsFiniteSet(g.owned[d] \cap g.mortgaged)
    BY <2>1, FS_Subset DEF GameDoc
  <2>3. Cardinality(g.owned[d] \cap g.mortgaged) \in Nat /\ TransferFee \in Nat
    BY <2>2, FS_CardinalityType, GameAssumption
  <2> QED BY <2>3
<1>3. TransferToCreditor(g, d, c) =
        [g EXCEPT !.balance = b, !.owner = o, !.owned = l, !.cards = k]
  BY DEF TransferToCreditor
<1> HIDE DEF cash, fees
<1>4. /\ g.balance \in [Player -> Int]
      /\ g.owned \in [Player -> SUBSET Square]
      /\ g.cards \in [Player -> Nat]
      /\ g.owner \in [Square -> 0 .. N]
  BY DEF GameDoc
<1>5. b \in [Player -> Int] /\ k \in [Player -> Nat]
  <2>1. CASE c \in Player
    <3>1. g.balance[c] + cash - fees \in Int
      BY <1>1, <1>2, <1>4, <2>1
    <3>2. g.cards[c] + g.cards[d] \in Nat
      BY <1>4, <2>1
    <3> QED BY <1>4, <3>1, <3>2
  <2>2. CASE c \notin Player
    <3>1. b = g.balance /\ k = g.cards
      BY <1>4, <2>2
    <3> QED BY <1>4, <3>1
  <2> QED BY <2>1, <2>2
<1>6. o \in [Square -> 0 .. N] /\ l \in [Player -> SUBSET Square]
  BY <1>4
<1> HIDE DEF b, o, l, k
<1> DEFINE h == [g EXCEPT !.balance = b, !.owner = o, !.owned = l, !.cards = k]
<1>7. h \in GameDoc
  BY <1>5, <1>6 DEF GameDoc
<1>8. Table(h) = Table(g)
  BY DEF Table, GameDoc
<1> QED BY <1>3, <1>7, <1>8 DEF Kept

\* A game going on, with a missed turn of its turn holder already counted.
Playing(g) ==
  /\ g \in GameDoc
  /\ g.status = "in_progress"
  /\ g.winner = NoOne
  /\ g.current \notin g.out
  /\ ~ \E w \in Player : Survivors(g) = {w}
  /\ \A p \in Player \ {g.current} : g.strikes[p] >= MaxStrikes => p \in g.out

\* A sound game whose turn holder is still in it goes on.
LEMMA SoundIsPlaying ==
  ASSUME NEW g, Sound(g), g.current \notin g.out
  PROVE  Playing(g)
  BY DEF Sound, TableOK, Playing

\* Somebody is left when the turn holder goes.
LEMMA LeavingBereaves ==
  ASSUME NEW g, Playing(g), NEW h, EliminateTyped(g, g.current, h)
  PROVE  Bereft(h)
<1>1. g.current \in Survivors(g)
  BY DEF Playing, GameDoc, Survivors
<1>2. Survivors(g) # {g.current} /\ g.current \in Player
  BY <1>1 DEF Playing, Survivors
<1>3. Survivors(h) = Survivors(g) \ {g.current}
  BY DEF EliminateTyped, Survivors
<1>4. Survivors(h) # {}
  BY <1>1, <1>2, <1>3
<1> QED BY <1>4 DEF Bereft, Playing, EliminateTyped

\* The turn holder leaves the game: one step of the game of elimination.
Leaves(g, h) ==
  /\ g.winner = NoOne
  /\ g.current \in Survivors(g)
  /\ Survivors(h) = Survivors(g) \ {g.current}
  /\ \/ Survivors(h) = {h.winner} /\ h.current = g.current
     \/ /\ ~ \E w \in Player : Survivors(h) = {w}
        /\ h.winner = NoOne
        /\ h.current = NextActive(h, g.current)

\* With the turn holder eliminated, the rest of the rule is a step of the game of
\* elimination.
LEMMA DepartureLeaves ==
  ASSUME NEW g, Playing(g), NEW h, EliminateTyped(g, g.current, h)
  PROVE  Sound(Sequel(h)) /\ Leaves(g, Sequel(h))
<1> DEFINE k == Sequel(h)
<1>1. Bereft(h)
  BY LeavingBereaves
<1>2. Sound(k) /\ Departed(h, k)
  BY <1>1, DepartureSound
<1> HIDE DEF k
<1>3. h.current = g.current /\ h.out = g.out \cup {g.current}
  BY DEF EliminateTyped
<1>4. Survivors(k) = Survivors(h)
  BY <1>2 DEF Departed, Survivors
<1>5. NextActive(k, g.current) = NextActive(h, g.current)
  BY <1>4 DEF NextActive
<1>6. g.winner = NoOne /\ g.current \in Survivors(g)
  BY DEF Playing, GameDoc, Survivors
<1>7. Survivors(k) = Survivors(g) \ {g.current}
  BY <1>3, <1>4 DEF Survivors
<1>8. Leaves(g, k)
  BY <1>2, <1>3, <1>4, <1>5, <1>6, <1>7 DEF Leaves, Departed
<1> QED BY <1>2, <1>8 DEF k

\* Shares of the leaver's cash are whole amounts.
LEMMA CashShareIsInt ==
  ASSUME NEW g \in GameDoc, NEW p \in Player, NEW q \in Player
  PROVE  CashShare(g, p, q) \in Int
<1> DEFINE recipients == Survivors(g) \ {p}
           heads == Cardinality(recipients)
<1>1. CASE q \in recipients /\ g.balance[p] > 0
  <2>1. IsFiniteSet(recipients)
    <3>1. IsFiniteSet(Player)
      BY Sizes, FS_Interval DEF Player
    <3> QED BY <3>1, FS_Subset DEF Survivors
  <2>2. heads \in Nat /\ heads # 0
    BY <2>1, <1>1, FS_CardinalityType, FS_EmptySet
  <2>3. g.balance[p] \in Int
    BY DEF GameDoc
  <2> HIDE DEF heads
  <2>4. g.balance[p] \div heads \in Int
    BY <2>2, <2>3
  <2>5. CashShare(g, p, q) =
          (g.balance[p] \div heads)
            + (IF Cardinality({r \in recipients : r < q}) < g.balance[p] % heads
               THEN 1 ELSE 0)
    BY <1>1 DEF CashShare, heads
  <2> QED BY <2>4, <2>5
<1>2. CASE ~ (q \in recipients /\ g.balance[p] > 0)
  BY <1>2 DEF CashShare
<1> QED BY <1>1, <1>2

\* A surrender, the player's own or the scheduler's, leaves the game sound.
LEMMA ResolveSurrenderSound ==
  ASSUME NEW g, Playing(g)
  PROVE  Sound(ResolveSurrender(g, g.current)) /\ Leaves(g, ResolveSurrender(g, g.current))
<1> DEFINE p == g.current
           b == [q \in Player |-> g.balance[q] + CashShare(g, p, q)]
           shared == [g EXCEPT !.balance = b]
           stocked == RestoreStock(shared, p)
           returned == ReturnToBank(stocked, p)
           gone == Eliminate(returned, p)
<1>1. g \in GameDoc /\ p \in Player /\ p \notin g.out
  BY DEF Playing, GameDoc
<1>2. ResolveSurrender(g, p) = LeaveGame(gone, p)
  BY <1>1 DEF ResolveSurrender
<1>3. b \in [Player -> Int]
  BY <1>1, CashShareIsInt DEF GameDoc
<1> HIDE DEF b
<1>4. Kept(g, shared)
  BY <1>1, <1>3, SetBalance
<1> HIDE DEF shared
<1>5. Kept(shared, stocked)
  BY <1>1, <1>4, RestoreStockKept DEF Kept
<1> HIDE DEF stocked
<1>6. Kept(stocked, returned)
  BY <1>1, <1>5, ReturnToBankKept DEF Kept
<1> HIDE DEF returned
<1>7. EliminateTyped(returned, p, gone)
  BY <1>1, <1>6, EliminateLeaves DEF Kept
<1> HIDE DEF gone
<1>8. Kept(g, returned)
  BY <1>4, <1>5, <1>6, KeptIsTransitive
<1>9. EliminateTyped(g, g.current, gone)
  BY <1>7, <1>8 DEF Kept, Table, EliminateTyped
<1>10. Bereft(gone)
  BY <1>9, LeavingBereaves
<1>11. gone.current = p /\ CheckWin(gone).current = p
  <2>1. gone.current = p
    BY <1>9 DEF EliminateTyped
  <2>2. CheckWin(gone).current = gone.current
    BY <1>10 DEF CheckWin, Bereft, GameDoc
  <2> QED BY <2>1, <2>2
<1>12. LeaveGame(gone, p) = Sequel(gone)
  BY <1>11 DEF LeaveGame, Sequel
<1>13. Sound(Sequel(gone)) /\ Leaves(g, Sequel(gone))
  BY <1>9, <1>10, DepartureLeaves
<1> HIDE DEF p
<1> QED BY <1>2, <1>12, <1>13 DEF p

\* So does a bankruptcy of the turn holder; in a game that is over it changes
\* nobody's standing.
LEMMA ResolveBankruptcySound ==
  ASSUME NEW g, Sound(g)
  PROVE  LET h == ResolveBankruptcy(g, g.current)
         IN  Sound(h) /\ (Kept(g, h) \/ Leaves(g, h))
<1> DEFINE d == g.current
           c == g.debt.creditor
           handed == IF c # NoOne THEN TransferToCreditor(g, d, c) ELSE ReturnToBank(g, d)
           sent == Eliminate(handed, d)
           x == [sent.position EXCEPT ![d] = StartSquare]
           gone == [sent EXCEPT !.position = x, !.debt = NoDebt]
<1>1. g \in GameDoc /\ d \in Player /\ c \in 0 .. N
  <2>1. g \in GameDoc /\ d \in Player /\ g.debt \in Debt \cup {NoDebt}
    BY DEF Sound, GameDoc
  <2>2. c \in 0 .. N
    BY <2>1, Sizes DEF Debt, NoDebt, NoOne
  <2> QED BY <2>1, <2>2
<1>2. Kept(g, handed)
  BY <1>1, TransferToCreditorKept, ReturnToBankKept
<1>3. ResolveBankruptcy(g, d) =
        IF CheckWin(gone).status = "finished" THEN CheckWin(gone)
        ELSE AdvanceTurnOff(CheckWin(gone), d)
  BY DEF ResolveBankruptcy
<1> HIDE DEF handed
<1>4. EliminateTyped(handed, d, sent)
  BY <1>1, <1>2, EliminateLeaves DEF Kept
<1> HIDE DEF sent
<1>5. EliminateTyped(g, d, sent)
  BY <1>2, <1>4 DEF Kept, Table, EliminateTyped
<1>6. EliminateTyped(g, d, gone)
  <2>1. x \in [Player -> Square]
    BY <1>1, <1>5, Sizes DEF EliminateTyped, GameDoc
  <2> HIDE DEF x
  <2>2. gone \in GameDoc
    BY <2>1, <1>5 DEF EliminateTyped, GameDoc
  <2>3. /\ gone.out = sent.out /\ gone.current = sent.current
        /\ gone.status = sent.status /\ gone.winner = sent.winner
        /\ gone.strikes = sent.strikes
    BY <1>5 DEF EliminateTyped, GameDoc
  <2> QED BY <1>5, <2>2, <2>3 DEF EliminateTyped
<1> HIDE DEF gone
<1>7. CASE g.current \notin g.out
  <2>1. gone.current = d
    BY <1>6 DEF EliminateTyped
  <2>2. ResolveBankruptcy(g, d) = Sequel(gone)
    BY <1>3, <2>1 DEF Sequel
  <2>3. Sound(Sequel(gone)) /\ Leaves(g, Sequel(gone))
    BY <1>6, <1>7, SoundIsPlaying, DepartureLeaves
  <2> QED BY <2>2, <2>3
<1>8. CASE g.current \in g.out
  <2>1. g.status = "finished"
    BY <1>1, <1>8 DEF Sound, TableOK, GameDoc
  <2>2. gone.out = g.out
    BY <1>6, <1>8 DEF EliminateTyped
  <2>3. Kept(g, gone)
    BY <1>6, <2>2 DEF EliminateTyped, Kept, Table
  <2>4. CheckWin(gone) = gone /\ gone.status = "finished"
    BY <1>6, <2>1 DEF CheckWin, EliminateTyped
  <2> QED BY <1>3, <2>3, <2>4, KeptIsSound
<1> QED BY <1>7, <1>8

\* A missed turn counts, and the turn that is one too many costs the game.
LEMMA StrikeSound ==
  ASSUME NEW g, Sound(g), g.status = "in_progress"
  PROVE  LET p == g.current
             h == [g EXCEPT !.strikes[p] = @ + 1]
             k == IF h.strikes[p] >= MaxStrikes
                  THEN ResolveSurrender(h, p) ELSE AdvanceTurnOff(h, p)
         IN  Sound(k) /\ (Passes(g, k) \/ Leaves(g, k))
<1> DEFINE p == g.current
           k == [g.strikes EXCEPT ![p] = @ + 1]
           h == [g EXCEPT !.strikes = k]
<1>1. g \in GameDoc /\ p \in Player /\ p \notin g.out
  BY DEF Sound, TableOK, GameDoc
<1>2. g.strikes \in [Player -> 0 .. MaxStrikes]
  BY <1>1 DEF GameDoc
<1>3. g.strikes[p] + 1 \in 0 .. MaxStrikes
  BY <1>1, <1>2, Sizes DEF Sound, TableOK
<1>4. k \in [Player -> 0 .. MaxStrikes]
  BY <1>2, <1>3
<1>5. \A q \in Player \ {p} : k[q] = g.strikes[q]
  BY <1>2
<1> HIDE DEF k
<1>6. h \in GameDoc
  BY <1>1, <1>4 DEF GameDoc
<1>7. /\ h.strikes = k /\ h.out = g.out /\ h.current = p
      /\ h.status = g.status /\ h.winner = g.winner
  BY <1>1 DEF GameDoc
<1>8. h = [g EXCEPT !.strikes[p] = @ + 1]
  BY DEF k
<1> HIDE DEF h
<1>9. Survivors(h) = Survivors(g)
  BY <1>7 DEF Survivors
<1>10. CASE h.strikes[p] >= MaxStrikes
  <2>1. Playing(h)
    BY <1>1, <1>5, <1>6, <1>7, <1>9 DEF Playing, Sound, TableOK
  <2>2. Sound(ResolveSurrender(h, p)) /\ Leaves(h, ResolveSurrender(h, p))
    BY <2>1, <1>7, ResolveSurrenderSound
  <2>3. Leaves(g, ResolveSurrender(h, p))
    BY <2>2, <1>7, <1>9 DEF Leaves
  <2> QED BY <2>2, <2>3, <1>8, <1>10
<1>11. CASE ~ (h.strikes[p] >= MaxStrikes)
  <2>1. Sound(h)
    BY <1>1, <1>5, <1>6, <1>7, <1>9, <1>11 DEF Sound, TableOK
  <2>2. h.status = "in_progress"
    BY <1>7
  <2>3. Sound(AdvanceTurnOff(h, p)) /\ Passes(h, AdvanceTurnOff(h, p))
    BY <2>1, <2>2, <1>7, AdvanceTurnSound
  <2>4. NextActive(h, p) = NextActive(g, p)
    BY <1>9 DEF NextActive
  <2>5. Passes(g, AdvanceTurnOff(h, p))
    BY <2>3, <2>4, <1>7 DEF Passes
  <2> QED BY <2>3, <2>5, <1>8, <1>11
<1> QED BY <1>8, <1>10, <1>11

-----------------------------------------------------------------------------
(***************************************************************************)
(* Auctions, trades, buildings and mortgages move squares, money and cards *)
(* within the schema and leave the table as it was                         *)
(***************************************************************************)

\* An auction opens on a square of the board.
LEMMA StartAuctionKept ==
  ASSUME NEW g \in GameDoc, NEW s \in Square
  PROVE  Kept(g, StartAuction(g, s))
<1> DEFINE a == [NoAuction EXCEPT !.pos = s]
           h == [g EXCEPT !.auction = a, !.phase = "auction", !.pending = NoSquare]
<1>1. a \in Auction
  BY Sizes DEF Auction, NoAuction, NoOne
<1>2. "auction" \in Phases /\ NoSquare \in 0 .. Size
  BY Sizes DEF Phases, NoSquare
<1>3. StartAuction(g, s) = h
  BY DEF StartAuction
<1> HIDE DEF a
<1>4. h \in GameDoc
  BY <1>1, <1>2 DEF GameDoc
<1>5. Table(h) = Table(g)
  BY DEF Table, GameDoc
<1> QED BY <1>3, <1>4, <1>5 DEF Kept

\* A bid changes only the open auction.
LEMMA PlaceBidKept ==
  ASSUME NEW g \in GameDoc, g.auction # NoAuction, NEW p \in Player, NEW n \in Nat
  PROVE  Kept(g, PlaceBidBy(g, p, n))
<1> DEFINE a == [g.auction EXCEPT !.bid = n, !.bidder = p]
           h == [g EXCEPT !.auction = a]
<1>1. g.auction \in Auction
  BY DEF GameDoc
<1>2. p \in 0 .. N
  BY Sizes DEF Player
<1>3. a \in Auction
  BY <1>1, <1>2 DEF Auction
<1>4. PlaceBidBy(g, p, n) = h
  BY DEF PlaceBidBy
<1> HIDE DEF a
<1>5. Kept(g, h)
  BY <1>3 DEF Kept, Table, GameDoc
<1> QED BY <1>4, <1>5

\* The outcome of an auction keeps the table, whatever the winner can afford.
LEMMA ResolveAuctionKept ==
  ASSUME NEW g \in GameDoc, g.auction # NoAuction
  PROVE  Kept(g, ResolveAuction(g))
<1> DEFINE b == g.auction.bidder
           s == g.auction.pos
           sold == [g EXCEPT !.owner[s] = b,
                             !.owned[b] = @ \cup {s},
                             !.balance[b] = @ - g.auction.bid]
           won == IF b = NoOne THEN g ELSE sold
           ph == IF g.streak > 0 THEN "pre_roll" ELSE "post_roll"
           h == [won EXCEPT !.auction = NoAuction, !.phase = ph]
<1>1. g.auction \in Auction
  BY DEF GameDoc
<1>2. b \in 0 .. N /\ s \in Square /\ g.auction.bid \in Nat
  BY <1>1 DEF Auction
<1>3. Kept(g, sold)
  <2> DEFINE o == [g.owner EXCEPT ![s] = b]
             l == [g.owned EXCEPT ![b] = @ \cup {s}]
             m == [g.balance EXCEPT ![b] = @ - g.auction.bid]
  <2>1. /\ g.owner \in [Square -> 0 .. N]
        /\ g.owned \in [Player -> SUBSET Square]
        /\ g.balance \in [Player -> Int]
    BY DEF GameDoc
  <2>2. o \in [Square -> 0 .. N] /\ l \in [Player -> SUBSET Square]
    BY <1>2, <2>1
  <2>3. m \in [Player -> Int]
    <3>1. \A q \in Player : g.balance[q] - g.auction.bid \in Int
      BY <1>2, <2>1
    <3> QED BY <2>1, <3>1
  <2>4. sold = [g EXCEPT !.owner = o, !.owned = l, !.balance = m]
    OBVIOUS
  <2> HIDE DEF o, l, m, b, s
  <2> DEFINE k == [g EXCEPT !.owner = o, !.owned = l, !.balance = m]
  <2>5. k \in GameDoc
    BY <2>2, <2>3 DEF GameDoc
  <2>6. Table(k) = Table(g)
    BY DEF Table, GameDoc
  <2> QED BY <2>4, <2>5, <2>6 DEF Kept
<1>4. Kept(g, won)
  BY <1>3, KeptIsReflexive
<1>5. ph \in Phases
  BY DEF Phases
<1>6. ResolveAuction(g) = h
  BY DEF ResolveAuction
<1> HIDE DEF won, ph
<1>7. Kept(won, h)
  <2>1. won \in GameDoc
    BY <1>4 DEF Kept
  <2>2. h \in GameDoc
    BY <1>5, <2>1 DEF GameDoc
  <2>3. Table(h) = Table(won)
    BY <2>1 DEF Table, GameDoc
  <2> QED BY <2>2, <2>3 DEF Kept
<1> QED BY <1>4, <1>6, <1>7, KeptIsTransitive

-----------------------------------------------------------------------------
\* An offer more is still within the offers of a turn.
LEMMA ProposeKept ==
  ASSUME NEW g \in GameDoc, g.offers < MaxOffers, NEW p \in Player, NEW q \in Player,
         NEW o \in Offer, NEW r \in Offer
  PROVE  Kept(g, Propose(g, p, q, o, r))
<1> DEFINE t == [proposer |-> p, target |-> q, offer |-> o, request |-> r]
           k == g.offers + 1
           h == [g EXCEPT !.trade = t, !.phase = "trade_negotiation", !.offers = k]
<1>1. t \in Trade
  BY DEF Trade
<1>2. k \in 0 .. MaxOffers /\ "trade_negotiation" \in Phases
  BY Sizes DEF GameDoc, Phases
<1>3. Propose(g, p, q, o, r) = h
  BY DEF Propose
<1> HIDE DEF t, k
<1>4. h \in GameDoc
  BY <1>1, <1>2 DEF GameDoc
<1>5. Table(h) = Table(g)
  BY DEF Table, GameDoc
<1> QED BY <1>3, <1>4, <1>5 DEF Kept

\* A closed trade leaves the turn in post_roll.
LEMMA CloseTradeKept ==
  ASSUME NEW g \in GameDoc
  PROVE  Kept(g, CloseTrade(g))
<1> DEFINE h == [g EXCEPT !.trade = NoTrade, !.phase = "post_roll"]
<1>1. "post_roll" \in Phases
  BY DEF Phases
<1>2. h \in GameDoc
  BY <1>1 DEF GameDoc
<1>3. Table(h) = Table(g)
  BY DEF Table, GameDoc
<1> QED BY <1>2, <1>3 DEF Kept, CloseTrade

\* A counter-offer changes only the open trade.
LEMMA CounterKept ==
  ASSUME NEW g \in GameDoc, g.trade # NoTrade, NEW o \in Offer
  PROVE  Kept(g, Counter(g, o))
<1> DEFINE t == [g.trade EXCEPT !.request = o]
<1>1. g.trade \in Trade
  BY DEF GameDoc
<1>2. t \in Trade
  BY <1>1 DEF Trade
<1>3. Counter(g, o) = [g EXCEPT !.trade = t]
  BY DEF Counter
<1> HIDE DEF t
<1> QED BY <1>2, <1>3 DEF Kept, Table, GameDoc

\* The cards each side gives are cards it has, so the swap leaves no negative hand.
LEMMA ExecuteTradeKept ==
  ASSUME NEW g \in GameDoc, NEW x, MayAccept(g, x)
  PROVE  Kept(g, ExecuteTrade(g))
<1> DEFINE p == g.trade.proposer
           t == g.trade.target
           o == g.trade.offer
           r == g.trade.request
           m == [g.balance EXCEPT ![p] = @ + r.money - o.money,
                                  ![t] = @ + o.money - r.money]
           k == [g.cards EXCEPT ![p] = @ + r.cards - o.cards,
                                ![t] = @ + o.cards - r.cards]
           w == [s \in Square |-> CASE s \in r.squares -> p
                                    [] s \in o.squares \ r.squares -> t
                                    [] OTHER -> g.owner[s]]
           l == [g.owned EXCEPT ![p] = (@ \ o.squares) \cup r.squares,
                                ![t] = (@ \cup o.squares) \ r.squares]
           h == [g EXCEPT !.balance = m, !.cards = k, !.owner = w, !.owned = l]
<1>1. g.trade \in Trade
  BY DEF GameDoc, MayAccept
<1>2. p \in Player /\ t \in Player /\ o \in Offer /\ r \in Offer
  BY <1>1 DEF Trade
<1>3. /\ o.money \in Nat /\ o.cards \in Nat /\ o.squares \in SUBSET Square
      /\ r.money \in Nat /\ r.cards \in Nat /\ r.squares \in SUBSET Square
  BY <1>2 DEF Offer
<1>4. /\ g.balance \in [Player -> Int]
      /\ g.cards \in [Player -> Nat]
      /\ g.owner \in [Square -> 0 .. N]
      /\ g.owned \in [Player -> SUBSET Square]
  BY DEF GameDoc
<1>5. o.cards <= g.cards[p] /\ r.cards <= g.cards[t]
  BY DEF MayAccept, ValidOffer
<1>6. ExecuteTrade(g) = CloseTrade(h)
  BY Zenon DEF ExecuteTrade
<1> HIDE DEF p, t, o, r
<1>7. m \in [Player -> Int]
  BY <1>2, <1>3, <1>4
<1>8. k \in [Player -> Nat]
  BY <1>2, <1>3, <1>4, <1>5
<1>9. w \in [Square -> 0 .. N]
  <2>1. p \in 0 .. N /\ t \in 0 .. N
    BY <1>2, Sizes DEF Player
  <2> QED BY <2>1, <1>3, <1>4
<1>10. l \in [Player -> SUBSET Square]
  BY <1>2, <1>3, <1>4
<1> HIDE DEF m, k, w, l
<1>11. h \in GameDoc
  BY <1>7, <1>8, <1>9, <1>10 DEF GameDoc
<1>12. Table(h) = Table(g)
  BY DEF Table, GameDoc
<1> HIDE DEF h
<1>13. Kept(g, h)
  BY <1>11, <1>12 DEF Kept
<1>14. Kept(h, CloseTrade(h))
  BY <1>11, CloseTradeKept
<1> QED BY <1>6, <1>13, <1>14, KeptIsTransitive

-----------------------------------------------------------------------------
\* The documents the rules of Estate make, by the values that change.
WithStock(g, a, b) == [g EXCEPT !.houses = a, !.hotels = b]
WithLevel(g, p, s, l, n) == [g EXCEPT !.level[s] = l, !.balance[p] = n]
WithMortgages(g, p, m, n) == [g EXCEPT !.mortgaged = m, !.balance[p] = n]

\* The bank's stock may be any pair of integers.
LEMMA SetStock ==
  ASSUME NEW g \in GameDoc, NEW a \in Int, NEW b \in Int
  PROVE  Kept(g, WithStock(g, a, b))
<1> DEFINE h == [g EXCEPT !.houses = a, !.hotels = b]
<1>1. h \in GameDoc
  BY DEF GameDoc
<1>2. Table(h) = Table(g)
  BY DEF Table, GameDoc
<1> QED BY <1>1, <1>2 DEF Kept, WithStock

\* Building and selling change the stock only.
LEMMA StockKept ==
  ASSUME NEW g \in GameDoc, NEW l \in 0 .. HotelLevel
  PROVE  Kept(g, StockAfterBuilding(g, l)) /\ Kept(g, StockAfterSelling(g, l))
<1>1. g.houses \in Int /\ g.hotels \in Int /\ l \in Int /\ HotelLevel \in Int
  BY Sizes DEF GameDoc
<1>2. Kept(g, StockAfterBuilding(g, l))
  <2>1. CASE l = HotelLevel - 1
    <3>1. Kept(g, WithStock(g, g.houses + l, g.hotels - 1))
      BY <1>1, SetStock
    <3> QED BY <2>1, <3>1 DEF StockAfterBuilding, WithStock
  <2>2. CASE l # HotelLevel - 1
    <3>1. Kept(g, WithStock(g, g.houses - 1, g.hotels))
      BY <1>1, SetStock
    <3>2. StockAfterBuilding(g, l) = WithStock(g, g.houses - 1, g.hotels)
      BY <2>2 DEF WithStock, StockAfterBuilding, GameDoc
    <3> QED BY <3>1, <3>2
  <2> QED BY <2>1, <2>2
<1>3. Kept(g, StockAfterSelling(g, l))
  <2>1. CASE l = HotelLevel
    <3>1. Kept(g, WithStock(g, g.houses - (HotelLevel - 1), g.hotels + 1))
      BY <1>1, SetStock
    <3> QED BY <2>1, <3>1 DEF StockAfterSelling, WithStock
  <2>2. CASE l # HotelLevel
    <3>1. Kept(g, WithStock(g, g.houses + 1, g.hotels))
      BY <1>1, SetStock
    <3>2. StockAfterSelling(g, l) = WithStock(g, g.houses + 1, g.hotels)
      BY <2>2 DEF WithStock, StockAfterSelling, GameDoc
    <3> QED BY <3>1, <3>2
  <2> QED BY <2>1, <2>2
<1> QED BY <1>2, <1>3

\* A building more or less on a square, and its price paid or credited.
LEMMA SetLevelBalance ==
  ASSUME NEW g \in GameDoc, NEW p \in Player, NEW s \in Square,
         NEW l \in 0 .. HotelLevel, NEW n \in Int
  PROVE  Kept(g, WithLevel(g, p, s, l, n))
<1> DEFINE x == [g.level EXCEPT ![s] = l]
           b == [g.balance EXCEPT ![p] = n]
           h == [g EXCEPT !.level = x, !.balance = b]
<1>1. x \in [Square -> 0 .. HotelLevel] /\ b \in [Player -> Int]
  BY DEF GameDoc
<1>2. h = WithLevel(g, p, s, l, n)
  BY DEF WithLevel
<1> HIDE DEF x, b
<1>3. h \in GameDoc
  BY <1>1 DEF GameDoc
<1>4. Table(h) = Table(g)
  BY DEF Table, GameDoc
<1> QED BY <1>2, <1>3, <1>4 DEF Kept

\* A building goes no higher than a hotel.
LEMMA BuildKept ==
  ASSUME NEW g \in GameDoc, NEW p \in Player, NEW s \in Square, MayBuild(g, p, s)
  PROVE  Kept(g, Build(g, p, s))
<1> DEFINE k == StockAfterBuilding(g, g.level[s])
           l == k.level[s] + 1
           n == k.balance[p] - HouseCost[s]
<1>1. g.level[s] \in 0 .. HotelLevel /\ g.level[s] < HotelLevel
  BY DEF GameDoc, MayBuild
<1>2. Kept(g, k)
  BY <1>1, StockKept
<1>3. k.level = g.level
  BY DEF StockAfterBuilding, GameDoc
<1>4. Build(g, p, s) = WithLevel(k, p, s, l, n)
  BY DEF WithLevel, Build
<1> HIDE DEF k
<1>5. l \in 0 .. HotelLevel
  BY <1>1, <1>3, Sizes
<1>6. n \in Int
  <2>1. HouseCost[s] \in Int
    BY GameAssumption
  <2>2. k.balance[p] \in Int
    BY <1>2 DEF Kept, GameDoc
  <2> QED BY <2>1, <2>2
<1> HIDE DEF l, n
<1>7. Kept(k, WithLevel(k, p, s, l, n))
  BY <1>2, <1>5, <1>6, SetLevelBalance DEF Kept
<1> QED BY <1>2, <1>4, <1>7, KeptIsTransitive

\* A sale never takes a square below no building.
LEMMA SellKept ==
  ASSUME NEW g \in GameDoc, NEW p \in Player, NEW s \in Square, MaySell(g, p, s)
  PROVE  Kept(g, Sell(g, p, s))
<1> DEFINE k == StockAfterSelling(g, g.level[s])
           l == k.level[s] - 1
           n == k.balance[p] + SellCredit[s]
<1>1. g.level[s] \in 0 .. HotelLevel /\ g.level[s] > 0
  BY DEF GameDoc, MaySell
<1>2. Kept(g, k)
  BY <1>1, StockKept
<1>3. k.level = g.level
  BY DEF StockAfterSelling, GameDoc
<1>4. Sell(g, p, s) = WithLevel(k, p, s, l, n)
  BY DEF WithLevel, Sell
<1> HIDE DEF k
<1>5. l \in 0 .. HotelLevel
  BY <1>1, <1>3, Sizes
<1>6. n \in Int
  <2>1. SellCredit[s] \in Int
    BY GameAssumption
  <2>2. k.balance[p] \in Int
    BY <1>2 DEF Kept, GameDoc
  <2> QED BY <2>1, <2>2
<1> HIDE DEF l, n
<1>7. Kept(k, WithLevel(k, p, s, l, n))
  BY <1>2, <1>5, <1>6, SetLevelBalance DEF Kept
<1> QED BY <1>2, <1>4, <1>7, KeptIsTransitive

\* A mortgage more or less, and what it pays or costs.
LEMMA SetMortgagedBalance ==
  ASSUME NEW g \in GameDoc, NEW p \in Player, NEW m \in SUBSET Square, NEW n \in Int
  PROVE  Kept(g, WithMortgages(g, p, m, n))
<1> DEFINE b == [g.balance EXCEPT ![p] = n]
           h == [g EXCEPT !.mortgaged = m, !.balance = b]
<1>1. b \in [Player -> Int]
  BY DEF GameDoc
<1>2. h = WithMortgages(g, p, m, n)
  BY DEF WithMortgages
<1> HIDE DEF b
<1>3. h \in GameDoc
  BY <1>1 DEF GameDoc
<1>4. Table(h) = Table(g)
  BY DEF Table, GameDoc
<1> QED BY <1>2, <1>3, <1>4 DEF Kept

\* Mortgaging and redeeming keep the table.
LEMMA MortgageKept ==
  ASSUME NEW g \in GameDoc, NEW p \in Player, NEW s \in Square
  PROVE  Kept(g, Mortgage(g, p, s)) /\ Kept(g, Redeem(g, p, s))
<1> DEFINE m == g.mortgaged \cup {s}
           r == g.mortgaged \ {s}
           n == g.balance[p] + MortgageValue[s]
           k == g.balance[p] - RedeemCost[s]
<1>1. m \in SUBSET Square /\ r \in SUBSET Square
  BY DEF GameDoc
<1>2. MortgageValue[s] \in Int /\ RedeemCost[s] \in Int
  BY GameAssumption
<1>3. g.balance[p] \in Int
  BY DEF GameDoc
<1>4. n \in Int /\ k \in Int
  BY <1>2, <1>3
<1>5. /\ Mortgage(g, p, s) = WithMortgages(g, p, m, n)
      /\ Redeem(g, p, s) = WithMortgages(g, p, r, k)
  BY DEF WithMortgages, Mortgage, Redeem
<1> HIDE DEF m, r, n, k
<1> QED BY <1>1, <1>4, <1>5, SetMortgagedBalance
=============================================================================
