--------------------------- MODULE Landing_proofs ---------------------------
(***************************************************************************)
(* Wherever a token lands and whatever card it draws, the document stays   *)
(* in the schema and the table as it was: a landing may ruin a player, but *)
(* only a later command eliminates it.                                     *)
(***************************************************************************)
EXTENDS Landing, GameRules_proofs

\* Moving a token, jailing it, and paying for it, one field at a time.
LEMMA SetPosition ==
  ASSUME NEW g \in GameDoc, NEW p \in Player, NEW s \in Square
  PROVE  Kept(g, [g EXCEPT !.position[p] = s])
<1> DEFINE x == [g.position EXCEPT ![p] = s]
<1>1. x \in [Player -> Square]
  BY DEF GameDoc
<1> HIDE DEF x
<1>2. Kept(g, [g EXCEPT !.position = x])
  BY <1>1 DEF Kept, Table, GameDoc
<1> QED BY <1>2 DEF x

\* The same of a jail term,
LEMMA SetJail ==
  ASSUME NEW g \in GameDoc, NEW p \in Player, NEW j \in 0 .. JailTurns
  PROVE  Kept(g, [g EXCEPT !.jail[p] = j])
<1> DEFINE x == [g.jail EXCEPT ![p] = j]
<1>1. x \in [Player -> 0 .. JailTurns]
  BY DEF GameDoc
<1> HIDE DEF x
<1>2. Kept(g, [g EXCEPT !.jail = x])
  BY <1>1 DEF Kept, Table, GameDoc
<1> QED BY <1>2 DEF x

\* of a balance,
LEMMA AddBalance ==
  ASSUME NEW g \in GameDoc, NEW p \in Player, NEW n \in Int
  PROVE  Kept(g, [g EXCEPT !.balance[p] = @ + n])
<1> DEFINE x == [g.balance EXCEPT ![p] = @ + n]
<1>1. x \in [Player -> Int]
  BY DEF GameDoc
<1> HIDE DEF x
<1>2. Kept(g, [g EXCEPT !.balance = x])
  BY <1>1, SetBalance
<1> QED BY <1>2 DEF x

\* of the jail cards a player holds,
LEMMA SetCardsHeld ==
  ASSUME NEW g \in GameDoc, NEW p \in Player, NEW n \in Nat
  PROVE  Kept(g, [g EXCEPT !.cards[p] = n])
<1> DEFINE x == [g.cards EXCEPT ![p] = n]
<1>1. x \in [Player -> Nat]
  BY DEF GameDoc
<1> HIDE DEF x
<1>2. Kept(g, [g EXCEPT !.cards = x])
  BY <1>1 DEF Kept, Table, GameDoc
<1> QED BY <1>2 DEF x

\* of those a deck holds,
LEMMA SetDeck ==
  ASSUME NEW g \in GameDoc, NEW d \in Decks, NEW n \in Nat
  PROVE  Kept(g, [g EXCEPT !.deck[d] = n])
<1> DEFINE x == [g.deck EXCEPT ![d] = n]
<1>1. x \in [Decks -> Nat]
  BY DEF GameDoc
<1> HIDE DEF x
<1>2. Kept(g, [g EXCEPT !.deck = x])
  BY <1>1 DEF Kept, Table, GameDoc
<1> QED BY <1>2 DEF x

\* of the roll, the doubles run and the phase,
LEMMA SetRoll ==
  ASSUME NEW g \in GameDoc, NEW k \in 0 .. DoublesLimit - 1, NEW ph \in Phases
  PROVE  Kept(g, [g EXCEPT !.rolled = TRUE, !.streak = k, !.phase = ph])
<1> DEFINE h == [g EXCEPT !.rolled = TRUE, !.streak = k, !.phase = ph]
<1>1. h \in GameDoc
  BY DEF GameDoc
<1>2. Table(h) = Table(g)
  BY DEF Table, GameDoc
<1> QED BY <1>1, <1>2 DEF Kept

\* and of the pending square with the phase.
LEMMA SetPendingPhase ==
  ASSUME NEW g \in GameDoc, NEW s \in 0 .. Size, NEW ph \in Phases
  PROVE  Kept(g, [g EXCEPT !.pending = s, !.phase = ph])
<1>1. Kept(g, [g EXCEPT !.pending = s])
  BY SetPending
<1> DEFINE h == [g EXCEPT !.pending = s]
<1> HIDE DEF h
<1>2. Kept(h, [h EXCEPT !.phase = ph])
  BY <1>1, SetPhase DEF Kept, h
<1> QED BY <1>1, <1>2, KeptIsTransitive DEF h

-----------------------------------------------------------------------------
\* Going to jail moves and locks up one player.
LEMMA SendToJailKept ==
  ASSUME NEW g \in GameDoc, NEW p \in Player
  PROVE  Kept(g, SendToJail(g, p))
<1> DEFINE h == [g EXCEPT !.position[p] = JailSquare]
<1>1. Kept(g, h)
  BY Sizes, SetPosition
<1>2. SendToJail(g, p) = [h EXCEPT !.jail[p] = JailTurns]
  BY DEF SendToJail
<1> HIDE DEF h
<1>3. Kept(h, [h EXCEPT !.jail[p] = JailTurns])
  BY <1>1, Sizes, SetJail DEF Kept
<1> QED BY <1>1, <1>2, <1>3, KeptIsTransitive

\* The board is a ring.
LEMMA SquareFromTyped ==
  ASSUME NEW s \in Square, NEW n \in Int
  PROVE  SquareFrom(s, n) \in Square
<1>1. Size \in Nat /\ Size >= 1 /\ s \in Int
  BY Sizes DEF Square
<1>2. (s - 1 + n) % Size \in 0 .. Size - 1
  BY <1>1
<1> QED BY <1>1, <1>2 DEF SquareFrom, Square

\* The salary is a payment by the bank.
LEMMA PaySalaryKept ==
  ASSUME NEW g \in GameDoc, NEW p \in Player, NEW passed
  PROVE  Kept(g, PaySalary(g, p, passed))
<1>1. GoSalary \in Int
  BY GameAssumption
<1> QED BY <1>1, AddBalance, KeptIsReflexive DEF PaySalary

\* A dice move goes round the ring and may pay the salary.
LEMMA AdvancePositionKept ==
  ASSUME NEW g \in GameDoc, NEW p \in Player, NEW steps \in Int
  PROVE  Kept(g, AdvancePosition(g, p, steps))
<1> DEFINE s == SquareFrom(g.position[p], steps)
           h == [g EXCEPT !.position[p] = s]
           passed == g.position[p] - 1 + steps >= Size
<1>1. s \in Square
  <2>1. g.position[p] \in Square
    BY DEF GameDoc
  <2> QED BY <2>1, SquareFromTyped
<1> HIDE DEF s
<1>2. Kept(g, h)
  BY <1>1, SetPosition
<1> HIDE DEF h
<1>3. Kept(h, PaySalary(h, p, passed))
  BY <1>2, PaySalaryKept DEF Kept
<1>4. AdvancePosition(g, p, steps) = PaySalary(h, p, passed)
  BY DEF AdvancePosition, h, s
<1> QED BY <1>2, <1>3, <1>4, KeptIsTransitive

\* The phase after a payment is one of the protocol's.
LEMMA AfterPaymentKept ==
  ASSUME NEW g \in GameDoc, NEW ph \in Phases
  PROVE  Kept(g, AfterPayment(g, ph))
<1>1. "bankrupt_resolution" \in Phases
  BY DEF Phases
<1>2. NoSquare \in 0 .. Size
  BY Sizes DEF NoSquare
<1>3. CASE g.debt # NoDebt
  <2>1. AfterPayment(g, ph) = [g EXCEPT !.phase = "bankrupt_resolution"]
    BY <1>3 DEF AfterPayment
  <2> QED BY <1>1, <2>1, SetPhase
<1>4. CASE ~ (g.debt # NoDebt)
  <2>1. AfterPayment(g, ph) = [g EXCEPT !.pending = NoSquare, !.phase = ph]
    BY <1>4 DEF AfterPayment
  <2> QED BY <1>2, <2>1, SetPendingPhase
<1> QED BY <1>3, <1>4

\* An attempted payment, and the phase it leaves the turn in.
LEMMA PaidLandingKept ==
  ASSUME NEW g \in GameDoc, NEW p \in Player, NEW n \in Int, NEW c \in 0 .. N,
         NEW ph \in Phases
  PROVE  Kept(g, AfterPayment(AttemptPayment(g, p, n, c), ph))
<1>1. Kept(g, AttemptPayment(g, p, n, c))
  BY AttemptPaymentKept
<1> DEFINE h == AttemptPayment(g, p, n, c)
<1> HIDE DEF h
<1>2. Kept(h, AfterPayment(h, ph))
  BY <1>1, AfterPaymentKept DEF Kept, h
<1> QED BY <1>1, <1>2, KeptIsTransitive DEF h

\* Whatever a plain square does, nobody is eliminated by it.
LEMMA LandPlainKept ==
  ASSUME NEW g \in GameDoc, NEW p \in Player, NEW h \in LandPlain(g, p)
  PROVE  Kept(g, h)
<1> DEFINE s == g.position[p]
<1>1. s \in Square
  BY DEF GameDoc
<1>2. "post_roll" \in Phases /\ "must_pay_rent" \in Phases
  BY DEF Phases
<1>3. NoSquare \in 0 .. Size /\ s \in 0 .. Size /\ NoOne \in 0 .. N
  BY <1>1, Sizes DEF NoSquare, NoOne, Square
<1>4. CASE Kind[s] = "goto_jail"
  <2> DEFINE j == SendToJail(g, p)
  <2>1. h = [j EXCEPT !.pending = NoSquare, !.phase = "post_roll"]
    <3>1. LandPlain(g, p) = {[j EXCEPT !.pending = NoSquare, !.phase = "post_roll"]}
      BY <1>4 DEF LandPlain, OwesRent, Purchasable
    <3> QED BY <3>1
  <2>2. Kept(g, j)
    BY SendToJailKept
  <2> HIDE DEF j
  <2>3. Kept(j, h)
    BY <1>2, <1>3, <2>1, <2>2, SetPendingPhase DEF Kept
  <2> QED BY <2>2, <2>3, KeptIsTransitive
<1>5. CASE Kind[s] = "tax"
  <2>1. h = AfterPayment(AttemptPayment(g, p, Tax[s], NoOne), "post_roll")
    <3>1. LandPlain(g, p) = {AfterPayment(AttemptPayment(g, p, Tax[s], NoOne), "post_roll")}
      BY <1>5 DEF LandPlain, OwesRent, Purchasable
    <3> QED BY <3>1
  <2>2. Tax[s] \in Int
    BY <1>1, GameAssumption
  <2> QED BY <1>2, <1>3, <2>1, <2>2, PaidLandingKept
<1>6. CASE Kind[s] \notin {"goto_jail", "tax"} /\ OwesRent(g, p, s)
  <2>1. PICK rent \in Rents :
          h = AfterPayment(AttemptPayment(g, p, rent, g.owner[s]), "must_pay_rent")
    <3>1. LandPlain(g, p) =
            {AfterPayment(AttemptPayment(g, p, rent, g.owner[s]), "must_pay_rent") :
               rent \in Rents}
      BY <1>6, Zenon DEF LandPlain
    <3> QED BY <3>1
  <2>2. rent \in Int
    BY GameAssumption
  <2>3. g.owner[s] \in 0 .. N
    BY <1>1 DEF GameDoc
  <2> QED BY <1>2, <2>1, <2>2, <2>3, PaidLandingKept
<1>7. CASE Kind[s] \notin {"goto_jail", "tax"} /\ ~ OwesRent(g, p, s)
  <2> DEFINE k == IF Purchasable(s) /\ g.owner[s] = NoOne THEN s ELSE NoSquare
  <2>1. h = [g EXCEPT !.pending = k, !.phase = "post_roll"]
    <3>1. LandPlain(g, p) = {[g EXCEPT !.pending = k, !.phase = "post_roll"]}
      BY <1>7, Zenon DEF LandPlain
    <3> QED BY <3>1
  <2>2. k \in 0 .. Size
    BY <1>3
  <2> HIDE DEF k
  <2> QED BY <1>2, <2>1, <2>2, SetPendingPhase
<1> QED BY <1>4, <1>5, <1>6, <1>7

-----------------------------------------------------------------------------
(***************************************************************************)
(* Cards                                                                   *)
(***************************************************************************)

\* A card's amounts are naturals, and the square it advances to is on the board.
LEMMA CardTyped ==
  ASSUME NEW d \in Decks, NEW c \in Cards[d]
  PROVE  /\ c.n \in Nat /\ c.m \in Nat
         /\ c.type \in {"advance", "advance_no_go"} => c.n \in Square
<1>1. Cards[d] \subseteq Effect
  BY GameAssumption
<1>2. c \in Effect
  BY <1>1
<1>3. c.n \in Nat /\ c.m \in Nat
  BY <1>2 DEF Effect
<1>4. c.type \in {"advance", "advance_no_go"} => c.n \in Square
  BY GameAssumption
<1> QED BY <1>3, <1>4

\* A get-out-of-jail card is drawn only from a deck that holds one.
LEMMA DrawKept ==
  ASSUME NEW g \in GameDoc, NEW d \in Decks, NEW c \in OnTop(g, d)
  PROVE  Kept(g, Draw(g, d, c))
<1>1. CASE c.type = "jail_free"
  <2> DEFINE n == g.deck[d] - 1
  <2>1. n \in Nat
    BY <1>1 DEF OnTop, GameDoc
  <2>2. Draw(g, d, c) = [g EXCEPT !.deck[d] = n]
    BY <1>1 DEF Draw, GameDoc
  <2> HIDE DEF n
  <2> QED BY <2>1, <2>2, SetDeck
<1>2. CASE c.type # "jail_free"
  BY <1>2, KeptIsReflexive DEF Draw
<1> QED BY <1>1, <1>2

\* A movement card takes the token to a square of the board.
LEMMA DisplaceKept ==
  ASSUME NEW g \in GameDoc, NEW p \in Player, NEW d \in Decks, NEW c \in Cards[d],
         c.type \in MoveEffects
  PROVE  Kept(g, Displace(g, p, c))
<1>1. CASE c.type = "go_back"
  <2>1. g.position[p] \in Square
    BY DEF GameDoc
  <2>2. -c.n \in Int
    BY CardTyped
  <2>3. SquareFrom(g.position[p], -c.n) \in Square
    BY <2>1, <2>2, SquareFromTyped
  <2>4. Displace(g, p, c) = [g EXCEPT !.position[p] = SquareFrom(g.position[p], -c.n)]
    BY <1>1 DEF Displace
  <2> QED BY <2>3, <2>4, SetPosition
<1>2. CASE c.type # "go_back"
  <2>1. c.n \in Square
    BY <1>2, CardTyped DEF MoveEffects
  <2> DEFINE h == [g EXCEPT !.position[p] = c.n]
             passed == c.type = "advance" /\ c.n < g.position[p]
  <2>2. Kept(g, h)
    BY <2>1, SetPosition
  <2>3. Displace(g, p, c) = PaySalary(h, p, passed)
    BY <1>2 DEF Displace
  <2> HIDE DEF h, passed
  <2>4. Kept(h, PaySalary(h, p, passed))
    BY <2>2, PaySalaryKept DEF Kept
  <2> QED BY <2>2, <2>3, <2>4, KeptIsTransitive
<1> QED BY <1>1, <1>2

\* Collecting from everyone moves whole amounts,
LEMMA CollectFromEachKept ==
  ASSUME NEW g \in GameDoc, NEW p \in Player, NEW n \in Nat
  PROVE  Kept(g, CollectFromEach(g, p, n))
<1> DEFINE gift == [q \in Player |-> Contribution(g, p, q, n)]
           total == SumTo(gift, N)
           b == [q \in Player |-> g.balance[q] - gift[q] + (IF q = p THEN total ELSE 0)]
<1>1. g.balance \in [Player -> Int]
  BY DEF GameDoc
<1>2. gift \in [Player -> Int]
  BY <1>1 DEF Contribution
<1>3. CollectFromEach(g, p, n) = [g EXCEPT !.balance = b]
  BY DEF CollectFromEach
<1> HIDE DEF gift
<1>4. total \in Int
  BY <1>2, Sizes, SumToInt DEF Player
<1> HIDE DEF total
<1>5. b \in [Player -> Int]
  BY <1>1, <1>2, <1>4
<1> HIDE DEF b
<1> QED BY <1>3, <1>5, SetBalance

\* and so does paying everyone.
LEMMA PayEachKept ==
  ASSUME NEW g \in GameDoc, NEW p \in Player, NEW n \in Nat
  PROVE  Kept(g, PayEach(g, p, n))
<1> DEFINE others == Survivors(g) \ {p}
           due == n * Cardinality(others)
           b == [q \in Player |-> g.balance[q] + (IF q \in others THEN n ELSE 0)
                                               - (IF q = p THEN due ELSE 0)]
<1>1. g.balance \in [Player -> Int]
  BY DEF GameDoc
<1>2. due \in Int
  <2>1. IsFiniteSet(Player)
    BY Sizes, FS_Interval DEF Player
  <2>2. Cardinality(others) \in Nat
    BY <2>1, FS_Subset, FS_CardinalityType DEF Survivors
  <2> QED BY <2>2
<1>3. PayEach(g, p, n) = [g EXCEPT !.balance = b]
  BY DEF PayEach
<1> HIDE DEF others, due
<1>4. b \in [Player -> Int]
  BY <1>1, <1>2
<1> HIDE DEF b
<1> QED BY <1>3, <1>4, SetBalance

\* The repair bill is a whole amount.
LEMMA RepairCostIsInt ==
  ASSUME NEW g \in GameDoc, NEW p \in Player, NEW n \in Nat, NEW m \in Nat
  PROVE  RepairCost(g, p, n, m) \in Int
<1> DEFINE a == Houses(g, g.owned[p])
           b == Cardinality(Hotels(g, g.owned[p]))
<1>1. g.owned[p] \in SUBSET Square
  BY DEF GameDoc
<1>2. a \in Int /\ b \in Int
  BY <1>1, BuildingsAreInt
<1>3. RepairCost(g, p, n, m) = n * a + m * b
  BY DEF RepairCost
<1> HIDE DEF a, b
<1>4. n * a \in Int /\ m * b \in Int
  BY <1>2
<1> QED BY <1>3, <1>4

\* No card without movement eliminates anyone.
LEMMA FixedEffectKept ==
  ASSUME NEW g \in GameDoc, NEW p \in Player, NEW d \in Decks, NEW c \in Cards[d]
  PROVE  Kept(g, FixedEffect(g, p, c))
<1>1. c.n \in Nat /\ c.m \in Nat /\ c.n \in Int
  BY CardTyped
<1>2. NoOne \in 0 .. N
  BY Sizes DEF NoOne
<1>3. CASE c.type = "collect"
  BY <1>1, <1>3, AddBalance DEF FixedEffect
<1>4. CASE c.type = "pay"
  BY <1>1, <1>2, <1>4, AttemptPaymentKept DEF FixedEffect
<1>5. CASE c.type = "collect_from_each"
  BY <1>1, <1>5, CollectFromEachKept DEF FixedEffect
<1>6. CASE c.type = "pay_each"
  BY <1>1, <1>6, PayEachKept DEF FixedEffect
<1>7. CASE c.type = "repairs"
  <2>1. FixedEffect(g, p, c) = AttemptPayment(g, p, RepairCost(g, p, c.n, c.m), NoOne)
    BY <1>7 DEF FixedEffect
  <2>2. RepairCost(g, p, c.n, c.m) \in Int
    BY <1>1, RepairCostIsInt
  <2> QED BY <1>2, <2>1, <2>2, AttemptPaymentKept
<1>8. CASE c.type = "jail_free"
  <2> DEFINE k == g.cards[p] + 1
  <2>1. FixedEffect(g, p, c) = [g EXCEPT !.cards[p] = k]
    BY <1>8 DEF FixedEffect
  <2>2. k \in Nat
    BY DEF GameDoc
  <2> HIDE DEF k
  <2> QED BY <2>1, <2>2, SetCardsHeld
<1>9. CASE c.type \notin {"collect", "pay", "collect_from_each", "pay_each",
                         "repairs", "jail_free"}
  <2>1. FixedEffect(g, p, c) = SendToJail(g, p)
    BY <1>9 DEF FixedEffect
  <2> QED BY <2>1, SendToJailKept
<1> QED BY <1>3, <1>4, <1>5, <1>6, <1>7, <1>8, <1>9

\* A card that jailed its drawer ends the turn's movement.
LEMMA AfterCardKept ==
  ASSUME NEW g \in GameDoc, NEW p
  PROVE  Kept(g, AfterCard(g, p))
<1>1. CASE g.jail[p] # 0
  <2> DEFINE h == [g EXCEPT !.phase = "post_roll", !.streak = 0]
  <2>1. "post_roll" \in Phases /\ 0 \in 0 .. DoublesLimit - 1
    BY Sizes DEF Phases
  <2>2. h \in GameDoc
    BY <2>1 DEF GameDoc
  <2>3. Table(h) = Table(g)
    BY DEF Table, GameDoc
  <2>4. AfterCard(g, p) = h
    BY <1>1 DEF AfterCard
  <2> QED BY <2>2, <2>3, <2>4 DEF Kept
<1>2. CASE ~ (g.jail[p] # 0)
  BY <1>2, KeptIsReflexive DEF AfterCard
<1> QED BY <1>1, <1>2

-----------------------------------------------------------------------------
(***************************************************************************)
(* A whole landing: at most two draws, each ending on a plain square, in   *)
(* jail, or where the token stands                                         *)
(***************************************************************************)

\* The second draw of a landing keeps the table,
LEMMA SecondDrawKept ==
  ASSUME NEW g \in GameDoc, NEW p \in Player, NEW d \in Decks, NEW h \in SecondDraw(g, p, d)
  PROVE  Kept(g, h)
<1>1. PICK c \in OnTop(g, d) :
        \E k \in (IF c.type \in MoveEffects
                 THEN LandPlain(Displace(Draw(g, d, c), p, c), p)
                 ELSE {FixedEffect(Draw(g, d, c), p, c)}) : h = AfterCard(k, p)
  BY DEF SecondDraw
<1>2. c \in Cards[d]
  BY DEF OnTop
<1> DEFINE drawn == Draw(g, d, c)
           moved == Displace(drawn, p, c)
<1>3. Kept(g, drawn)
  BY DrawKept
<1> HIDE DEF drawn
<1>4. ASSUME NEW k, Kept(g, k), h = AfterCard(k, p)
      PROVE  Kept(g, h)
  BY <1>4, AfterCardKept, KeptIsTransitive DEF Kept
<1>5. CASE c.type \in MoveEffects
  <2>1. Kept(drawn, moved)
    BY <1>2, <1>3, <1>5, DisplaceKept DEF Kept
  <2>2. Kept(g, moved)
    BY <1>3, <2>1, KeptIsTransitive
  <2>3. PICK k \in LandPlain(moved, p) : h = AfterCard(k, p)
    BY <1>1, <1>5 DEF drawn
  <2> HIDE DEF moved
  <2>4. Kept(moved, k)
    BY <2>2, LandPlainKept DEF Kept
  <2>5. Kept(g, k)
    BY <2>2, <2>4, KeptIsTransitive
  <2> QED BY <1>4, <2>3, <2>5
<1>6. CASE c.type \notin MoveEffects
  <2> DEFINE k == FixedEffect(drawn, p, c)
  <2>1. Kept(drawn, k)
    BY <1>2, <1>3, FixedEffectKept DEF Kept
  <2>2. h = AfterCard(k, p)
    BY <1>1, <1>6 DEF drawn
  <2> HIDE DEF k
  <2>3. Kept(g, k)
    BY <1>3, <2>1, KeptIsTransitive
  <2> QED BY <1>4, <2>2, <2>3
<1> QED BY <1>5, <1>6

\* and so does where a movement card ends,
LEMMA LandAfterCardKept ==
  ASSUME NEW g \in GameDoc, NEW p \in Player, NEW h \in LandAfterCard(g, p)
  PROVE  Kept(g, h)
  BY SecondDrawKept, LandPlainKept DEF LandAfterCard

\* and the first draw,
LEMMA FirstDrawKept ==
  ASSUME NEW g \in GameDoc, NEW p \in Player, NEW d \in Decks, NEW h \in FirstDraw(g, p, d)
  PROVE  Kept(g, h)
<1>1. PICK c \in OnTop(g, d) :
        \E k \in (IF c.type \in MoveEffects
                 THEN LandAfterCard(Displace(Draw(g, d, c), p, c), p)
                 ELSE {FixedEffect(Draw(g, d, c), p, c)}) : h = AfterCard(k, p)
  BY DEF FirstDraw
<1>2. c \in Cards[d]
  BY DEF OnTop
<1> DEFINE drawn == Draw(g, d, c)
           moved == Displace(drawn, p, c)
<1>3. Kept(g, drawn)
  BY DrawKept
<1> HIDE DEF drawn
<1>4. ASSUME NEW k, Kept(g, k), h = AfterCard(k, p)
      PROVE  Kept(g, h)
  BY <1>4, AfterCardKept, KeptIsTransitive DEF Kept
<1>5. CASE c.type \in MoveEffects
  <2>1. Kept(drawn, moved)
    BY <1>2, <1>3, <1>5, DisplaceKept DEF Kept
  <2>2. Kept(g, moved)
    BY <1>3, <2>1, KeptIsTransitive
  <2>3. PICK k \in LandAfterCard(moved, p) : h = AfterCard(k, p)
    BY <1>1, <1>5 DEF drawn
  <2> HIDE DEF moved
  <2>4. Kept(moved, k)
    BY <2>2, LandAfterCardKept DEF Kept
  <2>5. Kept(g, k)
    BY <2>2, <2>4, KeptIsTransitive
  <2> QED BY <1>4, <2>3, <2>5
<1>6. CASE c.type \notin MoveEffects
  <2> DEFINE k == FixedEffect(drawn, p, c)
  <2>1. Kept(drawn, k)
    BY <1>2, <1>3, FixedEffectKept DEF Kept
  <2>2. h = AfterCard(k, p)
    BY <1>1, <1>6 DEF drawn
  <2> HIDE DEF k
  <2>3. Kept(g, k)
    BY <1>3, <2>1, KeptIsTransitive
  <2> QED BY <1>4, <2>2, <2>3
<1> QED BY <1>5, <1>6

\* and the landing as a whole.
LEMMA ResolveLandingKept ==
  ASSUME NEW g \in GameDoc, NEW p \in Player, NEW h \in ResolveLanding(g, p)
  PROVE  Kept(g, h)
  BY FirstDrawKept, LandPlainKept DEF ResolveLanding

\* The doubles run grows by one, and only where the caller still grants a roll.
LEMMA AfterMoveKept ==
  ASSUME NEW h \in GameDoc, NEW p \in Player, NEW extraRoll \in BOOLEAN, NEW streak,
         extraRoll => streak \in 0 .. DoublesLimit - 1
  PROVE  Kept(h, AfterMove(h, p, extraRoll, streak))
<1>1. 0 \in 0 .. DoublesLimit - 1
  BY Sizes
<1>2. h.phase \in Phases /\ "post_roll" \in Phases /\ "pre_roll" \in Phases
  BY DEF GameDoc, Phases
<1>3. h.jail[p] \in 0 .. JailTurns
  BY DEF GameDoc
<1>4. CASE h.jail[p] # 0
  <2>1. AfterMove(h, p, extraRoll, streak) =
          [h EXCEPT !.rolled = TRUE, !.streak = 0, !.phase = "post_roll"]
    BY <1>4 DEF AfterMove
  <2>2. Kept(h, [h EXCEPT !.rolled = TRUE, !.streak = 0, !.phase = "post_roll"])
    BY <1>1, <1>2, SetRoll
  <2> QED BY <2>1, <2>2
<1>5. CASE h.jail[p] = 0 /\ (h.debt # NoDebt \/ ~extraRoll)
  <2>1. AfterMove(h, p, extraRoll, streak) =
          [h EXCEPT !.rolled = TRUE, !.streak = 0, !.phase = h.phase]
    BY <1>5 DEF AfterMove, GameDoc
  <2>2. Kept(h, [h EXCEPT !.rolled = TRUE, !.streak = 0, !.phase = h.phase])
    BY <1>1, <1>2, SetRoll
  <2> QED BY <2>1, <2>2
<1>6. CASE h.jail[p] = 0 /\ ~ (h.debt # NoDebt \/ ~extraRoll)
  <2> DEFINE ph == IF h.pending # NoSquare THEN "post_roll" ELSE "pre_roll"
  <2>1. AfterMove(h, p, extraRoll, streak) =
          [h EXCEPT !.rolled = TRUE, !.streak = streak, !.phase = ph]
    BY <1>6 DEF AfterMove
  <2>2. ph \in Phases /\ streak \in 0 .. DoublesLimit - 1
    BY <1>2, <1>6
  <2> HIDE DEF ph
  <2>3. Kept(h, [h EXCEPT !.rolled = TRUE, !.streak = streak, !.phase = ph])
    BY <2>2, SetRoll
  <2> QED BY <2>1, <2>3
<1> QED BY <1>4, <1>5, <1>6

\* A move, with everything it leads to, keeps the table.
LEMMA ExecuteMoveKept ==
  ASSUME NEW g \in GameDoc, NEW p \in Player, NEW steps \in Int, NEW extraRoll \in BOOLEAN,
         extraRoll => g.streak + 1 \in 0 .. DoublesLimit - 1,
         NEW k \in ExecuteMove(g, p, steps, extraRoll)
  PROVE  Kept(g, k)
<1> DEFINE there == AdvancePosition(g, p, steps)
<1>1. Kept(g, there)
  BY AdvancePositionKept
<1>2. PICK h \in ResolveLanding(there, p) : k = AfterMove(h, p, extraRoll, g.streak + 1)
  BY DEF ExecuteMove
<1> HIDE DEF there
<1>3. Kept(there, h)
  BY <1>1, ResolveLandingKept DEF Kept
<1>4. Kept(h, k)
  BY <1>2, <1>3, AfterMoveKept DEF Kept
<1> QED BY <1>1, <1>3, <1>4, KeptIsTransitive

\* A move that grants no other roll: out of jail, or without doubles.
LEMMA LastMoveKept ==
  ASSUME NEW g \in GameDoc, NEW p \in Player, NEW steps \in Int,
         NEW k \in ExecuteMove(g, p, steps, FALSE)
  PROVE  Kept(g, k)
<1> DEFINE extraRoll == FALSE
<1>1. extraRoll \in BOOLEAN /\ ~ extraRoll
  OBVIOUS
<1>2. k \in ExecuteMove(g, p, steps, extraRoll)
  OBVIOUS
<1> HIDE DEF extraRoll
<1> QED BY <1>1, <1>2, ExecuteMoveKept

-----------------------------------------------------------------------------
(***************************************************************************)
(* What a landing leaves alone, and what it may open                       *)
(***************************************************************************)

\* Squares, buildings and the bank's stock.
Estates(g) == <<g.owner, g.owned, g.mortgaged, g.level, g.houses, g.hotels>>

\* An open debt, not owed to the debtor itself.
Owing(g) == g.debt # NoDebt /\ g.debt.debtor # g.debt.creditor

\* A landing of p changes no square and no exchange, opens at most a debt, and
\* leaves the phase or ends it; the other tokens stay where they are.
Landed(g, h, p) ==
  /\ Estates(h) = Estates(g)
  /\ h.auction = g.auction /\ h.trade = g.trade
  /\ h.debt = g.debt \/ Owing(h)
  /\ \A q \in Player \ {p} : h.jail[q] = g.jail[q] /\ h.position[q] = g.position[q]
  /\ \/ h.phase = g.phase /\ h.pending = g.pending
     \/ h.phase \in {"pre_roll", "post_roll"}
     \/ h.phase = "must_pay_rent" /\ h.pending = NoSquare
     \/ h.phase = "bankrupt_resolution" /\ h.debt # NoDebt

AtJail(g, p) == g.jail[p] # 0 => g.position[p] = JailSquare

\* Parts of a landing add up.
LEMMA LandedIsTransitive ==
  ASSUME NEW f, NEW g, NEW h, NEW p, Landed(f, g, p), Landed(g, h, p)
  PROVE  Landed(f, h, p)
  BY DEF Landed, Owing

\* Paying somebody else opens a debt at most.
LEMMA AttemptPaymentLanded ==
  ASSUME NEW g \in GameDoc, NEW p \in Player, NEW n \in Int, NEW c \in 0 .. N, c # p
  PROVE  LET h == AttemptPayment(g, p, n, c)
         IN  Landed(g, h, p) /\ h.jail = g.jail /\ h.position = g.position
<1>1. g.balance[p] \in Int
  BY DEF GameDoc
<1>2. CASE n <= 0 \/ (~ (g.balance[p] >= n) /\ g.debt # NoDebt)
  <2>1. AttemptPayment(g, p, n, c) = g
    BY <1>1, <1>2 DEF AttemptPayment
  <2> QED BY <2>1 DEF Landed
<1>3. CASE n > 0 /\ g.balance[p] >= n
  <2> DEFINE b == [q \in Player |-> g.balance[q] - (IF q = p THEN n ELSE 0)
                                                 + (IF q = c THEN n ELSE 0)]
  <2>1. AttemptPayment(g, p, n, c) = [g EXCEPT !.balance = b]
    BY <1>1, <1>3 DEF AttemptPayment, TransferFunds
  <2> HIDE DEF b
  <2> QED BY <2>1 DEF Landed, Estates, GameDoc
<1>4. CASE n > 0 /\ ~ (g.balance[p] >= n) /\ g.debt = NoDebt
  <2> DEFINE d == [debtor |-> p, creditor |-> c, owed |-> n]
  <2>1. AttemptPayment(g, p, n, c) = [g EXCEPT !.debt = d, !.phase = "bankrupt_resolution"]
    BY <1>4 DEF AttemptPayment, OweDebt
  <2>2. d # NoDebt /\ d.debtor # d.creditor
    BY Sizes DEF NoDebt, NoOne, Player
  <2> HIDE DEF d
  <2> QED BY <2>1, <2>2 DEF Landed, Estates, Owing, GameDoc
<1> QED BY <1>2, <1>3, <1>4

\* The end of a paid landing.
LEMMA PaidLandingLanded ==
  ASSUME NEW g \in GameDoc, NEW p \in Player, NEW n \in Int, NEW c \in 0 .. N, c # p,
         NEW ph \in {"post_roll", "must_pay_rent"}
  PROVE  LET h == AfterPayment(AttemptPayment(g, p, n, c), ph)
         IN  Landed(g, h, p) /\ h.jail = g.jail /\ h.position = g.position
<1> DEFINE k == AttemptPayment(g, p, n, c)
<1>1. k \in GameDoc
  BY AttemptPaymentKept DEF Kept
<1>2. Landed(g, k, p) /\ k.jail = g.jail /\ k.position = g.position
  BY AttemptPaymentLanded
<1> HIDE DEF k
<1> DEFINE h == AfterPayment(k, ph)
<1>3. Landed(k, h, p) /\ h.jail = k.jail /\ h.position = k.position
  BY <1>1 DEF AfterPayment, Landed, Estates, GameDoc
<1> HIDE DEF h
<1> QED BY <1>2, <1>3, LandedIsTransitive DEF h, k

\* The dice move a free token along the board.
LEMMA AdvancePositionLanded ==
  ASSUME NEW g \in GameDoc, NEW p \in Player, NEW steps, g.jail[p] = 0
  PROVE  LET h == AdvancePosition(g, p, steps)
         IN  Landed(g, h, p) /\ h.jail[p] = 0
  BY DEF AdvancePosition, PaySalary, Landed, Estates, GameDoc

\* A square without a card.
LEMMA LandPlainLanded ==
  ASSUME NEW g \in GameDoc, NEW p \in Player, g.jail[p] = 0, NEW h \in LandPlain(g, p)
  PROVE  Landed(g, h, p) /\ AtJail(h, p)
<1> DEFINE s == g.position[p]
<1>1. s \in Square /\ p # NoOne
  <2>1. s \in Square
    BY DEF GameDoc
  <2>2. p # NoOne
    BY Sizes DEF NoOne, Player
  <2> QED BY <2>1, <2>2
<1>2. CASE Kind[s] = "goto_jail"
  <2>1. LandPlain(g, p) =
          {[SendToJail(g, p) EXCEPT !.pending = NoSquare, !.phase = "post_roll"]}
    BY <1>2 DEF LandPlain, OwesRent, Purchasable
  <2>2. h = [SendToJail(g, p) EXCEPT !.pending = NoSquare, !.phase = "post_roll"]
    BY <2>1
  <2> QED BY <2>2 DEF SendToJail, Landed, Estates, AtJail, GameDoc
<1>3. CASE Kind[s] = "tax"
  <2>1. LandPlain(g, p) = {AfterPayment(AttemptPayment(g, p, Tax[s], NoOne), "post_roll")}
    BY <1>3 DEF LandPlain, OwesRent, Purchasable
  <2>2. Tax[s] \in Int /\ NoOne \in 0 .. N
    BY <1>1, Sizes, GameAssumption DEF NoOne
  <2>3. h = AfterPayment(AttemptPayment(g, p, Tax[s], NoOne), "post_roll")
    BY <2>1
  <2>4. Landed(g, h, p) /\ h.jail = g.jail
    BY <1>1, <2>2, <2>3, PaidLandingLanded
  <2> QED BY <2>4 DEF AtJail
<1>4. CASE Kind[s] \notin {"goto_jail", "tax"} /\ OwesRent(g, p, s)
  <2>1. PICK rent \in Rents :
          h = AfterPayment(AttemptPayment(g, p, rent, g.owner[s]), "must_pay_rent")
    <3>1. LandPlain(g, p) =
            {AfterPayment(AttemptPayment(g, p, rent, g.owner[s]), "must_pay_rent") :
               rent \in Rents}
      BY <1>4, Zenon DEF LandPlain
    <3> QED BY <3>1
  <2>2. rent \in Int
    BY GameAssumption
  <2>3. g.owner[s] \in 0 .. N /\ g.owner[s] # p
    BY <1>1, <1>4 DEF GameDoc, OwesRent
  <2>4. Landed(g, h, p) /\ h.jail = g.jail
    BY <2>1, <2>2, <2>3, PaidLandingLanded
  <2> QED BY <2>4 DEF AtJail
<1>5. CASE Kind[s] \notin {"goto_jail", "tax"} /\ ~ OwesRent(g, p, s)
  <2> DEFINE k == IF Purchasable(s) /\ g.owner[s] = NoOne THEN s ELSE NoSquare
  <2>1. h = [g EXCEPT !.pending = k, !.phase = "post_roll"]
    <3>1. LandPlain(g, p) = {[g EXCEPT !.pending = k, !.phase = "post_roll"]}
      BY <1>5, Zenon DEF LandPlain
    <3> QED BY <3>1
  <2> HIDE DEF k
  <2> QED BY <2>1 DEF Landed, Estates, AtJail, GameDoc
<1> QED BY <1>2, <1>3, <1>4, <1>5

\* Drawing a card moves no token,
LEMMA DrawLanded ==
  ASSUME NEW g \in GameDoc, NEW p \in Player, NEW d, NEW c
  PROVE  Landed(g, Draw(g, d, c), p) /\ Draw(g, d, c).jail = g.jail
  BY DEF Draw, Landed, Estates, GameDoc

\* a movement card moves one that is free,
LEMMA DisplaceLanded ==
  ASSUME NEW g \in GameDoc, NEW p \in Player, NEW c, g.jail[p] = 0
  PROVE  Landed(g, Displace(g, p, c), p) /\ Displace(g, p, c).jail[p] = 0
  BY DEF Displace, PaySalary, Landed, Estates, GameDoc

\* and the other cards take it to jail at most.
LEMMA FixedEffectLanded ==
  ASSUME NEW g \in GameDoc, NEW p \in Player, NEW d \in Decks, NEW c \in Cards[d],
         g.jail[p] = 0
  PROVE  Landed(g, FixedEffect(g, p, c), p) /\ AtJail(FixedEffect(g, p, c), p)
<1> DEFINE h == FixedEffect(g, p, c)
<1>1. c.n \in Nat /\ c.m \in Nat /\ c.n \in Int
  BY CardTyped
<1>2. NoOne \in 0 .. N /\ NoOne # p
  BY Sizes DEF NoOne, Player
<1>3. ASSUME NEW n \in Int, h = AttemptPayment(g, p, n, NoOne)
      PROVE  Landed(g, h, p) /\ AtJail(h, p)
  <2>1. Landed(g, h, p) /\ h.jail = g.jail
    BY <1>2, <1>3, AttemptPaymentLanded
  <2> QED BY <2>1 DEF AtJail
<1>4. ASSUME NEW b, h = [g EXCEPT !.balance = b]
      PROVE  Landed(g, h, p) /\ AtJail(h, p)
  BY <1>4 DEF Landed, Estates, AtJail, GameDoc
<1>5. CASE c.type = "collect"
  <2>1. h = [g EXCEPT !.balance = [g.balance EXCEPT ![p] = @ + c.n]]
    BY <1>5 DEF FixedEffect
  <2> QED BY <2>1, <1>4
<1>6. CASE c.type = "pay"
  <2>1. h = AttemptPayment(g, p, c.n, NoOne)
    BY <1>6 DEF FixedEffect
  <2> QED BY <1>1, <1>3, <2>1
<1>7. CASE c.type = "collect_from_each"
  <2>1. h = CollectFromEach(g, p, c.n)
    BY <1>7 DEF FixedEffect
  <2> QED BY <2>1, <1>4 DEF CollectFromEach
<1>8. CASE c.type = "pay_each"
  <2>1. h = PayEach(g, p, c.n)
    BY <1>8 DEF FixedEffect
  <2> QED BY <2>1, <1>4 DEF PayEach
<1>9. CASE c.type = "repairs"
  <2>1. h = AttemptPayment(g, p, RepairCost(g, p, c.n, c.m), NoOne)
    BY <1>9 DEF FixedEffect
  <2>2. RepairCost(g, p, c.n, c.m) \in Int
    BY <1>1, RepairCostIsInt
  <2> QED BY <1>3, <2>1, <2>2
<1>10. CASE c.type = "jail_free"
  <2> DEFINE k == [g.cards EXCEPT ![p] = @ + 1]
  <2>1. h = [g EXCEPT !.cards = k]
    BY <1>10 DEF FixedEffect
  <2> HIDE DEF k
  <2> QED BY <2>1 DEF Landed, Estates, AtJail, GameDoc
<1>11. CASE c.type \notin {"collect", "pay", "collect_from_each", "pay_each",
                          "repairs", "jail_free"}
  <2>1. h = SendToJail(g, p)
    BY <1>11 DEF FixedEffect
  <2> QED BY <2>1 DEF SendToJail, Landed, Estates, AtJail, GameDoc
<1> HIDE DEF h
<1> QED BY <1>5, <1>6, <1>7, <1>8, <1>9, <1>10, <1>11 DEF h

\* Ending the movement in jail moves nothing.
LEMMA AfterCardLanded ==
  ASSUME NEW g \in GameDoc, NEW p \in Player, AtJail(g, p)
  PROVE  Landed(g, AfterCard(g, p), p) /\ AtJail(AfterCard(g, p), p)
  BY DEF AfterCard, Landed, Estates, AtJail, GameDoc
\* So the second draw of a landing,
LEMMA SecondDrawLanded ==
  ASSUME NEW g \in GameDoc, NEW p \in Player, NEW d \in Decks, g.jail[p] = 0,
         NEW h \in SecondDraw(g, p, d)
  PROVE  Landed(g, h, p) /\ AtJail(h, p)
<1>1. PICK c \in OnTop(g, d) :
        \E k \in (IF c.type \in MoveEffects
                 THEN LandPlain(Displace(Draw(g, d, c), p, c), p)
                 ELSE {FixedEffect(Draw(g, d, c), p, c)}) : h = AfterCard(k, p)
  BY DEF SecondDraw
<1>2. c \in Cards[d]
  BY DEF OnTop
<1> DEFINE drawn == Draw(g, d, c)
           moved == Displace(drawn, p, c)
<1>3. drawn \in GameDoc /\ Landed(g, drawn, p) /\ drawn.jail[p] = 0
  BY DrawKept, DrawLanded DEF Kept
<1> HIDE DEF drawn
<1>4. ASSUME NEW k \in GameDoc, Landed(drawn, k, p), AtJail(k, p), h = AfterCard(k, p)
      PROVE  Landed(g, h, p) /\ AtJail(h, p)
  BY <1>3, <1>4, AfterCardLanded, LandedIsTransitive
<1>5. CASE c.type \in MoveEffects
  <2>1. moved \in GameDoc
    BY <1>2, <1>3, <1>5, DisplaceKept DEF Kept
  <2>2. Landed(drawn, moved, p) /\ moved.jail[p] = 0
    BY <1>3, DisplaceLanded
  <2>3. PICK k \in LandPlain(moved, p) : h = AfterCard(k, p)
    BY <1>1, <1>5 DEF drawn
  <2> HIDE DEF moved
  <2>4. k \in GameDoc /\ Landed(moved, k, p) /\ AtJail(k, p)
    BY <2>1, <2>2, LandPlainKept, LandPlainLanded DEF Kept
  <2>5. Landed(drawn, k, p)
    BY <2>2, <2>4, LandedIsTransitive
  <2> QED BY <1>4, <2>3, <2>4, <2>5
<1>6. CASE c.type \notin MoveEffects
  <2> DEFINE k == FixedEffect(drawn, p, c)
  <2>1. k \in GameDoc /\ Landed(drawn, k, p) /\ AtJail(k, p)
    BY <1>2, <1>3, FixedEffectKept, FixedEffectLanded DEF Kept
  <2>2. h = AfterCard(k, p)
    BY <1>1, <1>6 DEF drawn
  <2> HIDE DEF k
  <2> QED BY <1>4, <2>1, <2>2
<1> QED BY <1>5, <1>6

\* where a movement card ends,
LEMMA LandAfterCardLanded ==
  ASSUME NEW g \in GameDoc, NEW p \in Player, g.jail[p] = 0, NEW h \in LandAfterCard(g, p)
  PROVE  Landed(g, h, p) /\ AtJail(h, p)
  BY SecondDrawLanded, LandPlainLanded DEF LandAfterCard

\* the first draw,
LEMMA FirstDrawLanded ==
  ASSUME NEW g \in GameDoc, NEW p \in Player, NEW d \in Decks, g.jail[p] = 0,
         NEW h \in FirstDraw(g, p, d)
  PROVE  Landed(g, h, p) /\ AtJail(h, p)
<1>1. PICK c \in OnTop(g, d) :
        \E k \in (IF c.type \in MoveEffects
                 THEN LandAfterCard(Displace(Draw(g, d, c), p, c), p)
                 ELSE {FixedEffect(Draw(g, d, c), p, c)}) : h = AfterCard(k, p)
  BY DEF FirstDraw
<1>2. c \in Cards[d]
  BY DEF OnTop
<1> DEFINE drawn == Draw(g, d, c)
           moved == Displace(drawn, p, c)
<1>3. drawn \in GameDoc /\ Landed(g, drawn, p) /\ drawn.jail[p] = 0
  BY DrawKept, DrawLanded DEF Kept
<1> HIDE DEF drawn
<1>4. ASSUME NEW k \in GameDoc, Landed(drawn, k, p), AtJail(k, p), h = AfterCard(k, p)
      PROVE  Landed(g, h, p) /\ AtJail(h, p)
  BY <1>3, <1>4, AfterCardLanded, LandedIsTransitive
<1>5. CASE c.type \in MoveEffects
  <2>1. moved \in GameDoc
    BY <1>2, <1>3, <1>5, DisplaceKept DEF Kept
  <2>2. Landed(drawn, moved, p) /\ moved.jail[p] = 0
    BY <1>3, DisplaceLanded
  <2>3. PICK k \in LandAfterCard(moved, p) : h = AfterCard(k, p)
    BY <1>1, <1>5 DEF drawn
  <2> HIDE DEF moved
  <2>4. k \in GameDoc /\ Landed(moved, k, p) /\ AtJail(k, p)
    BY <2>1, <2>2, LandAfterCardKept, LandAfterCardLanded DEF Kept
  <2>5. Landed(drawn, k, p)
    BY <2>2, <2>4, LandedIsTransitive
  <2> QED BY <1>4, <2>3, <2>4, <2>5
<1>6. CASE c.type \notin MoveEffects
  <2> DEFINE k == FixedEffect(drawn, p, c)
  <2>1. k \in GameDoc /\ Landed(drawn, k, p) /\ AtJail(k, p)
    BY <1>2, <1>3, FixedEffectKept, FixedEffectLanded DEF Kept
  <2>2. h = AfterCard(k, p)
    BY <1>1, <1>6 DEF drawn
  <2> HIDE DEF k
  <2> QED BY <1>4, <2>1, <2>2
<1> QED BY <1>5, <1>6

\* and a landing as a whole change no more than Landed says.
LEMMA ResolveLandingLanded ==
  ASSUME NEW g \in GameDoc, NEW p \in Player, g.jail[p] = 0, NEW h \in ResolveLanding(g, p)
  PROVE  Landed(g, h, p) /\ AtJail(h, p)
  BY FirstDrawLanded, LandPlainLanded DEF ResolveLanding

\* A move out of jail, or by a free player, ends as a landing ends; if it ends in
\* jail the turn is over, and the doubles run with it.
LEMMA ExecuteMoveLanded ==
  ASSUME NEW g \in GameDoc, NEW p \in Player, NEW steps \in Int, NEW extraRoll \in BOOLEAN,
         g.jail[p] = 0, NEW k \in ExecuteMove(g, p, steps, extraRoll)
  PROVE  /\ Landed(g, k, p)
         /\ AtJail(k, p)
         /\ k.jail[p] # 0 => k.phase = "post_roll" /\ k.streak = 0
<1> DEFINE there == AdvancePosition(g, p, steps)
<1>1. there \in GameDoc /\ Landed(g, there, p) /\ there.jail[p] = 0
  BY AdvancePositionKept, AdvancePositionLanded DEF Kept
<1>2. PICK h \in ResolveLanding(there, p) : k = AfterMove(h, p, extraRoll, g.streak + 1)
  BY DEF ExecuteMove
<1> HIDE DEF there
<1>3. h \in GameDoc /\ Landed(there, h, p) /\ AtJail(h, p)
  BY <1>1, ResolveLandingKept, ResolveLandingLanded DEF Kept
<1>4. Landed(g, h, p)
  BY <1>1, <1>3, LandedIsTransitive
<1> QED BY <1>2, <1>3, <1>4 DEF AfterMove, Landed, Estates, Owing, AtJail, GameDoc
=============================================================================
