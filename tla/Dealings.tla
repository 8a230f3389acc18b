------------------------------ MODULE Dealings ------------------------------
(***************************************************************************)
(* Auctions (auction.py) and trades (trade.py): the two exchanges that     *)
(* outlive the command that opens them and are closed by a player's answer *)
(* or by the scheduler.  Deadlines are not modelled: an exchange may       *)
(* expire at any moment.                                                   *)
(***************************************************************************)
EXTENDS GameRules

StartAuction(g, s) ==
  [g EXCEPT !.auction = [NoAuction EXCEPT !.pos = s],
            !.phase = "auction",
            !.pending = NoSquare]

\* A bid is checked against the balance of the moment; no money is set aside.
MayBid(g, p, amount) ==
  /\ g.auction # NoAuction
  /\ g.phase = "auction"
  /\ p \notin g.out
  /\ g.balance[p] >= amount
  /\ amount > g.auction.bid

PlaceBidBy(g, p, amount) ==
  [g EXCEPT !.auction.bid = amount, !.auction.bidder = p]

\* Mutant: an auction without a bid leaves the phase as it is.
ResolveAuctionUnsold(g) ==
  [g EXCEPT !.auction = NoAuction,
            !.phase = IF g.auction.bidder = NoOne THEN @ ELSE "post_roll"]

\* The highest bidder gets the square and pays, whatever has happened to either
\* since the bid; the turn goes back to whoever holds it.
ResolveAuction(g) ==
  LET b == g.auction.bidder
      s == g.auction.pos
      sold == IF b = NoOne THEN g
              ELSE [g EXCEPT !.owner[s] = b,
                             !.owned[b] = @ \cup {s},
                             !.balance[b] = @ - g.auction.bid]
  IN  [sold EXCEPT !.auction = NoAuction,
                   !.phase = IF g.streak > 0 THEN "pre_roll" ELSE "post_roll"]

(***************************************************************************)
(* Trades                                                                  *)
(***************************************************************************)

ValidOffer(g, p, o) ==
  /\ o.money <= g.balance[p]
  /\ o.cards <= g.cards[p]
  /\ \A s \in o.squares : g.owner[s] = p /\ g.level[s] = 0

\* Mutant: no limit to the offers of a turn.
MayProposeAgain(g, p, target, offer, request) ==
  p # target /\ g.trade = NoTrade /\ ValidOffer(g, p, offer) /\ ValidOffer(g, target, request)

\* Neither the phase nor the target being out of the game is looked at.
MayPropose(g, p, target, offer, request) ==
  /\ p # target
  /\ g.trade = NoTrade
  /\ g.offers < MaxOffers
  /\ ValidOffer(g, p, offer)
  /\ ValidOffer(g, target, request)

Propose(g, p, q, o, r) ==
  [g EXCEPT !.trade = [proposer |-> p, target |-> q, offer |-> o, request |-> r],
            !.phase = "trade_negotiation",
            !.offers = @ + 1]

\* Mutant: the phase is left in trade_negotiation.
CloseTradeOnly(g) == [g EXCEPT !.trade = NoTrade]

\* Rejection and expiry alike end the negotiation in post_roll.
CloseTrade(g) == [g EXCEPT !.trade = NoTrade, !.phase = "post_roll"]

\* The target's counter replaces what is asked of the target, but it is the
\* proposer's holdings the code checks it against.
MayCounter(g, p, counter) ==
  /\ g.trade # NoTrade
  /\ p = g.trade.target
  /\ ValidOffer(g, g.trade.proposer, counter)

Counter(g, counter) == [g EXCEPT !.trade.request = counter]

\* Mutant: what was asked of the target is not validated again.
MayAcceptUnchecked(g, p) ==
  /\ g.trade # NoTrade
  /\ p \in {g.trade.proposer, g.trade.target}
  /\ ValidOffer(g, g.trade.proposer, g.trade.offer)

\* Either party may accept; both sides are validated again.
MayAccept(g, p) ==
  /\ g.trade # NoTrade
  /\ p \in {g.trade.proposer, g.trade.target}
  /\ ValidOffer(g, g.trade.proposer, g.trade.offer)
  /\ ValidOffer(g, g.trade.target, g.trade.request)

\* The two parties swap money, squares and jail cards in one step.
ExecuteTrade(g) ==
  LET p == g.trade.proposer
      t == g.trade.target
      o == g.trade.offer
      r == g.trade.request
      balance == [g.balance EXCEPT ![p] = @ + r.money - o.money,
                                   ![t] = @ + o.money - r.money]
      cards == [g.cards EXCEPT ![p] = @ + r.cards - o.cards,
                               ![t] = @ + o.cards - r.cards]
      owner == [s \in Square |-> CASE s \in r.squares -> p
                                   [] s \in o.squares \ r.squares -> t
                                   [] OTHER -> g.owner[s]]
      owned == [g.owned EXCEPT ![p] = (@ \ o.squares) \cup r.squares,
                               ![t] = (@ \cup o.squares) \ r.squares]
  IN  CloseTrade([g EXCEPT !.balance = balance, !.cards = cards,
                           !.owner = owner, !.owned = owned])
=============================================================================
