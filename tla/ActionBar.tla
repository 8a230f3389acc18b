----------------------------- MODULE ActionBar -----------------------------
(***************************************************************************)
(* The actions a client is offered (actions.py: compute_actions), which it *)
(* gates its buttons on.  They are computed apart from the engine's own    *)
(* checks: by phase, and by scanning the player's own list of squares      *)
(* where the engine asks each square for its owner.                        *)
(***************************************************************************)
EXTENDS GameEngine

CONSTANT ShownFine  \* JAIL_FINE, which the flag tests; JailFine is what settings charge

ASSUME ActionBarAssumption == ShownFine \in Nat

Flags ==
  {"roll", "buy", "build", "mortgage", "unmortgage", "trade", "end_turn", "pay_jail_fine",
   "use_jail_card", "bid", "declare_bankruptcy", "surrender"}

\* Mutant: who holds the highest bid is taken for the player itself.
BidFlagOutbid(g, p) ==
  p \notin g.out /\ g.auction # NoAuction /\ g.auction.bidder = p /\ g.balance[p] > g.auction.bid

\* The highest bidder is not asked to outbid itself.
BidFlag(g, p) ==
  p \notin g.out /\ g.auction # NoAuction /\ g.auction.bidder # p /\ g.balance[p] > g.auction.bid

TradeFlag(g) == g.trade = NoTrade /\ g.offers < MaxOffers

\* Mutant: only the square the player stands on is looked at.
EstateFlagsHere(g, p) ==
  (IF \E s \in g.owned[p] \cap {g.position[p]} : MayBuild(g, p, s) THEN {"build"} ELSE {})
  \cup (IF \E s \in g.owned[p] \cap {g.position[p]} : MayMortgage(g, p, s) THEN {"mortgage"} ELSE {})
  \cup (IF \E s \in g.owned[p] \cap {g.position[p]} : MayRedeem(g, p, s) THEN {"unmortgage"} ELSE {})

EstateFlags(g, p) ==
  (IF \E s \in g.owned[p] : MayBuild(g, p, s) THEN {"build"} ELSE {})
  \cup (IF \E s \in g.owned[p] : MayMortgage(g, p, s) THEN {"mortgage"} ELSE {})
  \cup (IF \E s \in g.owned[p] : MayRedeem(g, p, s) THEN {"unmortgage"} ELSE {})

\* The flags of the turn holder in each phase; the condition of a flag comes
\* with it, and what has none is always set.
TurnFlags(g, p) ==
  CASE g.phase = "jail_decision" ->
         {f \in {"roll", "pay_jail_fine", "use_jail_card", "surrender"} :
            /\ f = "pay_jail_fine" => g.balance[p] >= ShownFine
            /\ f = "use_jail_card" => g.cards[p] > 0}
    [] g.phase = "pre_roll" ->
         {f \in {"roll", "trade", "surrender"} :
            f = "trade" => TradeFlag(g) /\ g.status = "in_progress"} \cup EstateFlags(g, p)
    [] g.phase = "post_roll" ->
         {f \in {"buy", "trade", "end_turn", "surrender"} :
            /\ f = "buy" => g.pending # NoSquare /\ g.owner[g.pending] = NoOne
            /\ f = "trade" => TradeFlag(g)
            /\ f = "end_turn" => g.pending = NoSquare} \cup EstateFlags(g, p)
    [] g.phase = "must_pay_rent" -> {"end_turn", "surrender"}
    [] g.phase = "bankrupt_resolution" ->
         {f \in {"declare_bankruptcy", "end_turn"} : f = "end_turn" => g.debt = NoDebt}
           \cup EstateFlags(g, p)
    [] OTHER -> {}

\* actions_available, as the player p sees it.
Offered(g, p) ==
  IF g.phase = "auction"
  THEN IF BidFlag(g, p) THEN {"bid"} ELSE {}
  ELSE IF p = g.current THEN TurnFlags(g, p) ELSE {}
=============================================================================
