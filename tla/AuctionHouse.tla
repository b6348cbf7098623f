----------------------------- MODULE AuctionHouse -----------------------------
(* Auctions, all in the world's thread: a player puts up an item, others bid
   or buy it out, the owner cancels, or the time is up; items and money that
   fall due go out by mail.  The deposit is not taken at once: the auction is
   noted in pendingAuctionMap, and a timer settles what a player has put up
   once no more has come between two of its turns, so that a series of
   auctions costs one deposit.  Items are all of one kind and one count.      *)
EXTENDS Integers, Sequences, SequencesExt, FiniteSetsExt

CONSTANTS
  Players, AccountOf,
  Items,
  Offers,      \* records [startbid, buyout] a seller may ask for; buyout 0 is none
  Deposits,    \* Deposits[n]: GetAuctionDeposit of n items
  CutPercent,  \* cutPercent, what the house keeps of a price
  StartMoney,  \* of each player
  MaxAuctions, \* bound: auctions ever created
  NoOne

AuctionAssumption ==
  /\ IsFiniteSet(Players) /\ NoOne \notin Players
  /\ Offers \subseteq [startbid : Nat, buyout : Nat]
  /\ StartMoney \in Nat /\ CutPercent \in 0..100 /\ MaxAuctions \in Nat
  /\ \A n \in 1..MaxAuctions : Deposits[n] \in Nat

VARIABLES
  online, money, bags, \* of each player
  mail,                \* of each player: money and items not yet taken
  mAitems,             \* items the auction house holds
  AuctionsMap,         \* from the ids of the auctions there are
  lastId,
  pending,             \* of each player: ids noted, and their number at the timer's last turn
  house,               \* cuts, deposits lost and money spent elsewhere: nobody's any more
  forgiven,            \* what players could not pay any more when it was due
  unpaid               \* deposits paid back that had never been taken

moneyVars == <<money, house, forgiven, unpaid>>
vars == <<online, bags, mail, mAitems, AuctionsMap, lastId, pending, moneyVars>>

\* Of a player without an entry in pendingAuctionMap.
NoPending == [ids |-> <<>>, counted |-> 0]

Init ==
  /\ online = [p \in Players |-> TRUE]
  /\ money = [p \in Players |-> StartMoney]
  /\ bags \in [Players -> SUBSET Items]
  /\ \A i \in Items : \E p \in Players : {q \in Players : i \in bags[q]} = {p}
  /\ mail = [p \in Players |-> [money |-> 0, items |-> {}]]
  /\ mAitems = {} /\ AuctionsMap = <<>> /\ lastId = 0
  /\ pending = [p \in Players |-> NoPending]
  /\ house = 0 /\ forgiven = 0 /\ unpaid = 0

GetAuctionCut(price) == (price * CutPercent) \div 100
GetAuctionOutBid(price) == IF price * 5 < 100 THEN 1 ELSE (price * 5) \div 100

HasEnoughMoney(p, amount) == money[p] >= amount

\* ModifyMoney with a negative amount: what is missing is not asked for.
Less(p, amount) ==
  LET paid == IF money[p] > amount THEN amount ELSE money[p]
  IN /\ money' = [money EXCEPT ![p] = @ - paid]
     /\ forgiven' = forgiven + amount - paid

WithMoney(box, p, amount) == [box EXCEPT ![p].money = @ + amount]
WithItem(box, p, item) == [box EXCEPT ![p].items = @ \cup {item}]

-----------------------------------------------------------------------------
(* Putting up *)

\* Several at a time: the deposits of all of them must be there.
PendingAuctionAdd(p, id) ==
  /\ pending[p].ids # <<>> => HasEnoughMoney(p, Deposits[1] * (Len(pending[p].ids) + 1))
  /\ pending' = [pending EXCEPT ![p].ids = Append(@, id)]

MoveItemToAuction(p, item) ==
  /\ mAitems' = mAitems \cup {item}
  /\ bags' = [bags EXCEPT ![p] = @ \ {item}]

HandleAuctionSellItem(p, item, offer) ==
  /\ online[p] /\ item \in bags[p] /\ item \notin mAitems /\ lastId < MaxAuctions
  /\ HasEnoughMoney(p, Deposits[1])
  /\ lastId' = lastId + 1
  /\ PendingAuctionAdd(p, lastId')
  /\ AuctionsMap' = [id \in DOMAIN AuctionsMap \cup {lastId'} |->
       IF id # lastId' THEN AuctionsMap[id]
       ELSE [item |-> item, owner |-> p, startbid |-> offer.startbid, buyout |-> offer.buyout,
             bidder |-> NoOne, bid |-> 0, deposit |-> Deposits[1], expired |-> FALSE, paid |-> FALSE]]
  /\ MoveItemToAuction(p, item)
  /\ UNCHANGED <<online, mail, moneyVars>>

-----------------------------------------------------------------------------
(* Settling the deposits *)

\* Mutant: every one gets the same.
EqualShare(ids, k, total) == total \div Len(ids)

\* Every auction gets its share, the last one what remains.
Share(ids, k, total) ==
  IF k = Len(ids) THEN total - (Len(ids) - 1) * (total \div Len(ids)) ELSE total \div Len(ids)

PlaceOf(ids, id) == CHOOSE k \in 1..Len(ids) : ids[k] = id

WithDeposits(ids, total) ==
  [id \in DOMAIN AuctionsMap |->
     IF id \in ToSet(ids)
     THEN [AuctionsMap[id] EXCEPT !.deposit = Share(ids, PlaceOf(ids, id), total), !.paid = TRUE]
     ELSE AuctionsMap[id]]

\* The shares of some auctions of a series.
SharesOf(some, ids, total) == SumFunction([id \in some |-> Share(ids, PlaceOf(ids, id), total)])

\* An auction that ended meanwhile has been deleted under its pointer: what is
\* still read there says whether the first item is found.
TotalDeposit(ids) ==
  IF ids[1] \in DOMAIN AuctionsMap THEN {Deposits[Len(ids)]} ELSE {0, Deposits[Len(ids)]}

PendingAuctionProcess(p) ==
  LET ids == pending[p].ids IN
  \E total \in TotalDeposit(ids) :
    /\ AuctionsMap' = WithDeposits(ids, total)
    /\ Less(p, total)
    /\ house' = house + SharesOf(ToSet(ids) \ DOMAIN AuctionsMap, ids, total) /\ UNCHANGED unpaid
    /\ pending' = [pending EXCEPT ![p] = NoPending]

Count(p) == pending' = [pending EXCEPT ![p].counted = Len(pending[p].ids)]

\* The player has gone: no deposit, and the auctions end.
ExpirePending(p) ==
  /\ AuctionsMap' = [id \in DOMAIN AuctionsMap |->
       [AuctionsMap[id] EXCEPT !.expired = @ \/ \E k \in 1..Len(pending[p].ids) : pending[p].ids[k] = id]]
  /\ pending' = [pending EXCEPT ![p] = NoPending]

\* The timer's turn, for one player after the other.
UpdatePendingAuctions(p) ==
  /\ pending[p].ids # <<>>
  /\ \/ /\ online[p] /\ Len(pending[p].ids) = pending[p].counted
        /\ PendingAuctionProcess(p)
     \/ /\ online[p] /\ Len(pending[p].ids) # pending[p].counted
        /\ Count(p) /\ UNCHANGED <<AuctionsMap, moneyVars>>
     \/ /\ ~online[p] /\ ExpirePending(p) /\ UNCHANGED moneyVars
  /\ UNCHANGED <<online, bags, mail, mAitems, lastId>>

-----------------------------------------------------------------------------
(* Bids *)

\* RemoveAItem and RemoveAuction.
RemoveAuction(id) ==
  /\ mAitems' = mAitems \ {AuctionsMap[id].item}
  /\ AuctionsMap' = [other \in DOMAIN AuctionsMap \ {id} |-> AuctionsMap[other]]

\* What the owner and the winner get by mail.
AfterSale(box, auction) ==
  WithItem(WithMoney(box, auction.owner, auction.bid + auction.deposit - GetAuctionCut(auction.bid)),
           auction.bidder, auction.item)

\* The cut stays with the house; the deposit goes back, whether taken or not.
BookSale(auction) ==
  /\ house' = house + GetAuctionCut(auction.bid)
  /\ unpaid' = unpaid + (IF auction.paid THEN 0 ELSE auction.deposit)

\* Without a sale a deposit that was taken stays with the house.
BookReturn(auction, cut) ==
  /\ house' = house + cut + (IF auction.paid THEN auction.deposit ELSE 0)
  /\ UNCHANGED unpaid

\* Mutant: a bidder gets nothing back when somebody else buys the item out.
Outbidden(auction, p, price) ==
  IF auction.bidder \in {NoOne, p} \/ price = auction.buyout THEN mail
  ELSE WithMoney(mail, auction.bidder, auction.bid)

\* The bidder so far gets the money back.
Outbid(auction, p, price) ==
  IF auction.bidder \in {NoOne, p} THEN mail ELSE WithMoney(mail, auction.bidder, auction.bid)

\* One who raises the own bid pays the difference.
ToPay(auction, p, price) == IF auction.bidder = p THEN price - auction.bid ELSE price

MayBid(auction, p, price) ==
  /\ auction.owner # p
  /\ online[auction.owner] \/ AccountOf[auction.owner] # AccountOf[p]
  /\ price > auction.bid /\ price >= auction.startbid
  /\ (price < auction.buyout \/ auction.buyout = 0) => price >= auction.bid + GetAuctionOutBid(auction.bid)
  /\ HasEnoughMoney(p, price)

HandleAuctionPlaceBid(p, id, price) ==
  LET auction == AuctionsMap[id]
      buyout == auction.buyout # 0 /\ price >= auction.buyout
      paid == IF buyout THEN auction.buyout ELSE price
      after == [auction EXCEPT !.bidder = p, !.bid = paid]
  IN /\ online[p] /\ MayBid(auction, p, price)
     /\ Less(p, ToPay(auction, p, paid))
     /\ IF buyout
        THEN /\ mail' = AfterSale(Outbid(auction, p, paid), after)
             /\ BookSale(after) /\ RemoveAuction(id)
        ELSE /\ mail' = Outbid(auction, p, paid)
             /\ AuctionsMap' = [AuctionsMap EXCEPT ![id] = after]
             /\ UNCHANGED <<house, unpaid, mAitems>>
     /\ UNCHANGED <<online, bags, lastId, pending>>

\* The owner pays the cut if somebody has bidden.
HandleAuctionRemoveItem(p, id) ==
  LET auction == AuctionsMap[id]
      cut == IF auction.bidder = NoOne THEN 0 ELSE GetAuctionCut(auction.bid)
  IN /\ online[p] /\ auction.owner = p /\ HasEnoughMoney(p, cut)
     /\ mail' = WithItem(IF auction.bidder = NoOne THEN mail ELSE WithMoney(mail, auction.bidder, auction.bid),
                         p, auction.item)
     /\ Less(p, cut) /\ BookReturn(auction, cut) /\ RemoveAuction(id)
     /\ UNCHANGED <<online, bags, lastId, pending>>

\* The time of an auction is up: hours after it was settled, or when its owner
\* left before that.
Expire(id) ==
  LET auction == AuctionsMap[id] IN
  /\ \A p \in Players : \A k \in 1..Len(pending[p].ids) : pending[p].ids[k] # id
  /\ IF auction.bidder = NoOne
     THEN mail' = WithItem(mail, auction.owner, auction.item) /\ BookReturn(auction, 0)
     ELSE mail' = AfterSale(mail, auction) /\ BookSale(auction)
  /\ RemoveAuction(id)
  /\ UNCHANGED <<online, money, bags, lastId, pending, forgiven>>

-----------------------------------------------------------------------------
(* What else a player does *)

TakeMail(p) ==
  /\ online[p] /\ mail[p] # [money |-> 0, items |-> {}]
  /\ money' = [money EXCEPT ![p] = @ + mail[p].money]
  /\ bags' = [bags EXCEPT ![p] = @ \cup mail[p].items]
  /\ mail' = [mail EXCEPT ![p] = [money |-> 0, items |-> {}]]
  /\ UNCHANGED <<online, mAitems, AuctionsMap, lastId, pending, house, forgiven, unpaid>>

Spend(p) ==
  /\ online[p] /\ money[p] > 0
  /\ money' = [money EXCEPT ![p] = 0] /\ house' = house + money[p]
  /\ UNCHANGED <<online, bags, mail, mAitems, AuctionsMap, lastId, pending, forgiven, unpaid>>

\* Logging out, and in again.
Connect(p) ==
  /\ online' = [online EXCEPT ![p] = ~@]
  /\ UNCHANGED <<bags, mail, mAitems, AuctionsMap, lastId, pending, moneyVars>>

Next ==
  \/ \E p \in Players :
       \/ \E item \in Items, offer \in Offers : HandleAuctionSellItem(p, item, offer)
       \/ \E id \in DOMAIN AuctionsMap :
            HandleAuctionRemoveItem(p, id) \/ \E price \in 1..money[p] : HandleAuctionPlaceBid(p, id, price)
       \/ UpdatePendingAuctions(p) \/ TakeMail(p) \/ Spend(p) \/ Connect(p)
  \/ \E id \in DOMAIN AuctionsMap : Expire(id)

Spec == Init /\ [][Next]_vars

\* One whose time was set to now.
Overdue(id) == id \in DOMAIN AuctionsMap /\ AuctionsMap[id].expired /\ Expire(id)

\* One timer fires every 250 ms, the other every minute.
Fairness ==
  /\ \A p \in Players : WF_vars(UpdatePendingAuctions(p))
  /\ \A id \in 1..MaxAuctions : WF_vars(Overdue(id))

FairSpec == Spec /\ Fairness

-----------------------------------------------------------------------------
(* Properties *)

TypeOK ==
  /\ online \in [Players -> BOOLEAN] /\ money \in [Players -> Nat]
  /\ bags \in [Players -> SUBSET Items] /\ mAitems \subseteq Items
  /\ mail \in [Players -> [money : Nat, items : SUBSET Items]]
  /\ lastId \in 0..MaxAuctions /\ DOMAIN AuctionsMap \subseteq 1..lastId
  /\ {house, forgiven, unpaid} \subseteq Nat
  /\ \A p \in Players : pending[p].counted <= Len(pending[p].ids)

\* An item is in one place: a bag, a mail or the auction house, and there it
\* belongs to one auction.  It is neither lost nor doubled when auctions are
\* sold, bought out, cancelled or left by their owners.
ItemInOnePlace ==
  /\ \A i \in Items :
       Cardinality({p \in Players : i \in bags[p]}) + Cardinality({p \in Players : i \in mail[p].items})
         + (IF i \in mAitems THEN 1 ELSE 0) = 1
  /\ mAitems = {AuctionsMap[id].item : id \in DOMAIN AuctionsMap}
  /\ \A x, y \in DOMAIN AuctionsMap : AuctionsMap[x].item = AuctionsMap[y].item => x = y

\* What the house holds with an auction: the highest bid, and the deposit once
\* it has been taken.
Held(auction) == auction.bid + (IF auction.paid THEN auction.deposit ELSE 0)

\* Every bid and every deposit that was taken is held with its auction, paid
\* back once, or kept by the house: what the players have, what is held for
\* them and what the house got is what there was at first and, beyond that, what
\* was forgiven and what was paid back unpaid.  Both make money: a player who
\* spends it before the deposit is due, and one who leaves before that and whose
\* auction is sold, get back a deposit that they have not paid.
Balanced ==
  SumFunction([p \in Players |-> money[p] + mail[p].money])
    + SumFunction([id \in DOMAIN AuctionsMap |-> Held(AuctionsMap[id])]) + house
  = StartMoney * Cardinality(Players) + forgiven + unpaid

\* Both: no item is lost or held twice, and no money but what was not paid when
\* it was due is made.
Conserved == ItemInOnePlace /\ Balanced

\* The deposits noted with the auctions of a series are what was asked for it,
\* whatever the division leaves over.
DepositsAddUp ==
  [][\A p \in Players :
       LET ids == ToSet(pending[p].ids) IN
       online[p] /\ ids # {} /\ pending'[p].ids = <<>> /\ ids \subseteq DOMAIN AuctionsMap
         => SumFunction([id \in ids |-> AuctionsMap'[id].deposit]) = Deposits[Cardinality(ids)]]_vars

\* No auction stays unpaid for ever: the deposits of a series are taken by the
\* one timer, or the owner has left and the other ends the auction.
EveryAuctionSettled ==
  \A id \in 1..MaxAuctions : []<>(id \in DOMAIN AuctionsMap => AuctionsMap[id].paid)

\* Both: each series is settled, and rightly.
DepositsSettled == DepositsAddUp /\ EveryAuctionSettled
=============================================================================
