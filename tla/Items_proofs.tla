----------------------------- MODULE Items_proofs -----------------------------
(* What trades and auctions promise, for any number of players and items: no
   item and no money is lost or doubled.                                     *)
EXTENDS Services, DataFacts, SequenceTheorems, TLAPS

-----------------------------------------------------------------------------
(* Trades *)

TradeTypes == trade \in [Players -> Trades!TradeData \cup {NoTrade}]

TradeInv == TradeTypes /\ Mirrored

\* What the constants are.
LEMMA TradeConstants ==
  /\ NoTrade \notin Trades!TradeData /\ NoItem \notin Items
  /\ NSlots \in Nat /\ MaxMoney \in Nat
BY TradesAssumption DEF Trades!TradeAssumption

\* Who trades has a TradeData, and a partner who has one, too.
LEMMA Pairs ==
  ASSUME TradeInv, NEW p \in Players, Trades!Trading(p), NEW q, q = Trades!Partner(p)
  PROVE  /\ q \in Players /\ p # q /\ Trades!Trading(q) /\ Trades!Partner(q) = p
         /\ trade[p] \in Trades!TradeData /\ trade[q] \in Trades!TradeData
<1>1. trade[p] \in Trades!TradeData
  BY DEF TradeInv, TradeTypes, Trades!Trading
<1>2. trade[p].trader \in Players
  BY <1>1 DEF Trades!TradeData
<1>3. Trades!Trading(q) /\ Trades!Partner(q) = p /\ q # p
  BY DEF TradeInv, Mirrored, Trades!Mirrored
<1>4. trade[q] \in Trades!TradeData
  BY <1>2, <1>3 DEF TradeInv, TradeTypes, Trades!Trading, Trades!Partner
<1> QED BY <1>1, <1>2, <1>3, <1>4 DEF Trades!Partner

\* Trades w differ from trades t in the acceptances of p and q, which are gone.
Unaccepted(w, t, p, q) ==
  /\ w \in [Players -> Trades!TradeData \cup {NoTrade}]
  /\ w[p] \in Trades!TradeData /\ w[q] \in Trades!TradeData
  /\ w[p].trader = t[p].trader /\ w[q].trader = t[q].trader
  /\ w[p].items = t[p].items /\ w[q].items = t[q].items
  /\ w[p].accepted = FALSE /\ w[q].accepted = FALSE
  /\ \A r \in Players \ {p, q} : w[r] = t[r]

\* SetAccepted(false) on both sides.
LEMMA WithdrawnFacts ==
  ASSUME NEW t \in [Players -> Trades!TradeData \cup {NoTrade}], NEW p \in Players,
         NEW q \in Players, p # q, t[p] \in Trades!TradeData, t[q] \in Trades!TradeData, t[p].trader = q
  PROVE  Unaccepted(Trades!Withdrawn(t, p), t, p, q)
<1> DEFINE w == Trades!Withdrawn(t, p)
           u == [t EXCEPT ![p].accepted = FALSE]
<1>0. w = [u EXCEPT ![q].accepted = FALSE]
  BY DEF Trades!Withdrawn
<1>1. /\ [t[p] EXCEPT !.accepted = FALSE] \in Trades!TradeData
      /\ [t[p] EXCEPT !.accepted = FALSE].trader = t[p].trader
      /\ [t[p] EXCEPT !.accepted = FALSE].items = t[p].items
      /\ [t[p] EXCEPT !.accepted = FALSE].accepted = FALSE
  BY DEF Trades!TradeData
<1>2. /\ [t[q] EXCEPT !.accepted = FALSE] \in Trades!TradeData
      /\ [t[q] EXCEPT !.accepted = FALSE].trader = t[q].trader
      /\ [t[q] EXCEPT !.accepted = FALSE].items = t[q].items
      /\ [t[q] EXCEPT !.accepted = FALSE].accepted = FALSE
  BY DEF Trades!TradeData
<1>3. /\ u \in [Players -> Trades!TradeData \cup {NoTrade}]
      /\ u[p] = [t[p] EXCEPT !.accepted = FALSE] /\ \A r \in Players \ {p} : u[r] = t[r]
  BY <1>1
<1> HIDE DEF u
<1>4. /\ w \in [Players -> Trades!TradeData \cup {NoTrade}]
      /\ w[q] = [u[q] EXCEPT !.accepted = FALSE] /\ \A r \in Players \ {q} : w[r] = u[r]
  <2>1. u[q] = t[q]
    BY <1>3
  <2>2. w = [u EXCEPT ![q] = [t[q] EXCEPT !.accepted = FALSE]]
    BY <1>0, <1>3, <2>1
  <2> QED BY <1>2, <1>3, <2>1, <2>2
<1>5. w[p] = [t[p] EXCEPT !.accepted = FALSE] /\ w[q] = [t[q] EXCEPT !.accepted = FALSE]
  BY <1>3, <1>4
<1>6. Unaccepted(w, t, p, q)
  <2> HIDE DEF w
  <2> QED BY <1>1, <1>2, <1>3, <1>4, <1>5 DEF Unaccepted
<1> QED BY <1>6

\* What a step may do to trades: it leaves all in place with their traders,
\* ends the one of a player, or begins one between two who had none.
Rewritten ==
  /\ TradeTypes' /\ online' = online
  /\ \A r \in Players : /\ trade'[r] = NoTrade <=> trade[r] = NoTrade
                        /\ trade[r] # NoTrade => trade'[r].trader = trade[r].trader

\* It leaves the offers alone, except that of a pair whose acceptances go.
SameOffer(r) ==
  trade[r] # NoTrade /\ trade'[r] # NoTrade =>
    /\ trade'[r].items = trade[r].items /\ trade'[r].money = trade[r].money
    /\ trade'[r].spell = trade[r].spell

OffersKept ==
  \/ \A r \in Players : SameOffer(r)
  \/ \E p \in Players :
       /\ Trades!Trading(p)
       /\ \A r \in Players :
            IF r \in {p, Trades!Partner(p)} THEN trade'[r].accepted = FALSE ELSE SameOffer(r)

\* What player r may put into slot s: nothing, or what is in no other slot and
\* may be given to the partner if it is to be given.
MayOffer(r, s, item) ==
  item = NoItem \/ /\ \A s2 \in Trades!Slots \ {s} : trade[r].items[s2] # item
                   /\ s # Trades!NonTraded => <<item, Trades!Partner(r)>> \notin Forbidden

\* A player's items stay in their slots, but for one he puts there or takes out.
ItemsStay(r) ==
  \/ trade'[r].items = trade[r].items
  \/ \E s \in Trades!Slots, item \in Items \cup {NoItem} :
       MayOffer(r, s, item) /\ trade'[r].items = [trade[r].items EXCEPT ![s] = item]

\* And so do they in a trade that goes on; one that begins offers nothing.
ItemsChange ==
  \A r \in Players : trade'[r] # NoTrade =>
    \/ trade[r] # NoTrade /\ trade'[r].trader = trade[r].trader /\ ItemsStay(r)
    \/ trade[r] = NoTrade /\ trade'[r].items = [s \in Trades!Slots |-> NoItem]

\* Trades that are only rewritten point at each other as before.
LEMMA RewrittenMirrored ==
  ASSUME TradeInv, Rewritten
  PROVE  TradeInv'
<1>1. ASSUME NEW p \in Players, trade'[p] # NoTrade
      PROVE  /\ {p, trade'[p].trader} \subseteq online'
             /\ trade'[trade'[p].trader] # NoTrade
             /\ trade'[trade'[p].trader].trader = p /\ trade'[p].trader # p
  <2>1. Trades!Trading(p)
    BY <1>1 DEF Rewritten, Trades!Trading
  <2>2. PICK q \in Players : q = Trades!Partner(p) /\ Trades!Trading(q) /\ Trades!Partner(q) = p /\ p # q
    BY <2>1, Pairs
  <2>3. {p, q} \subseteq online
    BY <2>1, <2>2 DEF TradeInv, Mirrored, Trades!Mirrored
  <2> QED BY <2>1, <2>2, <2>3 DEF Rewritten, Trades!Trading, Trades!Partner
<1> QED BY <1>1 DEF TradeInv, Rewritten, Mirrored, Trades!Mirrored, Trades!Trading, Trades!Partner

\* A changed offer of one of a pair, with both acceptances withdrawn.
LEMMA WithdrawnOffer ==
  ASSUME TradeInv, NEW p \in Players, Trades!Trading(p), NEW q, q = Trades!Partner(p),
         NEW t \in [Players -> Trades!TradeData \cup {NoTrade}],
         t[p] \in Trades!TradeData, t[q] \in Trades!TradeData,
         t[p].trader = q, t[q].trader = p,
         \A r \in Players \ {p, q} : t[r] = trade[r],
         trade' = Trades!Withdrawn(t, p), online' = online
  PROVE  Rewritten /\ OffersKept /\ \A r \in Players : trade'[r] # NoTrade => trade'[r].items = t[r].items
<1>1. /\ q \in Players /\ p # q /\ Trades!Trading(q)
      /\ trade[p] \in Trades!TradeData /\ trade[q] \in Trades!TradeData
      /\ trade[p].trader = q /\ trade[q].trader = p
  BY Pairs DEF Trades!Partner
<1>2. /\ trade' \in [Players -> Trades!TradeData \cup {NoTrade}]
      /\ trade'[p] \in Trades!TradeData /\ trade'[q] \in Trades!TradeData
      /\ trade'[p].trader = q /\ trade'[q].trader = p
      /\ trade'[p].accepted = FALSE /\ trade'[q].accepted = FALSE
      /\ trade'[p].items = t[p].items /\ trade'[q].items = t[q].items
      /\ \A r \in Players \ {p, q} : trade'[r] = trade[r]
  <2>1. Unaccepted(trade', t, p, q)
    BY <1>1, WithdrawnFacts
  <2> QED BY <2>1 DEF Unaccepted
<1>3. Rewritten
  BY <1>1, <1>2, TradeConstants DEF Rewritten, TradeTypes
<1>4. OffersKept
  BY <1>1, <1>2 DEF OffersKept, SameOffer
<1> QED BY <1>2, <1>3, <1>4

\* A new item in a slot, SetItem.
LEMMA WithItemStep ==
  ASSUME TradeInv, NEW p \in Players, Trades!Trading(p), NEW s \in Trades!Slots,
         NEW item \in Items \cup {NoItem}, trade' = Trades!WithItem(p, s, item), online' = online
  PROVE  /\ Rewritten /\ OffersKept
         /\ trade'[p] # NoTrade /\ trade'[p].items = [trade[p].items EXCEPT ![s] = item]
         /\ \A r \in Players \ {p} : trade'[r] # NoTrade => trade'[r].items = trade[r].items
<1> DEFINE q == Trades!Partner(p)
           u == [trade EXCEPT ![p].items[s] = item]
           v == [u EXCEPT ![p].spell = FALSE]
           w == [v EXCEPT ![q].spell = @ /\ s # Trades!NonTraded]
           m == [trade EXCEPT ![p].items[s] = item, ![p].spell = FALSE,
                              ![q].spell = @ /\ s # Trades!NonTraded]
<1>1. /\ q \in Players /\ p # q /\ Trades!Trading(q) /\ Trades!Partner(q) = p
      /\ trade[p] \in Trades!TradeData /\ trade[q] \in Trades!TradeData
      /\ trade[p].trader = q /\ trade[q].trader = p
  BY Pairs DEF Trades!Partner
<1>0. trade' = Trades!Withdrawn(w, p)
  <2>1. trade' = Trades!Withdrawn(m, p)
    BY Zenon DEF Trades!WithItem
  <2>2. m = w
    BY <1>1 DEF TradeInv, TradeTypes
  <2> QED BY <2>1, <2>2
<1> HIDE DEF q
<1>2. /\ u \in [Players -> Trades!TradeData \cup {NoTrade}] /\ u[p] \in Trades!TradeData
      /\ u[p].trader = q /\ \A r \in Players \ {p} : u[r] = trade[r]
      /\ u[p].items = [trade[p].items EXCEPT ![s] = item]
  <2>1. /\ [trade[p] EXCEPT !.items[s] = item] \in Trades!TradeData
        /\ [trade[p] EXCEPT !.items[s] = item].items = [trade[p].items EXCEPT ![s] = item]
        /\ [trade[p] EXCEPT !.items[s] = item].trader = q
    BY <1>1 DEF Trades!TradeData
  <2>2. u = [trade EXCEPT ![p] = [trade[p] EXCEPT !.items[s] = item]]
    OBVIOUS
  <2> QED BY <2>1, <2>2 DEF TradeInv, TradeTypes
<1> HIDE DEF u
<1>3. /\ v \in [Players -> Trades!TradeData \cup {NoTrade}] /\ v[p] \in Trades!TradeData
      /\ v[p].trader = q /\ \A r \in Players \ {p} : v[r] = trade[r]
      /\ v[p].items = u[p].items
  <2>1. /\ [u[p] EXCEPT !.spell = FALSE] \in Trades!TradeData /\ [u[p] EXCEPT !.spell = FALSE].trader = q
        /\ [u[p] EXCEPT !.spell = FALSE].items = u[p].items
    BY <1>2 DEF Trades!TradeData
  <2>2. v = [u EXCEPT ![p] = [u[p] EXCEPT !.spell = FALSE]]
    OBVIOUS
  <2> QED BY <1>2, <2>1, <2>2
<1> HIDE DEF v
<1>4. /\ w \in [Players -> Trades!TradeData \cup {NoTrade}] /\ w[p] \in Trades!TradeData
      /\ w[q] \in Trades!TradeData /\ w[p].trader = q /\ w[q].trader = p
      /\ w[p].items = v[p].items /\ w[q].items = trade[q].items
      /\ \A r \in Players \ {p, q} : w[r] = trade[r]
  <2> DEFINE x == [v[q] EXCEPT !.spell = (v[q].spell /\ s # Trades!NonTraded)]
  <2>1. x \in Trades!TradeData /\ x.trader = p /\ x.items = trade[q].items
    BY <1>1, <1>3 DEF Trades!TradeData
  <2>2. w = [v EXCEPT ![q] = x]
    OBVIOUS
  <2> QED BY <1>1, <1>3, <2>1, <2>2
<1> HIDE DEF w
<1>5. Rewritten /\ OffersKept /\ \A r \in Players : trade'[r] # NoTrade => trade'[r].items = w[r].items
  BY <1>0, <1>1, <1>4, WithdrawnOffer DEF q
<1>6. trade'[p] # NoTrade
  BY <1>5 DEF Rewritten, Trades!Trading
<1>7. \A r \in Players \ {p} : w[r].items = trade[r].items
  BY <1>4
<1> QED BY <1>2, <1>3, <1>4, <1>5, <1>6, <1>7

\* So an item is offered, taken back, or offered again.
LEMMA ItemSetStep ==
  ASSUME TradeInv, NEW p \in Players, Trades!Trading(p), NEW s \in Trades!Slots,
         NEW item \in Items \cup {NoItem}, MayOffer(p, s, item) \/ trade[p].items[s] = item,
         trade' = Trades!WithItem(p, s, item), online' = online
  PROVE  Rewritten /\ OffersKept /\ ItemsChange
<1>1. /\ Rewritten /\ OffersKept /\ trade'[p].items = [trade[p].items EXCEPT ![s] = item]
      /\ \A r \in Players \ {p} : trade'[r] # NoTrade => trade'[r].items = trade[r].items
  BY WithItemStep
<1>2. ItemsStay(p)
  <2>1. trade[p].items[s] = item => [trade[p].items EXCEPT ![s] = item] = trade[p].items
    BY DEF TradeInv, TradeTypes, Trades!TradeData, Trades!Trading
  <2> QED BY <1>1, <2>1 DEF ItemsStay
<1>3. ASSUME NEW r \in Players, trade'[r] # NoTrade
      PROVE  trade[r] # NoTrade /\ trade'[r].trader = trade[r].trader /\ ItemsStay(r)
  <2>1. trade[r] # NoTrade /\ trade'[r].trader = trade[r].trader
    BY <1>1, <1>3 DEF Rewritten
  <2>2. r # p => trade'[r].items = trade[r].items
    BY <1>1, <1>3
  <2> QED BY <1>2, <2>1, <2>2 DEF ItemsStay
<1> QED BY <1>1, <1>3 DEF ItemsChange

\* Gold or a spell, SetMoney and SetSpell; also when the spell is dropped.
LEMMA FieldStep ==
  ASSUME TradeInv, NEW p \in Players, Trades!Trading(p), NEW r \in {p, Trades!Partner(p)},
         NEW t, t[r] \in Trades!TradeData, t[r].trader = trade[r].trader, t[r].items = trade[r].items,
         t = [trade EXCEPT ![r] = t[r]],
         trade' = Trades!Withdrawn(t, p), online' = online
  PROVE  Rewritten /\ OffersKept /\ ItemsChange
<1> DEFINE q == Trades!Partner(p)
<1>1. /\ q \in Players /\ p # q /\ Trades!Trading(q) /\ Trades!Partner(q) = p
      /\ trade[p] \in Trades!TradeData /\ trade[q] \in Trades!TradeData
      /\ trade[p].trader = q /\ trade[q].trader = p
  BY Pairs DEF Trades!Partner
<1>2. /\ t \in [Players -> Trades!TradeData \cup {NoTrade}]
      /\ t[p] \in Trades!TradeData /\ t[q] \in Trades!TradeData
      /\ t[p].trader = q /\ t[q].trader = p
      /\ \A z \in Players \ {p, q} : t[z] = trade[z]
      /\ \A z \in Players : t[z].items = trade[z].items
  BY <1>1 DEF TradeInv, TradeTypes
<1>3. Rewritten /\ OffersKept /\ \A z \in Players : trade'[z] # NoTrade => trade'[z].items = t[z].items
  BY <1>1, <1>2, WithdrawnOffer
<1> QED BY <1>2, <1>3 DEF Rewritten, ItemsChange, ItemsStay

\* What only touches acceptances leaves every offer as it was.
LEMMA AcceptanceStep ==
  ASSUME TradeInv, trade' = [r \in Players |-> trade'[r]], online' = online,
         \A r \in Players : IF Trades!Trading(r)
                            THEN \E b \in BOOLEAN : trade'[r] = [trade[r] EXCEPT !.accepted = b]
                            ELSE trade'[r] = NoTrade
  PROVE  Rewritten /\ OffersKept /\ ItemsChange
<1>1. ASSUME NEW r \in Players, Trades!Trading(r)
      PROVE  /\ trade[r] \in Trades!TradeData /\ trade'[r] \in Trades!TradeData
             /\ trade'[r].trader = trade[r].trader /\ trade'[r].items = trade[r].items
             /\ trade'[r].money = trade[r].money /\ trade'[r].spell = trade[r].spell
  <2>1. trade[r] \in Trades!TradeData
    BY <1>1 DEF TradeInv, TradeTypes, Trades!Trading
  <2>2. PICK b \in BOOLEAN : trade'[r] = [trade[r] EXCEPT !.accepted = b]
    BY <1>1
  <2> QED BY <2>1, <2>2 DEF Trades!TradeData
<1>2. TradeTypes'
  BY <1>1 DEF TradeTypes
<1>3. \A r \in Players : ~Trades!Trading(r) => trade[r] = NoTrade /\ trade'[r] = NoTrade
  BY DEF Trades!Trading
<1>4. Rewritten
  BY <1>1, <1>2, <1>3, TradeConstants DEF Rewritten
<1>5. OffersKept
  BY <1>1, <1>3 DEF OffersKept, SameOffer
<1>6. ItemsChange
  <2> SUFFICES ASSUME NEW r \in Players, trade'[r] # NoTrade
               PROVE  trade[r] # NoTrade /\ trade'[r].trader = trade[r].trader /\ ItemsStay(r)
    BY DEF ItemsChange
  <2>1. Trades!Trading(r)
    BY <1>3
  <2> QED BY <1>1, <2>1 DEF ItemsStay, Trades!Trading
<1> QED BY <1>4, <1>5, <1>6

\* The offers of a player whose acceptance stands, and of the partner.
OffersStand ==
  \A p \in Players :
    /\ Trades!Trading(p) /\ trade'[p] # NoTrade
    /\ trade[p].accepted /\ trade'[p].accepted
    => \A r \in {p, Trades!Partner(p)} :
         <<trade'[r].items, trade'[r].money, trade'[r].spell>>
           = <<trade[r].items, trade[r].money, trade[r].spell>>

\* Both follow when offers are kept in place.
LEMMA KeptStand ==
  ASSUME TradeInv, Rewritten, OffersKept
  PROVE  TradeInv' /\ OffersStand
<1>1. ASSUME NEW p \in Players, Trades!Trading(p), trade'[p].accepted
      PROVE  SameOffer(p) /\ SameOffer(Trades!Partner(p)) /\ Trades!Partner(p) \in Players
  <2>1. PICK q \in Players : q = Trades!Partner(p) /\ Trades!Trading(q) /\ Trades!Partner(q) = p /\ p # q
    BY <1>1, Pairs
  <2>2. ASSUME NEW a \in Players, Trades!Trading(a),
               \A r \in Players :
                 IF r \in {a, Trades!Partner(a)} THEN trade'[r].accepted = FALSE ELSE SameOffer(r)
        PROVE  SameOffer(p) /\ SameOffer(q)
    <3>1. PICK b \in Players : b = Trades!Partner(a) /\ Trades!Partner(b) = a
      BY <2>2, Pairs
    <3>2. p \notin {a, b}
      BY <1>1, <2>2, <3>1
    <3>3. q \notin {a, b}
      BY <2>1, <3>1, <3>2
    <3> QED BY <2>1, <2>2, <3>1, <3>2, <3>3
  <2> QED BY <2>1, <2>2 DEF OffersKept
<1>2. OffersStand
  <2> SUFFICES ASSUME NEW p \in Players, Trades!Trading(p), trade'[p] # NoTrade, trade'[p].accepted
               PROVE  \A r \in {p, Trades!Partner(p)} :
                        <<trade'[r].items, trade'[r].money, trade'[r].spell>>
                          = <<trade[r].items, trade[r].money, trade[r].spell>>
    BY DEF OffersStand
  <2>1. PICK q \in Players : q = Trades!Partner(p) /\ Trades!Trading(q)
    BY Pairs
  <2>2. trade[p] # NoTrade /\ trade[q] # NoTrade /\ trade'[q] # NoTrade
    BY <2>1 DEF Rewritten, Trades!Trading
  <2> QED BY <1>1, <2>1, <2>2 DEF SameOffer
<1> QED BY <1>2, RewrittenMirrored

\* TradeCancel, alone or with the player leaving the world.
LEMMA CancelledStep ==
  ASSUME TradeInv, NEW p \in Players, trade' = Trades!TradeCancelled(p),
         \/ online' = online
         \/ online' = online \ {p}
  PROVE  TradeInv' /\ OffersStand /\ ItemsChange
<1>1. /\ TradeTypes'
      /\ \A r \in Players : trade'[r] \in {trade[r], NoTrade}
      /\ trade'[p] = NoTrade
  BY DEF TradeInv, TradeTypes, Trades!TradeCancelled, Trades!Trading
<1>2. ASSUME NEW r \in Players, trade'[r] # NoTrade
      PROVE  \E q \in Players :
               /\ Trades!Trading(r) /\ q = Trades!Partner(r) /\ q # r
               /\ trade'[r] = trade[r] /\ trade'[q] = trade[q] /\ trade[q] # NoTrade /\ trade[q].trader = r
               /\ {r, q} \subseteq online'
  <2>1. Trades!Trading(r) /\ trade'[r] = trade[r] /\ r # p
    BY <1>1, <1>2 DEF Trades!Trading
  <2>2. PICK q \in Players : q = Trades!Partner(r) /\ Trades!Trading(q) /\ Trades!Partner(q) = r /\ r # q
    BY <2>1, Pairs
  <2>3. q # p
    BY <1>2, <2>2 DEF Trades!TradeCancelled
  <2>4. Trades!Trading(p) => q # Trades!Partner(p)
    <3>1. Trades!Trading(p) => Trades!Partner(Trades!Partner(p)) = p
      BY Pairs
    <3> QED BY <2>1, <2>2, <3>1
  <2>5. trade'[q] = trade[q]
    BY <2>2, <2>3, <2>4 DEF Trades!TradeCancelled
  <2>6. {r, q} \subseteq online
    BY <2>1, <2>2 DEF TradeInv, Mirrored, Trades!Mirrored
  <2> QED BY <2>1, <2>2, <2>3, <2>5, <2>6 DEF Trades!Trading, Trades!Partner
<1>3. Mirrored'
  BY <1>2 DEF Mirrored, Trades!Mirrored, Trades!Trading, Trades!Partner
<1>4. OffersStand
  BY <1>2 DEF OffersStand
<1>5. ItemsChange
  BY <1>1 DEF ItemsChange, ItemsStay
<1> QED BY <1>1, <1>3, <1>4, <1>5 DEF TradeInv

\* InitiateTrade.
LEMMA InitiateStep ==
  ASSUME TradeInv, NEW p \in Players, NEW q \in Players, Trades!InitiateTrade(p, q)
  PROVE  TradeInv' /\ OffersStand /\ ItemsChange
<1> DEFINE new(r) == [trader |-> r, items |-> [s \in Trades!Slots |-> NoItem],
                      money |-> 0, spell |-> FALSE, accepted |-> FALSE]
<1>1. /\ {p, q} \subseteq online /\ p # q /\ trade[p] = NoTrade /\ trade[q] = NoTrade
      /\ trade' = [trade EXCEPT ![p] = new(q), ![q] = new(p)] /\ online' = online
  BY DEF Trades!InitiateTrade, Trades!Trading
<1>2. \A r \in Players : /\ new(r) \in Trades!TradeData /\ new(r).trader = r
                        /\ new(r).items = [s \in Trades!Slots |-> NoItem]
  <2>1. 0 \in 0..MaxMoney
    BY TradeConstants
  <2> QED BY <2>1 DEF Trades!TradeData
<1> HIDE DEF new
<1>3. /\ TradeTypes' /\ trade'[p] = new(q) /\ trade'[q] = new(p)
      /\ \A r \in Players \ {p, q} : trade'[r] = trade[r]
  BY <1>1, <1>2 DEF TradeInv, TradeTypes
<1>4. new(p) # NoTrade /\ new(q) # NoTrade
  BY <1>2, TradeConstants
<1>5. ASSUME NEW r \in Players \ {p, q}, trade[r] # NoTrade
      PROVE  \E z \in Players \ {p, q} :
               /\ z = Trades!Partner(r) /\ z # r /\ trade[z] # NoTrade /\ trade[z].trader = r
               /\ {r, z} \subseteq online
  <2>1. PICK z \in Players : z = Trades!Partner(r) /\ Trades!Trading(z) /\ Trades!Partner(z) = r /\ r # z
    BY <1>5, Pairs DEF Trades!Trading
  <2>2. {r, z} \subseteq online
    BY <1>5, <2>1 DEF TradeInv, Mirrored, Trades!Mirrored, Trades!Trading
  <2> QED BY <1>1, <2>1, <2>2 DEF Trades!Trading, Trades!Partner
<1>6. Mirrored'
  <2> SUFFICES ASSUME NEW r \in Players, trade'[r] # NoTrade, NEW z, z = trade'[r].trader
               PROVE  /\ {r, z} \subseteq online' /\ z # r
                      /\ trade'[z] # NoTrade /\ trade'[z].trader = r
    BY DEF Mirrored, Trades!Mirrored, Trades!Trading, Trades!Partner
  <2>1. CASE r = p
    BY <1>1, <1>2, <1>3, <1>4, <2>1
  <2>2. CASE r = q
    BY <1>1, <1>2, <1>3, <1>4, <2>2
  <2>3. CASE r \notin {p, q}
    <3>1. r \in Players \ {p, q} /\ trade'[r] = trade[r]
      BY <1>3, <2>3
    <3>2. PICK y \in Players \ {p, q} :
            /\ y = Trades!Partner(r) /\ y # r /\ trade[y] # NoTrade /\ trade[y].trader = r
            /\ {r, y} \subseteq online
      BY <1>5, <3>1
    <3>3. z = y /\ trade'[y] = trade[y]
      BY <1>3, <3>1, <3>2 DEF Trades!Partner
    <3> QED BY <1>1, <3>1, <3>2, <3>3
  <2> QED BY <2>1, <2>2, <2>3
<1>7. OffersStand
  <2> SUFFICES ASSUME NEW r \in Players, trade[r] # NoTrade, NEW z, z \in {r, Trades!Partner(r)}
               PROVE  trade'[z] = trade[z]
    BY DEF OffersStand, Trades!Trading
  <2>1. r \notin {p, q}
    BY <1>1
  <2> QED BY <1>3, <1>5, <2>1
<1>8. ItemsChange
  <2> SUFFICES ASSUME NEW r \in Players, trade'[r] # NoTrade
               PROVE  \/ trade[r] # NoTrade /\ trade'[r] = trade[r]
                      \/ trade[r] = NoTrade /\ trade'[r].items = [s \in Trades!Slots |-> NoItem]
    BY DEF ItemsChange, ItemsStay
  <2>1. CASE r = p
    BY <1>1, <1>2, <1>3, <2>1
  <2>2. CASE r = q
    BY <1>1, <1>2, <1>3, <2>2
  <2>3. CASE r \notin {p, q}
    BY <1>3, <2>3
  <2> QED BY <2>1, <2>2, <2>3
<1> QED BY <1>3, <1>6, <1>7, <1>8 DEF TradeInv

\* Every handler, and whatever the players do besides trading.
LEMMA TradeStep ==
  ASSUME TradeInv, [Trades!Next]_Trades!vars
  PROVE  TradeInv' /\ OffersStand /\ ItemsChange
<1>1. ASSUME UNCHANGED <<online, trade>> PROVE TradeInv' /\ OffersStand /\ ItemsChange
  BY <1>1 DEF TradeInv, TradeTypes, Mirrored, Trades!Mirrored, Trades!Trading, Trades!Partner, OffersStand,
         ItemsChange, ItemsStay
<1>2. ASSUME Rewritten, OffersKept, ItemsChange PROVE TradeInv' /\ OffersStand /\ ItemsChange
  BY <1>2, KeptStand
<1>3. ASSUME NEW p \in Players, Trades!CancelTrade(p) \/ Trades!Logout(p) \/ Trades!CompleteTrade(p)
      PROVE  TradeInv' /\ OffersStand /\ ItemsChange
  <2>1. trade' = Trades!TradeCancelled(p) /\ (online' = online \/ online' = online \ {p})
    BY <1>3 DEF Trades!CancelTrade, Trades!Logout, Trades!CompleteTrade
  <2> QED BY <2>1, CancelledStep
<1>4. ASSUME NEW p \in Players, Trades!Login(p) PROVE TradeInv' /\ OffersStand /\ ItemsChange
  <2>1. online \subseteq online' /\ trade' = trade
    BY <1>4 DEF Trades!Login
  <2> QED BY <2>1 DEF TradeInv, TradeTypes, Mirrored, Trades!Mirrored, Trades!Trading, Trades!Partner, OffersStand,
         ItemsChange, ItemsStay
<1>5. ASSUME NEW p \in Players, NEW s \in Trades!Slots, NEW item \in Items, Trades!SetTradeItem(p, s, item)
      PROVE  TradeInv' /\ OffersStand /\ ItemsChange
  <2>1. Trades!Trading(p) /\ trade' = Trades!WithItem(p, s, item) /\ online' = online
    BY <1>5 DEF Trades!SetTradeItem
  <2>2. MayOffer(p, s, item)
    BY <1>5 DEF Trades!SetTradeItem, MayOffer
  <2> QED BY <1>2, <2>1, <2>2, ItemSetStep
<1>6. ASSUME NEW p \in Players, NEW s \in Trades!Slots, Trades!ClearTradeItem(p, s)
      PROVE  TradeInv' /\ OffersStand /\ ItemsChange
  <2>1. Trades!Trading(p) /\ trade' = Trades!WithItem(p, s, NoItem) /\ online' = online
    BY <1>6 DEF Trades!ClearTradeItem
  <2> QED BY <1>2, <2>1, ItemSetStep DEF MayOffer
<1>7. ASSUME NEW p \in Players, NEW item \in Items, Trades!StackChanges(p, item)
      PROVE  TradeInv' /\ OffersStand /\ ItemsChange
  <2>1. PICK s \in Trades!Slots : trade[p].items[s] = item /\ trade' = Trades!WithItem(p, s, item)
    BY <1>7 DEF Trades!StackChanges
  <2>2. Trades!Trading(p) /\ online' = online
    BY <1>7 DEF Trades!StackChanges
  <2> QED BY <1>2, <2>1, <2>2, ItemSetStep
<1>8. ASSUME NEW p \in Players, NEW amount \in 0..MaxMoney, Trades!SetTradeGold(p, amount)
      PROVE  TradeInv' /\ OffersStand /\ ItemsChange
  <2> DEFINE t == [trade EXCEPT ![p].money = amount]
  <2>1. Trades!Trading(p) /\ trade' = Trades!Withdrawn(t, p) /\ online' = online
    BY <1>8 DEF Trades!SetTradeGold
  <2>2. trade[p] \in Trades!TradeData /\ trade \in [Players -> Trades!TradeData \cup {NoTrade}]
    BY <2>1 DEF TradeInv, TradeTypes, Trades!Trading
  <2>3. t[p] \in Trades!TradeData /\ t[p].trader = trade[p].trader /\ t[p].items = trade[p].items
    BY <2>2 DEF Trades!TradeData
  <2>4. t = [trade EXCEPT ![p] = t[p]]
    BY <2>2
  <2> HIDE DEF t
  <2> QED BY <1>2, <2>1, <2>3, <2>4, FieldStep
<1>9. ASSUME NEW p \in Players, Trades!SetSpell(p) PROVE TradeInv' /\ OffersStand /\ ItemsChange
  <2> DEFINE t == [trade EXCEPT ![p].spell = TRUE]
  <2>1. Trades!Trading(p) /\ trade' = Trades!Withdrawn(t, p) /\ online' = online
    BY <1>9 DEF Trades!SetSpell
  <2>2. trade[p] \in Trades!TradeData /\ trade \in [Players -> Trades!TradeData \cup {NoTrade}]
    BY <2>1 DEF TradeInv, TradeTypes, Trades!Trading
  <2>3. t[p] \in Trades!TradeData /\ t[p].trader = trade[p].trader /\ t[p].items = trade[p].items
    BY <2>2 DEF Trades!TradeData
  <2>4. t = [trade EXCEPT ![p] = t[p]]
    BY <2>2
  <2> HIDE DEF t
  <2> QED BY <1>2, <2>1, <2>3, <2>4, FieldStep
<1>10. ASSUME NEW p \in Players, Trades!SpellRefused(p) PROVE TradeInv' /\ OffersStand /\ ItemsChange
  <2>1. Trades!Trading(p) /\ online' = online
    BY <1>10 DEF Trades!SpellRefused, Trades!BothAccept
  <2>2. PICK r \in {p, Trades!Partner(p)} : trade' = Trades!Withdrawn([trade EXCEPT ![r].spell = FALSE], p)
    BY <1>10 DEF Trades!SpellRefused
  <2> DEFINE t == [trade EXCEPT ![r].spell = FALSE]
  <2>3. r \in Players /\ trade[r] \in Trades!TradeData /\ trade \in [Players -> Trades!TradeData \cup {NoTrade}]
    BY <2>1, Pairs DEF TradeInv, TradeTypes
  <2>4. t[r] \in Trades!TradeData /\ t[r].trader = trade[r].trader /\ t[r].items = trade[r].items
    BY <2>3 DEF Trades!TradeData
  <2>5. t = [trade EXCEPT ![r] = t[r]]
    BY <2>3
  <2>6. trade' = Trades!Withdrawn(t, p)
    BY <2>2
  <2> HIDE DEF t
  <2> QED BY <1>2, <2>1, <2>4, <2>5, <2>6, FieldStep
<1>11. ASSUME NEW p \in Players, NEW out, trade' = Trades!Accepted(p, out), online' = online
       PROVE  TradeInv' /\ OffersStand /\ ItemsChange
  <2>1. trade' = [r \in Players |-> trade'[r]]
    BY <1>11 DEF Trades!Accepted
  <2>2. ASSUME NEW r \in Players
        PROVE  IF Trades!Trading(r) THEN \E b \in BOOLEAN : trade'[r] = [trade[r] EXCEPT !.accepted = b]
                                    ELSE trade'[r] = NoTrade
    <3> DEFINE b == (trade[r].accepted \/ r = p) /\ r \notin out
    <3>1. Trades!Trading(r) => trade'[r] = [trade[r] EXCEPT !.accepted = b]
      BY <1>11 DEF Trades!Accepted
    <3>2. b \in BOOLEAN
      OBVIOUS
    <3>3. ~Trades!Trading(r) => trade'[r] = NoTrade
      BY <1>11 DEF Trades!Accepted
    <3> HIDE DEF b
    <3> QED BY <3>1, <3>2, <3>3
  <2> QED BY <1>2, <1>11, <2>1, <2>2, AcceptanceStep
<1>12. ASSUME NEW p \in Players, Trades!UnacceptTrade(p) PROVE TradeInv' /\ OffersStand /\ ItemsChange
  <2>1. /\ Trades!Trading(p) /\ trade' = [trade EXCEPT ![p].accepted = FALSE] /\ online' = online
        /\ trade \in [Players -> Trades!TradeData \cup {NoTrade}]
    BY <1>12 DEF Trades!UnacceptTrade, TradeInv, TradeTypes
  <2>2. trade' = [r \in Players |-> trade'[r]]
    BY <2>1
  <2>3. ASSUME NEW r \in Players
        PROVE  IF Trades!Trading(r) THEN \E b \in BOOLEAN : trade'[r] = [trade[r] EXCEPT !.accepted = b]
                                    ELSE trade'[r] = NoTrade
    <3>1. CASE r = p
      BY <2>1, <3>1
    <3>2. CASE r # p /\ Trades!Trading(r)
      <4>1. trade[r] \in Trades!TradeData /\ trade'[r] = trade[r]
        BY <2>1, <3>2 DEF Trades!Trading
      <4>2. trade[r].accepted \in BOOLEAN /\ trade[r] = [trade[r] EXCEPT !.accepted = trade[r].accepted]
        BY <4>1 DEF Trades!TradeData
      <4> QED BY <3>2, <4>1, <4>2
    <3>3. CASE r # p /\ ~Trades!Trading(r)
      BY <2>1, <3>3 DEF Trades!Trading
    <3> QED BY <3>1, <3>2, <3>3
  <2> QED BY <1>2, <2>1, <2>2, <2>3, AcceptanceStep
<1>13. ASSUME NEW p \in Players, Trades!AcceptStopped(p) \/ Trades!NoRoom(p) PROVE TradeInv' /\ OffersStand /\ ItemsChange
  <2>1. online' = online /\ \E out : trade' = Trades!Accepted(p, out)
    BY <1>13 DEF Trades!AcceptStopped, Trades!NoRoom
  <2> QED BY <1>11, <2>1
<1>14. ASSUME NEW p \in Players,
              \/ Trades!GoldChanges(p)
              \/ \E item \in Items : Trades!ItemLeaves(p, item) \/ Trades!ItemLooted(p, item)
       PROVE  TradeInv' /\ OffersStand /\ ItemsChange
  BY <1>1, <1>14 DEF Trades!GoldChanges, Trades!ItemLeaves, Trades!ItemLooted
<1>15. ASSUME NEW item \in Items, Trades!LockChanges(item) PROVE TradeInv' /\ OffersStand /\ ItemsChange
  BY <1>1, <1>15 DEF Trades!LockChanges
<1>16. CASE UNCHANGED Trades!vars
  BY <1>1, <1>16 DEF Trades!vars
<1> QED BY <1>3, <1>4, <1>5, <1>6, <1>7, <1>8, <1>9, <1>10, <1>12, <1>13, <1>14, <1>15, <1>16, InitiateStep
        DEF Trades!Next

\* Nobody trades at first.
LEMMA TradeInit == Trades!Init => TradeInv
BY DEF Trades!Init, TradeInv, TradeTypes, Mirrored, Trades!Mirrored, Trades!Trading

\* Player::m_trade: for any number of players and items the two sides of a
\* trade point at each other, and both players are in the world.
THEOREM TradesAreMirrored == Trades!Spec => []Mirrored
<1>1. TradeInv /\ [Trades!Next]_Trades!vars => TradeInv'
  BY TradeStep
<1>2. TradeInv => Mirrored
  BY DEF TradeInv
<1> QED BY <1>1, <1>2, TradeInit, PTL DEF Trades!Spec

\* HandleSetTradeItem, HandleSetTradeGold and the others: while a player's
\* acceptance stands, neither side's offer changes.
THEOREM AcceptedOffersStand == Trades!Spec => Trades!AcceptedOfferStands
<1>1. TradeInv /\ [Trades!Next]_Trades!vars => TradeInv' /\ [OffersStand]_Trades!vars
  BY TradeStep
<1>2. Trades!AcceptedOfferStands <=> [][OffersStand]_Trades!vars
  BY DEF Trades!AcceptedOfferStands, OffersStand
<1> QED BY <1>1, <1>2, TradeInit, PTL DEF Trades!Spec

-----------------------------------------------------------------------------
(* What a trade exchanges *)

\* Players, their money below its limit, and bags that hold what they have.
Belongings ==
  /\ online \subseteq Players /\ locked \subseteq Items
  /\ inventory \in [Players -> SUBSET Items] /\ gold \in [Players -> 0..(MaxMoney - 1)]
  /\ \A p \in Players : IsFiniteSet(inventory[p]) /\ Cardinality(inventory[p]) <= Places

\* An item has one owner.
OneOwner == \A p, q \in Players : p # q => inventory[p] \cap inventory[q] = {}

\* What a trade offers: an item in one slot, and none to a player who may not have it.
ProperOffer(offer) ==
  /\ \A s1, s2 \in Trades!Slots : offer.items[s1] = offer.items[s2] /\ offer.items[s1] # NoItem => s1 = s2
  /\ \A s \in Trades!Traded : offer.items[s] # NoItem => <<offer.items[s], offer.trader>> \notin Forbidden

Offered == \A p \in Players : trade[p] # NoTrade => ProperOffer(trade[p])

FairInv == TradeInv /\ Belongings /\ OneOwner /\ Offered

\* Trade counts as the proofs do.
LEMMA TradeCardinality == \A S : Trades!Cardinality(S) = Cardinality(S)
BY DEF Trades!Cardinality, Cardinality

\* The slots are 1 to NSlots for what is given and one more.
LEMMA SlotsAre ==
  /\ Trades!Traded = 1..NSlots /\ Trades!NonTraded \notin Trades!Traded
  /\ Trades!Slots = Trades!Traded \cup {Trades!NonTraded}
BY TradeConstants DEF Trades!Traded, Trades!NonTraded, Trades!Slots

\* HandleSetTradeItem and the others keep offers proper.
LEMMA OffersStep ==
  ASSUME TradeInv, Offered, ItemsChange
  PROVE  Offered'
<1> SUFFICES ASSUME NEW r \in Players, trade'[r] # NoTrade
             PROVE  ProperOffer(trade'[r])
  BY DEF Offered
<1>1. CASE trade[r] = NoTrade
  BY <1>1, SlotsAre DEF ItemsChange, ProperOffer
<1>2. CASE trade[r] # NoTrade
  <2>1. /\ ProperOffer(trade[r]) /\ trade'[r].trader = trade[r].trader /\ ItemsStay(r)
        /\ trade[r].items \in [Trades!Slots -> Items \cup {NoItem}]
    BY <1>2 DEF ItemsChange, Offered, TradeInv, TradeTypes, Trades!TradeData
  <2>2. CASE trade'[r].items = trade[r].items
    BY <2>1, <2>2 DEF ProperOffer
  <2>3. CASE \E s \in Trades!Slots, item \in Items \cup {NoItem} :
               MayOffer(r, s, item) /\ trade'[r].items = [trade[r].items EXCEPT ![s] = item]
    <3>1. PICK s \in Trades!Slots, item \in Items \cup {NoItem} :
               MayOffer(r, s, item) /\ trade'[r].items = [trade[r].items EXCEPT ![s] = item]
      BY <2>3
    <3>2. trade'[r].items[s] = item /\ \A s2 \in Trades!Slots \ {s} : trade'[r].items[s2] = trade[r].items[s2]
      BY <2>1, <3>1
    <3>3. item # NoItem =>
            /\ \A s2 \in Trades!Slots \ {s} : trade[r].items[s2] # item
            /\ s \in Trades!Traded => <<item, trade[r].trader>> \notin Forbidden
      BY <3>1, SlotsAre DEF MayOffer, Trades!Partner
    <3>4. ASSUME NEW s1 \in Trades!Slots, NEW s2 \in Trades!Slots,
                 trade'[r].items[s1] = trade'[r].items[s2], trade'[r].items[s1] # NoItem
          PROVE  s1 = s2
      BY <2>1, <3>2, <3>3, <3>4 DEF ProperOffer
    <3>5. ASSUME NEW s1 \in Trades!Traded, trade'[r].items[s1] # NoItem
          PROVE  <<trade'[r].items[s1], trade'[r].trader>> \notin Forbidden
      <4>1. CASE s1 = s
        BY <2>1, <3>2, <3>3, <3>5, <4>1
      <4>2. CASE s1 # s
        <5>1. s1 \in Trades!Slots \ {s}
          BY <4>2, SlotsAre
        <5> QED BY <2>1, <3>2, <3>5, <5>1 DEF ProperOffer
      <4> QED BY <4>1, <4>2
    <3> QED BY <3>4, <3>5 DEF ProperOffer
  <2> QED BY <2>1, <2>2, <2>3 DEF ItemsStay
<1> QED BY <1>1, <1>2

\* What p hands over in the first n slots, all that he gives being in NSlots.
Handed(p, n) == {Trades!GetItem(p, s) : s \in 1..n} \ {NoItem}

\* The slots are handed over one after the other, each with an item not handed over before.
LEMMA HandedGrows ==
  ASSUME FairInv, NEW p \in Players, Trades!Trading(p), NEW n \in 1..NSlots
  PROVE  /\ Handed(p, n) = Handed(p, n - 1) \cup ({Trades!GetItem(p, n)} \ {NoItem})
         /\ Trades!GetItem(p, n) \notin Handed(p, n - 1)
         /\ Handed(p, n) \subseteq Trades!Given(p)
<1> DEFINE get(s) == Trades!GetItem(p, s)
<1>0. NSlots \in Nat /\ n \in Nat /\ n >= 1 /\ n <= NSlots
  BY TradeConstants
<1>1. 1..n = (1..(n - 1)) \cup {n} /\ n \notin 1..(n - 1) /\ 1..n \subseteq 1..NSlots
  BY <1>0
<1>2. Trades!Given(p) = {get(s) : s \in 1..NSlots} \ {NoItem}
  BY DEF Trades!Given, Trades!Traded
<1>3. ASSUME NEW s \in 1..(n - 1), get(n) # NoItem PROVE get(s) # get(n)
  <2>1. s \in Trades!Slots /\ n \in Trades!Slots /\ s # n
    BY <1>0, SlotsAre
  <2>2. get(n) = trade[p].items[n] /\ get(s) \in {trade[p].items[s], NoItem}
    BY <1>3 DEF Trades!GetItem
  <2>3. trade[p].items[s] # trade[p].items[n]
    BY <1>3, <2>1, <2>2 DEF FairInv, Offered, ProperOffer, Trades!Trading
  <2> QED BY <1>3, <2>2, <2>3
<1>4. Handed(p, n) = Handed(p, n - 1) \cup ({get(n)} \ {NoItem})
  <2> HIDE DEF get
  <2>1. Handed(p, n) = {get(s) : s \in 1..n} \ {NoItem} /\ Handed(p, n - 1) = {get(s) : s \in 1..(n - 1)} \ {NoItem}
    BY DEF Handed, get
  <2> QED BY <1>1, <2>1
<1>5. get(n) \notin Handed(p, n - 1)
  BY <1>3 DEF Handed
<1>6. Handed(p, n) \subseteq Trades!Given(p)
  BY <1>1, <1>2 DEF Handed
<1> QED BY <1>4, <1>5, <1>6

\* What is given is what the slots hold and the giver still has.
LEMMA GivenFromSlots ==
  ASSUME FairInv, NEW p \in Players
  PROVE  Trades!Given(p) = Trades!InSlots(p) \cap inventory[p]
<1>1. NoItem \notin inventory[p]
  BY TradesAssumption DEF FairInv, Belongings, Trades!TradeAssumption
<1> QED BY <1>1 DEF Trades!Given, Trades!InSlots, Trades!GetItem

\* Given items are the giver's, and none of them is no item.
LEMMA GivenIs ==
  ASSUME FairInv, NEW p \in Players, Trades!Trading(p)
  PROVE  /\ Trades!Given(p) \subseteq inventory[p] /\ NoItem \notin Trades!Given(p)
         /\ \A s \in Trades!Traded : Trades!GetItem(p, s) \in Items \cup {NoItem}
         /\ Handed(p, NSlots) = Trades!Given(p) /\ Handed(p, 0) = {}
         /\ IsFiniteSet(inventory[p]) /\ IsFiniteSet(Trades!Given(p))
<1>1. inventory[p] \subseteq Items /\ IsFiniteSet(inventory[p])
  BY DEF FairInv, Belongings
<1>2. Trades!Given(p) \subseteq inventory[p] /\ NoItem \notin Trades!Given(p)
  BY DEF Trades!Given, Trades!GetItem
<1>3. \A s \in Trades!Traded : Trades!GetItem(p, s) \in Items \cup {NoItem}
  BY <1>1 DEF Trades!GetItem
<1>4. Handed(p, NSlots) = Trades!Given(p) /\ Handed(p, 0) = {}
  BY DEF Handed, Trades!Given, Trades!Traded
<1> QED BY <1>1, <1>2, <1>3, <1>4, FS_Subset

\* The bags after n slots of a trade between p and q.
After(p, q, n) ==
  [r \in Players |-> IF r = p THEN (inventory[p] \ Trades!Given(p)) \cup Handed(q, n)
                     ELSE IF r = q THEN (inventory[q] \ Trades!Given(q)) \cup Handed(p, n)
                     ELSE inventory[r]]

\* There is room for whatever is handed over next.
LEMMA RoomForNext ==
  ASSUME FairInv, NEW p \in Players, Trades!Trading(p), NEW q \in Players, Trades!Partner(q) = p,
         Trades!Trading(q), Trades!Fits(q), NEW n \in 1..NSlots,
         NEW inv, inv[q] = (inventory[q] \ Trades!Given(q)) \cup Handed(p, n - 1)
  PROVE  Trades!HasRoom(inv, q, Trades!GetItem(p, n))
<1> DEFINE i == Trades!GetItem(p, n)
           rest == inventory[q] \ Trades!Given(q)
           old == Handed(p, n - 1)
           given == Trades!Given(p)
<1> SUFFICES ASSUME i # NoItem PROVE Cardinality(inv[q]) < Places
  BY TradeCardinality DEF Trades!HasRoom
<1>1. IsFiniteSet(given) /\ IsFiniteSet(rest)
  BY GivenIs, FS_Subset
<1>2. i \notin old /\ old \cup {i} \subseteq given
  BY HandedGrows
<1>3. Cardinality(rest) + Cardinality(given) <= Places
  BY TradeCardinality DEF Trades!Fits
<1>4. Places \in Nat
  BY TradesAssumption DEF Trades!TradeAssumption
<1> HIDE DEF i, rest, old, given
<1>5. /\ IsFiniteSet(old) /\ Cardinality(old \cup {i}) = Cardinality(old) + 1
      /\ Cardinality(old \cup {i}) <= Cardinality(given)
  <2>1. old \subseteq given
    BY <1>2
  <2>2. IsFiniteSet(old)
    BY <1>1, <2>1, FS_Subset
  <2>3. Cardinality(old \cup {i}) = Cardinality(old) + 1
    BY <1>2, <2>2, FS_AddElement
  <2>4. Cardinality(old \cup {i}) <= Cardinality(given)
    BY <1>1, <1>2, FS_Subset
  <2> QED BY <2>2, <2>3, <2>4
<1>6. /\ IsFiniteSet(rest \cup old) /\ IsFiniteSet(rest \cap old)
      /\ Cardinality(rest \cup old) = Cardinality(rest) + Cardinality(old) - Cardinality(rest \cap old)
  <2>1. rest \cap old \subseteq old
    OBVIOUS
  <2>2. IsFiniteSet(rest \cap old)
    BY <1>5, <2>1, FS_Subset
  <2> QED BY <1>1, <1>5, <2>2, FS_Union
<1>7. /\ Cardinality(rest) \in Nat /\ Cardinality(given) \in Nat /\ Cardinality(old) \in Nat
      /\ Cardinality(rest \cup old) \in Nat /\ Cardinality(rest \cap old) \in Nat
  BY <1>1, <1>5, <1>6, FS_CardinalityType
<1>8. inv[q] = rest \cup old
  BY DEF rest, old
<1>9. Cardinality(rest \cup old) < Places
  <2> DEFINE r == Cardinality(rest)  g == Cardinality(given)  o == Cardinality(old)
             all == Cardinality(rest \cup old)  both == Cardinality(rest \cap old)
             more == Cardinality(old \cup {i})
  <2>1. r + g <= Places /\ more = o + 1 /\ more <= g /\ all = r + o - both
    BY <1>3, <1>5, <1>6
  <2>2. r \in Nat /\ g \in Nat /\ o \in Nat /\ all \in Nat /\ both \in Nat
    BY <1>7
  <2> HIDE DEF r, g, o, all, both, more
  <2>3. all < Places
    BY <1>4, <2>1, <2>2
  <2> QED BY <2>3 DEF all
<1> QED BY <1>8, <1>9

\* moveItems stores what is in a slot of each, and hands nothing back.
LEMMA SlotMoved ==
  ASSUME FairInv, NEW p \in Players, Trades!Trading(p), NEW q \in Players, q = Trades!Partner(p),
         Trades!Fits(p), Trades!Fits(q), NEW n \in 1..NSlots
  PROVE  Trades!MoveSlot(After(p, q, n - 1), p, q, Trades!GetItem(p, n), Trades!GetItem(q, n)) = After(p, q, n)
<1> DEFINE inv == After(p, q, n - 1)
           mine == Trades!GetItem(p, n)
           his == Trades!GetItem(q, n)
           one == Trades!Store(inv, q, mine)
           both == Trades!Store(one, p, his)
<1>1. p # q /\ Trades!Trading(q) /\ Trades!Partner(q) = p
  BY Pairs DEF FairInv
<1>2. /\ inv = [r \in Players |-> inv[r]]
      /\ inv[p] = (inventory[p] \ Trades!Given(p)) \cup Handed(q, n - 1)
      /\ inv[q] = (inventory[q] \ Trades!Given(q)) \cup Handed(p, n - 1)
      /\ \A r \in Players \ {p, q} : inv[r] = inventory[r]
  BY <1>1 DEF After
<1>3. /\ After(p, q, n) = [r \in Players |-> After(p, q, n)[r]]
      /\ After(p, q, n)[p] = (inventory[p] \ Trades!Given(p)) \cup Handed(q, n)
      /\ After(p, q, n)[q] = (inventory[q] \ Trades!Given(q)) \cup Handed(p, n)
      /\ \A r \in Players \ {p, q} : After(p, q, n)[r] = inventory[r]
  BY <1>1 DEF After
<1> HIDE DEF inv
<1>4. Trades!HasRoom(inv, q, mine) /\ Trades!HasRoom(inv, p, his)
  BY <1>1, <1>2, RoomForNext
<1>5. Trades!MoveSlot(inv, p, q, mine, his) = both
  BY <1>4 DEF Trades!MoveSlot
<1>6. /\ Handed(p, n) = Handed(p, n - 1) \cup ({mine} \ {NoItem})
      /\ Handed(q, n) = Handed(q, n - 1) \cup ({his} \ {NoItem})
  BY <1>1, HandedGrows
<1> HIDE DEF mine, his, both, one
<1>7. /\ one = [r \in Players |-> one[r]] /\ one[q] = inv[q] \cup ({mine} \ {NoItem})
      /\ \A r \in Players \ {q} : one[r] = inv[r]
  BY <1>2 DEF one, Trades!Store
<1>8. /\ both = [r \in Players |-> both[r]] /\ both[p] = one[p] \cup ({his} \ {NoItem})
      /\ \A r \in Players \ {p} : both[r] = one[r]
  BY <1>7 DEF both, Trades!Store
<1>9. ASSUME NEW r \in Players PROVE both[r] = After(p, q, n)[r]
  <2>1. CASE r = p
    BY <1>1, <1>2, <1>3, <1>6, <1>7, <1>8, <2>1
  <2>2. CASE r = q
    BY <1>1, <1>2, <1>3, <1>6, <1>7, <1>8, <2>2
  <2>3. CASE r \notin {p, q}
    BY <1>2, <1>3, <1>7, <1>8, <2>3
  <2> QED BY <2>1, <2>2, <2>3
<1>10. both = After(p, q, n)
  <2> DEFINE a == After(p, q, n)
  <2>1. a = [r \in Players |-> a[r]] /\ \A r \in Players : both[r] = a[r]
    BY <1>3, <1>9
  <2> HIDE DEF a
  <2>2. both = a
    BY <1>8, <2>1
  <2> QED BY <2>2 DEF a
<1> QED BY <1>5, <1>10 DEF inv, mine, his

\* All slots are: each gets what the other gives, and keeps what he does not give.
LEMMA ExchangedIs ==
  ASSUME FairInv, NEW p \in Players, Trades!Trading(p), NEW q \in Players, q = Trades!Partner(p),
         Trades!Fits(p), Trades!Fits(q)
  PROVE  Trades!Exchanged(p) = After(p, q, NSlots)
<1> DEFINE start == [inventory EXCEPT ![p] = @ \ Trades!Given(p), ![q] = @ \ Trades!Given(q)]
           moved[n \in 0..NSlots] ==
             IF n = 0 THEN start ELSE Trades!MoveSlot(moved[n - 1], p, q, Trades!GetItem(p, n), Trades!GetItem(q, n))
           f == [n \in 0..NSlots |-> After(p, q, n)]
<1>0. NSlots \in Nat /\ p # q /\ Trades!Trading(q)
  BY TradeConstants, Pairs DEF FairInv
<1>1. Trades!Exchanged(p) = moved[NSlots]
  BY DEF Trades!Exchanged
<1>2. start = After(p, q, 0)
  <2>1. Handed(p, 0) = {} /\ Handed(q, 0) = {}
    BY <1>0, GivenIs
  <2>2. inventory = [r \in Players |-> inventory[r]]
    BY DEF FairInv, Belongings
  <2> DEFINE a == After(p, q, 0)
  <2>3. /\ a = [r \in Players |-> a[r]] /\ a[p] = inventory[p] \ Trades!Given(p)
        /\ a[q] = inventory[q] \ Trades!Given(q) /\ \A r \in Players \ {p, q} : a[r] = inventory[r]
    BY <1>0, <2>1 DEF After
  <2> HIDE DEF a
  <2>4. /\ start = [r \in Players |-> start[r]] /\ start[p] = inventory[p] \ Trades!Given(p)
        /\ start[q] = inventory[q] \ Trades!Given(q) /\ \A r \in Players \ {p, q} : start[r] = inventory[r]
    BY <1>0, <2>2
  <2>5. \A r \in Players : start[r] = a[r]
    BY <2>3, <2>4
  <2> HIDE DEF start
  <2>6. start = a
    BY <2>3, <2>4, <2>5
  <2> QED BY <2>6 DEF a
<1> HIDE DEF start
<1>3. f = [n \in 0..NSlots |->
            IF n = 0 THEN start ELSE Trades!MoveSlot(f[n - 1], p, q, Trades!GetItem(p, n), Trades!GetItem(q, n))]
  <2>1. ASSUME NEW n \in 0..NSlots
        PROVE  f[n] = IF n = 0 THEN start
                      ELSE Trades!MoveSlot(f[n - 1], p, q, Trades!GetItem(p, n), Trades!GetItem(q, n))
    <3>1. CASE n = 0
      BY <1>2, <3>1
    <3>2. CASE n # 0
      <4>1. n \in 1..NSlots /\ n - 1 \in 0..NSlots
        BY <1>0, <3>2
      <4>2. Trades!MoveSlot(After(p, q, n - 1), p, q, Trades!GetItem(p, n), Trades!GetItem(q, n)) = After(p, q, n)
        BY <4>1, SlotMoved
      <4>3. f[n] = After(p, q, n) /\ f[n - 1] = After(p, q, n - 1)
        BY <4>1
      <4> HIDE DEF f
      <4> QED BY <3>2, <4>2, <4>3
    <3> QED BY <3>1, <3>2
  <2>2. f = [n \in 0..NSlots |-> f[n]]
    OBVIOUS
  <2> HIDE DEF f
  <2> QED BY <2>1, <2>2
<1>4. moved = [n \in 0..NSlots |->
            IF n = 0 THEN start ELSE Trades!MoveSlot(moved[n - 1], p, q, Trades!GetItem(p, n), Trades!GetItem(q, n))]
  BY <1>3
<1> HIDE DEF moved, f
<1> DEFINE T == {n \in Nat : n <= NSlots => moved[n] = f[n]}
<1>5. 0 \in T
  <2>1. 0 \in 0..NSlots
    BY <1>0
  <2> QED BY <1>3, <1>4, <2>1
<1>6. ASSUME NEW n \in T PROVE n + 1 \in T
  <2> SUFFICES ASSUME n + 1 <= NSlots PROVE moved[n + 1] = f[n + 1]
    OBVIOUS
  <2> DEFINE k == n + 1
  <2>1. k \in 0..NSlots /\ k # 0 /\ k - 1 = n /\ moved[n] = f[n]
    BY <1>0
  <2> HIDE DEF k
  <2>2. moved[k] = Trades!MoveSlot(moved[k - 1], p, q, Trades!GetItem(p, k), Trades!GetItem(q, k))
    BY <1>4, <2>1
  <2>3. f[k] = Trades!MoveSlot(f[k - 1], p, q, Trades!GetItem(p, k), Trades!GetItem(q, k))
    BY <1>3, <2>1
  <2> QED BY <2>1, <2>2, <2>3 DEF k
<1> HIDE DEF T
<1>7. T = Nat
  <2>1. T \in SUBSET Nat
    BY DEF T
  <2> QED BY <1>5, <1>6, <2>1, SetInduction
<1>8. moved[NSlots] = f[NSlots] /\ NSlots \in 0..NSlots
  BY <1>0, <1>7 DEF T
<1> QED BY <1>1, <1>8 DEF f

\* What the two of a completed trade p and q have afterwards: nothing is lost for want
\* of room in moveItems, no gold to the ceiling or made by the floor of ModifyMoney.
LEMMA CompletedIs ==
  ASSUME FairInv, NEW p \in Players, Trades!CompleteTrade(p), NEW q \in Players, q = Trades!Partner(p)
  PROVE  /\ Trades!Trading(p) /\ Trades!Trading(q) /\ Trades!Partner(q) = p /\ p # q
         /\ trade[q].accepted /\ inventory' = After(p, q, NSlots)
         /\ gold' = [r \in Players |-> gold'[r]]
         /\ gold'[p] = gold[p] - trade[p].money + trade[q].money
         /\ gold'[q] = gold[q] - trade[q].money + trade[p].money
         /\ gold'[p] \in 0..(MaxMoney - 1) /\ gold'[q] \in 0..(MaxMoney - 1)
         /\ \A r \in Players \ {p, q} : gold'[r] = gold[r] /\ trade'[r] = trade[r]
         /\ online' = online /\ locked' = locked /\ trade'[p] = NoTrade /\ trade'[q] = NoTrade
<1>1. /\ Trades!Trading(p) /\ Trades!Trading(q) /\ Trades!Partner(q) = p /\ p # q
      /\ trade[p] \in Trades!TradeData /\ trade[q] \in Trades!TradeData
  BY Pairs DEF FairInv, Trades!CompleteTrade, Trades!BothAccept
<1>2. inventory' = After(p, q, NSlots)
  BY <1>1, ExchangedIs DEF Trades!CompleteTrade
<1>3. /\ trade[q].accepted /\ online' = online /\ locked' = locked
      /\ trade'[p] = NoTrade /\ trade'[q] = NoTrade
      /\ \A r \in Players \ {p, q} : trade'[r] = trade[r]
  BY <1>1 DEF Trades!CompleteTrade, Trades!BothAccept, Trades!TradeCancelled
<1>4. /\ gold[p] \in 0..(MaxMoney - 1) /\ gold[q] \in 0..(MaxMoney - 1) /\ MaxMoney \in Nat
      /\ trade[p].money \in 0..MaxMoney /\ trade[q].money \in 0..MaxMoney
      /\ gold = [r \in Players |-> gold[r]]
  BY <1>1, TradeConstants DEF FairInv, Belongings, Trades!TradeData
<1>5. /\ gold[p] >= trade[p].money /\ gold[q] >= trade[q].money
      /\ gold[p] < MaxMoney - trade[q].money /\ gold[q] < MaxMoney - trade[p].money
  <2>1. Trades!Refused(p, TRUE) = {}
    BY DEF Trades!CompleteTrade, Trades!BothAccept
  <2>2. ~Trades!CannotPay(p) /\ ~Trades!CannotPay(q) /\ ~Trades!CannotHold(p) /\ ~Trades!CannotHold(q)
    BY <2>1 DEF Trades!Refused
  <2> QED BY <1>1, <1>4, <2>2 DEF Trades!CannotPay, Trades!CannotHold
<1> DEFINE after(r, out, in) == Trades!More(Trades!Less(gold[r], out), in)
<1>6. ASSUME NEW r \in {p, q}, NEW out \in 0..MaxMoney, NEW in \in 0..MaxMoney,
             gold[r] >= out, gold[r] < MaxMoney - in
      PROVE  after(r, out, in) = gold[r] - out + in /\ after(r, out, in) \in 0..(MaxMoney - 1)
  BY <1>4, <1>6 DEF Trades!More, Trades!Less
<1>7. gold' = [gold EXCEPT ![p] = after(p, trade[p].money, trade[q].money),
                           ![q] = after(q, trade[q].money, trade[p].money)]
  BY DEF Trades!CompleteTrade
<1>8. /\ after(p, trade[p].money, trade[q].money) = gold[p] - trade[p].money + trade[q].money
      /\ after(p, trade[p].money, trade[q].money) \in 0..(MaxMoney - 1)
      /\ after(q, trade[q].money, trade[p].money) = gold[q] - trade[q].money + trade[p].money
      /\ after(q, trade[q].money, trade[p].money) \in 0..(MaxMoney - 1)
  <2> HIDE DEF after
  <2> QED BY <1>4, <1>5, <1>6
<1> HIDE DEF after
<1>9. /\ gold' = [r \in Players |-> gold'[r]] /\ \A r \in Players \ {p, q} : gold'[r] = gold[r]
      /\ gold'[p] = after(p, trade[p].money, trade[q].money)
      /\ gold'[q] = after(q, trade[q].money, trade[p].money)
  BY <1>1, <1>4, <1>7
<1> QED BY <1>1, <1>2, <1>3, <1>8, <1>9

\* They have room for it, and each item has one owner still.
LEMMA CompletedKeeps ==
  ASSUME FairInv, NEW p \in Players, Trades!CompleteTrade(p)
  PROVE  Belongings' /\ OneOwner'
<1>1. PICK q \in Players : q = Trades!Partner(p)
  BY Pairs DEF FairInv, Trades!CompleteTrade, Trades!BothAccept
<1>2. /\ Trades!Trading(p) /\ Trades!Trading(q) /\ Trades!Partner(q) = p /\ p # q
      /\ inventory' = After(p, q, NSlots) /\ online' = online /\ locked' = locked
      /\ gold' = [r \in Players |-> gold'[r]]
      /\ gold'[p] \in 0..(MaxMoney - 1) /\ gold'[q] \in 0..(MaxMoney - 1)
      /\ \A r \in Players \ {p, q} : gold'[r] = gold[r]
  BY <1>1, CompletedIs
<1> DEFINE gp == Trades!Given(p)
           gq == Trades!Given(q)
<1>3. /\ gp \subseteq inventory[p] /\ gq \subseteq inventory[q]
      /\ IsFiniteSet(gp) /\ IsFiniteSet(gq) /\ Handed(p, NSlots) = gp /\ Handed(q, NSlots) = gq
  BY <1>2, GivenIs
<1>4. /\ inventory' = [r \in Players |-> inventory'[r]]
      /\ inventory'[p] = (inventory[p] \ gp) \cup gq /\ inventory'[q] = (inventory[q] \ gq) \cup gp
      /\ \A r \in Players \ {p, q} : inventory'[r] = inventory[r]
  <2>1. /\ After(p, q, NSlots) = [r \in Players |-> After(p, q, NSlots)[r]]
        /\ After(p, q, NSlots)[p] = (inventory[p] \ gp) \cup Handed(q, NSlots)
        /\ After(p, q, NSlots)[q] = (inventory[q] \ gq) \cup Handed(p, NSlots)
        /\ \A r \in Players \ {p, q} : After(p, q, NSlots)[r] = inventory[r]
    BY <1>2 DEF After
  <2> QED BY <1>2, <1>3, <2>1
<1>5. /\ Cardinality(inventory[p] \ gp) + Cardinality(gq) <= Places
      /\ Cardinality(inventory[q] \ gq) + Cardinality(gp) <= Places
  BY <1>1, <1>2, TradeCardinality DEF Trades!CompleteTrade, Trades!Fits
<1> HIDE DEF gp, gq
<1>6. /\ inventory \in [Players -> SUBSET Items] /\ IsFiniteSet(inventory[p]) /\ IsFiniteSet(inventory[q])
      /\ gold \in [Players -> 0..(MaxMoney - 1)]
      /\ \A r \in Players : IsFiniteSet(inventory[r]) /\ Cardinality(inventory[r]) <= Places
  BY DEF FairInv, Belongings
<1>7. ASSUME NEW S, NEW T, IsFiniteSet(S), IsFiniteSet(T), Cardinality(S) + Cardinality(T) <= Places
      PROVE  IsFiniteSet(S \cup T) /\ Cardinality(S \cup T) <= Places
  <2>1. IsFiniteSet(S \cap T)
    <3>1. S \cap T \subseteq S
      OBVIOUS
    <3> QED BY <1>7, <3>1, FS_Subset
  <2>2. IsFiniteSet(S \cup T) /\ Cardinality(S \cup T) = Cardinality(S) + Cardinality(T) - Cardinality(S \cap T)
    BY <1>7, FS_Union
  <2>3. Cardinality(S) \in Nat /\ Cardinality(T) \in Nat /\ Cardinality(S \cap T) \in Nat
    BY <1>7, <2>1, FS_CardinalityType
  <2>4. Places \in Nat
    BY TradesAssumption DEF Trades!TradeAssumption
  <2> QED BY <1>7, <2>2, <2>3, <2>4
<1>8. IsFiniteSet(inventory[p] \ gp) /\ IsFiniteSet(inventory[q] \ gq)
  BY <1>6, FS_Difference
<1>9. \A r \in Players : IsFiniteSet(inventory'[r]) /\ Cardinality(inventory'[r]) <= Places
  <2>1. IsFiniteSet(inventory'[p]) /\ Cardinality(inventory'[p]) <= Places
    <3>1. IsFiniteSet((inventory[p] \ gp) \cup gq) /\ Cardinality((inventory[p] \ gp) \cup gq) <= Places
      BY <1>3, <1>5, <1>7, <1>8
    <3> QED BY <1>4, <3>1
  <2>2. IsFiniteSet(inventory'[q]) /\ Cardinality(inventory'[q]) <= Places
    <3>1. IsFiniteSet((inventory[q] \ gq) \cup gp) /\ Cardinality((inventory[q] \ gq) \cup gp) <= Places
      BY <1>3, <1>5, <1>7, <1>8
    <3> QED BY <1>4, <3>1
  <2>3. \A r \in Players \ {p, q} : inventory'[r] = inventory[r]
    BY <1>4
  <2> QED BY <1>6, <2>1, <2>2, <2>3
<1>10. inventory' \in [Players -> SUBSET Items]
  <2>1. \A r \in Players : inventory'[r] \in SUBSET Items
    BY <1>3, <1>4, <1>6
  <2> QED BY <1>4, <2>1
<1>11. gold' \in [Players -> 0..(MaxMoney - 1)]
  <2>1. \A r \in Players : gold'[r] \in 0..(MaxMoney - 1)
    BY <1>2, <1>6
  <2> QED BY <1>2, <2>1
<1>12. Belongings'
  BY <1>2, <1>9, <1>10, <1>11 DEF FairInv, Belongings
<1>13. OneOwner'
  <2> SUFFICES ASSUME NEW a \in Players, NEW b \in Players, a # b
               PROVE  inventory'[a] \cap inventory'[b] = {}
    BY DEF OneOwner
  <2>1. \A x, y \in Players : x # y => inventory[x] \cap inventory[y] = {}
    BY DEF FairInv, OneOwner
  <2>2. CASE a = p
    BY <1>2, <1>3, <1>4, <2>1, <2>2
  <2>3. CASE a = q
    BY <1>2, <1>3, <1>4, <2>1, <2>3
  <2>4. CASE a \notin {p, q}
    BY <1>2, <1>3, <1>4, <2>1, <2>4
  <2> QED BY <2>2, <2>3, <2>4
<1> QED BY <1>12, <1>13

\* An exchange is of what the accepted slots hold and their owners still have,
\* and of nothing that may not be given.
FairNow ==
  \A p \in Players : Trades!Exchange(p) =>
    LET q == Trades!Partner(p)
    IN  /\ trade[p].accepted \/ trade[q].accepted
        /\ gold'[p] = gold[p] - trade[p].money + trade[q].money
        /\ inventory'[p] = (inventory[p] \ Trades!InSlots(p)) \cup (Trades!InSlots(q) \cap inventory[q])

LegalNow ==
  \A p \in Players : Trades!Exchange(p) =>
    \A i \in inventory'[p] \ inventory[p] : i \notin locked /\ <<i, p>> \notin Forbidden

\* A trade that is completed: the other one's items are legal by the offer, his own by the test.
LEMMA CompletedFair ==
  ASSUME FairInv, NEW p \in Players, Trades!CompleteTrade(p)
  PROVE  FairNow /\ LegalNow
<1>1. PICK q \in Players : q = Trades!Partner(p)
  BY Pairs DEF FairInv, Trades!CompleteTrade, Trades!BothAccept
<1>2. /\ Trades!Trading(p) /\ Trades!Trading(q) /\ Trades!Partner(q) = p /\ p # q
      /\ trade[q].accepted /\ inventory' = After(p, q, NSlots)
      /\ gold'[p] = gold[p] - trade[p].money + trade[q].money
      /\ gold'[q] = gold[q] - trade[q].money + trade[p].money
      /\ \A r \in Players \ {p, q} : trade'[r] = trade[r]
  BY <1>1, CompletedIs
<1>3. /\ inventory'[p] = (inventory[p] \ Trades!Given(p)) \cup Trades!Given(q)
      /\ inventory'[q] = (inventory[q] \ Trades!Given(q)) \cup Trades!Given(p)
  <2>1. Handed(p, NSlots) = Trades!Given(p) /\ Handed(q, NSlots) = Trades!Given(q)
    BY <1>2, GivenIs
  <2>2. /\ After(p, q, NSlots)[p] = (inventory[p] \ Trades!Given(p)) \cup Handed(q, NSlots)
        /\ After(p, q, NSlots)[q] = (inventory[q] \ Trades!Given(q)) \cup Handed(p, NSlots)
    BY <1>2 DEF After
  <2> QED BY <1>2, <2>1, <2>2
<1>4. \A r \in Players : Trades!Exchange(r) => r \in {p, q}
  BY <1>2 DEF Trades!Exchange, Trades!Trading
<1>5. FairNow
  <2> SUFFICES ASSUME NEW r \in {p, q}
               PROVE  LET s == Trades!Partner(r)
                      IN  /\ trade[r].accepted \/ trade[s].accepted
                          /\ gold'[r] = gold[r] - trade[r].money + trade[s].money
                          /\ inventory'[r] = (inventory[r] \ Trades!InSlots(r))
                                              \cup (Trades!InSlots(s) \cap inventory[s])
    BY <1>4 DEF FairNow
  <2>1. \A s \in Players : Trades!Given(s) = Trades!InSlots(s) \cap inventory[s]
    BY GivenFromSlots
  <2>2. \A s \in Players : inventory[s] \ Trades!Given(s) = inventory[s] \ Trades!InSlots(s)
    BY <2>1
  <2> QED BY <1>1, <1>2, <1>3, <2>1, <2>2
<1>6. ~Trades!HasIllegalItem(p)
  BY DEF Trades!CompleteTrade, Trades!BothAccept
<1>7. ASSUME NEW i \in Trades!Given(q) PROVE i \notin locked /\ <<i, p>> \notin Forbidden
  <2>1. PICK s \in Trades!Traded : i = trade[q].items[s] /\ i # NoItem
    BY DEF Trades!Given, Trades!GetItem
  <2>2. <<i, trade[q].trader>> \notin Forbidden
    BY <1>2, <2>1 DEF FairInv, Offered, ProperOffer, Trades!Trading
  <2> QED BY <1>1, <1>2, <1>6, <2>2 DEF Trades!HasIllegalItem, Trades!Partner
<1>8. ASSUME NEW i \in Trades!Given(p) PROVE i \notin locked /\ <<i, q>> \notin Forbidden
  BY <1>1, <1>6 DEF Trades!HasIllegalItem
<1>9. LegalNow
  <2> SUFFICES ASSUME NEW r \in {p, q}, NEW i \in inventory'[r] \ inventory[r]
               PROVE  i \notin locked /\ <<i, r>> \notin Forbidden
    BY <1>4 DEF LegalNow
  <2>1. CASE r = p
    BY <1>3, <1>7, <2>1
  <2>2. CASE r = q
    BY <1>3, <1>8, <2>2
  <2> QED BY <2>1, <2>2
<1> QED BY <1>5, <1>9

\* Whatever else happens exchanges nothing: trades that end leave all with its owner,
\* and what changes owners or gold ends no trade.
LEMMA FairStep ==
  ASSUME FairInv, [Trades!Next]_Trades!vars
  PROVE  FairInv' /\ OffersStand /\ FairNow /\ LegalNow
<1>1. TradeInv' /\ OffersStand /\ ItemsChange
  BY TradeStep DEF FairInv
<1>2. Offered'
  BY <1>1, OffersStep DEF FairInv
<1>3. ASSUME UNCHANGED <<inventory, gold>>, locked' \subseteq Items, online' \subseteq Players
      PROVE  Belongings' /\ OneOwner' /\ FairNow /\ LegalNow
  BY <1>3 DEF FairInv, Belongings, OneOwner, FairNow, LegalNow, Trades!Exchange
<1>4. ASSUME UNCHANGED <<online, locked, inventory, gold>>
      PROVE  Belongings' /\ OneOwner' /\ FairNow /\ LegalNow
  BY <1>3, <1>4 DEF FairInv, Belongings
<1>5. ASSUME UNCHANGED trade PROVE FairNow /\ LegalNow
  BY <1>5 DEF FairNow, LegalNow, Trades!Exchange, Trades!Trading
<1>6. ASSUME NEW p \in Players, Trades!Login(p) \/ Trades!Logout(p)
      PROVE  Belongings' /\ OneOwner' /\ FairNow /\ LegalNow
  <2>1. UNCHANGED <<locked, inventory, gold>> /\ online' \subseteq Players
    BY <1>6 DEF FairInv, Belongings, Trades!Login, Trades!Logout
  <2> QED BY <1>3, <2>1 DEF FairInv, Belongings
<1>7. ASSUME NEW p \in Players, Trades!GoldChanges(p)
      PROVE  Belongings' /\ OneOwner' /\ FairNow /\ LegalNow
  <2>1. /\ gold \in [Players -> 0..(MaxMoney - 1)] /\ MaxMoney \in Nat
        /\ gold' = [gold EXCEPT ![p] = Trades!More(@, 1)] \/ gold' = [gold EXCEPT ![p] = Trades!Less(@, 1)]
        /\ UNCHANGED <<online, trade, inventory, locked>>
    BY <1>7, TradeConstants DEF Trades!GoldChanges, FairInv, Belongings
  <2>2. Trades!More(gold[p], 1) \in 0..(MaxMoney - 1) /\ Trades!Less(gold[p], 1) \in 0..(MaxMoney - 1)
    BY <2>1 DEF Trades!More, Trades!Less
  <2>3. gold' \in [Players -> 0..(MaxMoney - 1)]
    BY <2>1, <2>2
  <2> QED BY <1>5, <2>1, <2>3 DEF FairInv, Belongings, OneOwner
<1>8. ASSUME NEW p \in Players, NEW i \in Items, Trades!ItemLeaves(p, i)
      PROVE  Belongings' /\ OneOwner' /\ FairNow /\ LegalNow
  <2> DEFINE rest == inventory[p] \ {i}
  <2>1. /\ inventory \in [Players -> SUBSET Items] /\ inventory' = [inventory EXCEPT ![p] = rest]
        /\ UNCHANGED <<online, trade, gold, locked>>
    BY <1>8 DEF Trades!ItemLeaves, FairInv, Belongings
  <2>2. /\ IsFiniteSet(inventory[p]) /\ Cardinality(inventory[p]) <= Places /\ rest \subseteq inventory[p]
        /\ Places \in Nat
    BY TradesAssumption DEF FairInv, Belongings, Trades!TradeAssumption
  <2> HIDE DEF rest
  <2>3. IsFiniteSet(rest) /\ Cardinality(rest) <= Places
    BY <2>2, FS_Subset, FS_CardinalityType
  <2>4. \A r \in Players : inventory'[r] \subseteq inventory[r]
    BY <2>1, <2>2
  <2>5. /\ inventory' \in [Players -> SUBSET Items] /\ inventory'[p] = rest
        /\ \A r \in Players \ {p} : inventory'[r] = inventory[r]
    BY <2>1, <2>2
  <2>6. Belongings'
    BY <2>1, <2>3, <2>5 DEF FairInv, Belongings
  <2>7. OneOwner'
    BY <2>4 DEF FairInv, OneOwner
  <2> QED BY <1>5, <2>1, <2>6, <2>7
<1>9. ASSUME NEW p \in Players, NEW i \in Items, Trades!ItemLooted(p, i)
      PROVE  Belongings' /\ OneOwner' /\ FairNow /\ LegalNow
  <2> DEFINE more == inventory[p] \cup {i}
  <2>1. /\ inventory \in [Players -> SUBSET Items] /\ inventory' = [inventory EXCEPT ![p] = more]
        /\ UNCHANGED <<online, trade, gold, locked>>
        /\ \A r \in Players : i \notin inventory[r]
        /\ Cardinality(inventory[p]) < Places
    BY <1>9, TradeCardinality DEF Trades!ItemLooted, FairInv, Belongings
  <2>2. IsFiniteSet(inventory[p]) /\ Places \in Nat /\ more \subseteq Items
    BY <2>1, TradesAssumption DEF FairInv, Belongings, Trades!TradeAssumption
  <2>3. IsFiniteSet(more) /\ Cardinality(more) <= Places
    <3>1. IsFiniteSet(more) /\ Cardinality(more) = Cardinality(inventory[p]) + 1
      BY <2>1, <2>2, FS_AddElement
    <3>2. Cardinality(inventory[p]) \in Nat
      BY <2>2, FS_CardinalityType
    <3> QED BY <2>1, <2>2, <3>1, <3>2
  <2>4. \A r \in Players : inventory'[r] = IF r = p THEN inventory[p] \cup {i} ELSE inventory[r]
    BY <2>1
  <2> HIDE DEF more
  <2>5. /\ inventory' \in [Players -> SUBSET Items] /\ inventory'[p] = more
        /\ \A r \in Players \ {p} : inventory'[r] = inventory[r]
    BY <2>1, <2>2
  <2>6. Belongings'
    BY <2>1, <2>3, <2>5 DEF FairInv, Belongings
  <2>7. OneOwner'
    BY <2>1, <2>4 DEF FairInv, OneOwner
  <2> QED BY <1>5, <2>1, <2>6, <2>7
<1>10. ASSUME NEW i \in Items, Trades!LockChanges(i)
       PROVE  Belongings' /\ OneOwner' /\ FairNow /\ LegalNow
  <2>1. UNCHANGED <<online, inventory, gold>> /\ locked' \subseteq Items
    BY <1>10 DEF Trades!LockChanges, FairInv, Belongings
  <2> QED BY <1>3, <2>1 DEF FairInv, Belongings
<1>11. ASSUME NEW p \in Players,
              \/ \E q \in Players : Trades!InitiateTrade(p, q)
              \/ Trades!CancelTrade(p)
              \/ \E s \in Trades!Slots, i \in Items : Trades!SetTradeItem(p, s, i)
              \/ \E s \in Trades!Slots : Trades!ClearTradeItem(p, s)
              \/ \E amount \in 0..MaxMoney : Trades!SetTradeGold(p, amount)
              \/ Trades!SetSpell(p) \/ Trades!UnacceptTrade(p)
              \/ Trades!AcceptStopped(p) \/ Trades!SpellRefused(p) \/ Trades!NoRoom(p)
              \/ \E i \in Items : Trades!StackChanges(p, i)
       PROVE  UNCHANGED <<online, locked, inventory, gold>>
  BY <1>11 DEF Trades!InitiateTrade, Trades!CancelTrade, Trades!SetTradeItem, Trades!ClearTradeItem,
       Trades!SetTradeGold, Trades!SetSpell, Trades!UnacceptTrade, Trades!AcceptStopped, Trades!SpellRefused,
       Trades!NoRoom, Trades!StackChanges
<1>12. ASSUME UNCHANGED Trades!vars PROVE UNCHANGED <<online, locked, inventory, gold>>
  BY <1>12 DEF Trades!vars
<1>13. Belongings' /\ OneOwner' /\ FairNow /\ LegalNow
  BY <1>4, <1>6, <1>7, <1>8, <1>9, <1>10, <1>11, <1>12, CompletedKeeps, CompletedFair DEF Trades!Next
<1> QED BY <1>1, <1>2, <1>13 DEF FairInv

\* Nobody has anything at first.
LEMMA FairInit == Trades!Init => FairInv
<1> SUFFICES ASSUME Trades!Init PROVE FairInv
  OBVIOUS
<1>1. TradeInv
  BY TradeInit
<1>2. 0 \in 0..(MaxMoney - 1) /\ Places \in Nat
  BY TradesAssumption DEF Trades!TradeAssumption
<1>3. IsFiniteSet({}) /\ Cardinality({}) <= Places
  BY <1>2, FS_EmptySet
<1>4. Belongings /\ OneOwner
  BY <1>2, <1>3 DEF Trades!Init, Belongings, OneOwner
<1>5. Offered
  BY DEF Trades!Init, Offered
<1> QED BY <1>1, <1>4, <1>5 DEF FairInv

\* HandleAcceptTradeOpcode: for any number of players, slots and items, a trade that moves
\* anything was accepted, takes the gold of both offers and moves each item of the slots that
\* is still in its owner's bags, none of them locked or forbidden to who gets it; no slot, gold
\* or spell is written behind an acceptance that stays.  It does not say that each item of an
\* accepted slot is given: one that left the bags meanwhile is not, and the gold still moves.
THEOREM TradesAreFair == Trades!Spec => FairTrade
<1>1. FairInv /\ [Trades!Next]_Trades!vars =>
        FairInv' /\ [OffersStand]_Trades!vars /\ [FairNow]_Trades!vars /\ [LegalNow]_Trades!vars
  BY FairStep
<1>2. Trades!AcceptedOfferStands <=> [][OffersStand]_Trades!vars
  BY DEF Trades!AcceptedOfferStands, OffersStand
<1>3. Trades!FairExchange <=> [][FairNow]_Trades!vars
  BY DEF Trades!FairExchange, FairNow
<1>4. Trades!OnlyLegalTransfers <=> [][LegalNow]_Trades!vars
  BY DEF Trades!OnlyLegalTransfers, LegalNow
<1>5. FairTrade <=> Trades!AcceptedOfferStands /\ Trades!FairExchange /\ Trades!OnlyLegalTransfers
  BY DEF FairTrade, Trades!FairTrade
<1> QED BY <1>1, <1>2, <1>3, <1>4, <1>5, FairInit, PTL DEF Trades!Spec

\* Player: trades, bags and money have their types, and nobody has more than
\* his bags hold.
LEMMA TradeTypesAre == Trades!Spec => []Trades!TypeOK
<1>1. FairInv => Trades!TypeOK
  BY TradeCardinality DEF FairInv, TradeInv, TradeTypes, Belongings, Trades!TypeOK
<1>2. Trades!Spec => []FairInv
  BY FairInit, FairStep, PTL DEF Trades!Spec
<1> QED BY <1>1, <1>2, PTL

-----------------------------------------------------------------------------
(* The auction house.  Where an item is: in a bag, in a mail or with the
   auction house, which holds the items of its auctions and no others.       *)

\* Mails by their owners: money and items.
IsBox(box) ==
  /\ DOMAIN box = Players
  /\ \A p \in Players : /\ box[p] = [money |-> box[p].money, items |-> box[p].items]
                        /\ box[p].items \subseteq Items

\* What an auction is of, and whose.
IsAuction(auction) ==
  /\ DOMAIN auction = {"item", "owner", "startbid", "buyout", "bidder", "bid", "deposit", "expired", "paid"}
  /\ auction.item \in Items /\ auction.owner \in Players /\ auction.bidder \in Players \cup {NoOne}

AuctionTypes ==
  /\ bags \in [Players -> SUBSET Items] /\ IsBox(mail) /\ lastId \in Nat
  /\ DOMAIN AuctionsMap \subseteq 1..lastId /\ \A id \in DOMAIN AuctionsMap : IsAuction(AuctionsMap[id])

\* Each item is somewhere, and nowhere else.
OnePlace ==
  /\ \A i \in Items : i \in mAitems \/ \E p \in Players : i \in bags[p] \/ i \in mail[p].items
  /\ \A p, q \in Players : \A i \in Items :
       /\ i \in bags[p] => i \notin mAitems /\ i \notin mail[q].items /\ (i \in bags[q] => p = q)
       /\ i \in mail[p].items => i \notin mAitems /\ (i \in mail[q].items => p = q)

\* The auction house holds the items of its auctions, each once.
OneAuction ==
  /\ mAitems = {AuctionsMap[id].item : id \in DOMAIN AuctionsMap}
  /\ \A x, y \in DOMAIN AuctionsMap : AuctionsMap[x].item = AuctionsMap[y].item => x = y

AuctionInv == AuctionTypes /\ OnePlace /\ OneAuction

\* Money put into a mail leaves all items where they are.
LEMMA MoneyMailed ==
  ASSUME NEW box, IsBox(box), NEW p \in Players, NEW amount
  PROVE  /\ IsBox(Auction!WithMoney(box, p, amount))
         /\ \A q \in Players : Auction!WithMoney(box, p, amount)[q].items = box[q].items
<1> DEFINE new == [box EXCEPT ![p] = [box[p] EXCEPT !.money = box[p].money + amount]]
<1>1. Auction!WithMoney(box, p, amount) = new
  BY DEF Auction!WithMoney
<1>2. \A q \in Players : new[q] = IF q = p THEN [box[p] EXCEPT !.money = box[p].money + amount] ELSE box[q]
  BY DEF IsBox
<1>3. box[p] = [money |-> box[p].money, items |-> box[p].items]
  BY DEF IsBox
<1>4. [box[p] EXCEPT !.money = box[p].money + amount] = [money |-> box[p].money + amount, items |-> box[p].items]
  BY <1>3
<1>5. \A q \in Players : new[q] = [money |-> new[q].money, items |-> box[q].items]
  BY <1>2, <1>4 DEF IsBox
<1>6. DOMAIN new = Players
  BY DEF IsBox
<1> HIDE DEF new
<1>8. ASSUME NEW q \in Players PROVE new[q].items = box[q].items
  <2> DEFINE m == new[q].money
  <2>1. new[q] = [money |-> m, items |-> box[q].items]
    BY <1>5
  <2> HIDE DEF m
  <2> QED BY <2>1
<1>9. \A q \in Players : new[q] = [money |-> new[q].money, items |-> new[q].items]
  BY <1>5, <1>8
<1> QED BY <1>1, <1>6, <1>8, <1>9 DEF IsBox

\* The mails after one player got an item.
Gets(box, new, p, item) ==
  /\ IsBox(new)
  /\ \A q \in Players : new[q].items = IF q = p THEN box[q].items \cup {item} ELSE box[q].items

\* An item put into a mail is there, and no other is moved.
LEMMA ItemMailed ==
  ASSUME NEW box, IsBox(box), NEW p \in Players, NEW item \in Items
  PROVE  Gets(box, Auction!WithItem(box, p, item), p, item)
<1> DEFINE new == [box EXCEPT ![p] = [box[p] EXCEPT !.items = box[p].items \cup {item}]]
<1>1. Auction!WithItem(box, p, item) = new
  BY DEF Auction!WithItem
<1>2. \A q \in Players : new[q] = IF q = p THEN [box[p] EXCEPT !.items = box[p].items \cup {item}] ELSE box[q]
  BY DEF IsBox
<1>3. box[p] = [money |-> box[p].money, items |-> box[p].items]
  BY DEF IsBox
<1>4. [box[p] EXCEPT !.items = box[p].items \cup {item}] = [money |-> box[p].money, items |-> box[p].items \cup {item}]
  BY <1>3
<1>5. \A q \in Players : new[q] = [money |-> box[q].money,
                                   items |-> IF q = p THEN box[q].items \cup {item} ELSE box[q].items]
  BY <1>2, <1>4 DEF IsBox
<1>6. DOMAIN new = Players
  BY DEF IsBox
<1> HIDE DEF new
<1>8. ASSUME NEW q \in Players
      PROVE  /\ new[q].money = box[q].money
             /\ new[q].items = IF q = p THEN box[q].items \cup {item} ELSE box[q].items
  <2> DEFINE m == box[q].money
             i == IF q = p THEN box[q].items \cup {item} ELSE box[q].items
  <2>1. new[q] = [money |-> m, items |-> i]
    BY <1>5
  <2> HIDE DEF m, i
  <2>2. new[q].money = m /\ new[q].items = i
    BY <2>1
  <2> QED BY <2>2 DEF m, i
<1>9. \A q \in Players : new[q] = [money |-> new[q].money, items |-> new[q].items]
  BY <1>5, <1>8
<1>10. \A q \in Players : new[q].items \subseteq Items
  BY <1>8 DEF IsBox
<1> QED BY <1>1, <1>6, <1>8, <1>9, <1>10 DEF IsBox, Gets

\* At first every item is in one bag.
LEMMA AuctionInit == Auction!Init => AuctionInv
<1> SUFFICES ASSUME Auction!Init PROVE AuctionInv
  OBVIOUS
<1>1. /\ bags \in [Players -> SUBSET Items] /\ mAitems = {} /\ lastId = 0
      /\ mail = [p \in Players |-> [money |-> 0, items |-> {}]]
      /\ DOMAIN AuctionsMap = {}
      /\ \A i \in Items : \E p \in Players : {q \in Players : i \in bags[q]} = {p}
  BY EmptySequence DEF Auction!Init
<1>2. \A p \in Players : mail[p].items = {}
  BY <1>1
<1>3. AuctionTypes
  BY <1>1 DEF AuctionTypes, IsBox
<1>4. OnePlace
  BY <1>1, <1>2 DEF OnePlace
<1>5. OneAuction
  BY <1>1 DEF OneAuction
<1> QED BY <1>3, <1>4, <1>5 DEF AuctionInv

\* No item is moved when auctions change but for what they are of.
LEMMA AuctionsRewritten ==
  ASSUME AuctionInv, bags' = bags, mAitems' = mAitems, lastId' = lastId,
         IsBox(mail'), \A p \in Players : mail'[p].items = mail[p].items,
         DOMAIN AuctionsMap' = DOMAIN AuctionsMap,
         \A id \in DOMAIN AuctionsMap :
           IsAuction(AuctionsMap'[id]) /\ AuctionsMap'[id].item = AuctionsMap[id].item
  PROVE  AuctionInv'
<1>1. AuctionTypes'
  BY DEF AuctionInv, AuctionTypes
<1>2. OnePlace'
  BY DEF AuctionInv, OnePlace
<1>3. OneAuction'
  BY DEF AuctionInv, OneAuction
<1> QED BY <1>1, <1>2, <1>3 DEF AuctionInv

\* RemoveAuction, and the item goes to somebody by mail.
LEMMA ItemSent ==
  ASSUME AuctionInv, NEW id \in DOMAIN AuctionsMap, NEW p \in Players,
         bags' = bags, lastId' = lastId, Auction!RemoveAuction(id),
         Gets(mail, mail', p, AuctionsMap[id].item)
  PROVE  AuctionInv'
<1> DEFINE sold == AuctionsMap[id].item
<1>1. /\ mAitems' = mAitems \ {sold}
      /\ DOMAIN AuctionsMap' = DOMAIN AuctionsMap \ {id}
      /\ \A x \in DOMAIN AuctionsMap \ {id} : AuctionsMap'[x] = AuctionsMap[x]
  BY DEF Auction!RemoveAuction
<1>2. sold \in Items /\ sold \in mAitems
  BY DEF AuctionInv, AuctionTypes, IsAuction, OneAuction
<1>3. IsBox(mail') /\ \A q \in Players : mail'[q].items = IF q = p THEN mail[q].items \cup {sold} ELSE mail[q].items
  BY DEF Gets
<1>4. \A x \in DOMAIN AuctionsMap : AuctionsMap[x].item = sold => x = id
  BY DEF AuctionInv, OneAuction
<1>5. AuctionTypes'
  BY <1>1, <1>3 DEF AuctionInv, AuctionTypes
<1> HIDE DEF sold
<1>6. OnePlace'
  <2>1. \A i \in Items : i \in mAitems' <=> i \in mAitems /\ i # sold
    BY <1>1
  <2>2. \A q \in Players, i \in Items : i \in mail'[q].items <=> i \in mail[q].items \/ (q = p /\ i = sold)
    BY <1>3
  <2>3. \A q \in Players : sold \notin bags[q] /\ sold \notin mail[q].items
    BY <1>2 DEF AuctionInv, OnePlace
  <2>4. ASSUME NEW i \in Items
        PROVE  i \in mAitems' \/ \E q \in Players : i \in bags'[q] \/ i \in mail'[q].items
    <3>1. CASE i = sold
      BY <2>2, <3>1
    <3>2. CASE i # sold
      BY <2>1, <2>2, <3>2 DEF AuctionInv, OnePlace
    <3> QED BY <3>1, <3>2
  <2>5. ASSUME NEW q \in Players, NEW r \in Players, NEW i \in Items
        PROVE  /\ i \in bags'[q] => i \notin mAitems' /\ i \notin mail'[r].items /\ (i \in bags'[r] => q = r)
               /\ i \in mail'[q].items => i \notin mAitems' /\ (i \in mail'[r].items => q = r)
    <3>1. CASE i = sold
      BY <2>1, <2>2, <2>3, <3>1
    <3>2. CASE i # sold
      BY <2>1, <2>2, <3>2 DEF AuctionInv, OnePlace
    <3> QED BY <3>1, <3>2
  <2> QED BY <2>4, <2>5 DEF OnePlace
<1>7. OneAuction'
  <2>1. mAitems = {AuctionsMap[x].item : x \in DOMAIN AuctionsMap}
    BY DEF AuctionInv, OneAuction
  <2>2. \A x \in DOMAIN AuctionsMap : AuctionsMap[x].item # sold <=> x # id
    BY <1>4 DEF sold
  <2>3. mAitems' = {AuctionsMap[x].item : x \in DOMAIN AuctionsMap \ {id}}
    BY <1>1, <2>1, <2>2
  <2>4. mAitems' = {AuctionsMap'[x].item : x \in DOMAIN AuctionsMap'}
    BY <1>1, <2>3
  <2> QED BY <1>1, <2>4 DEF AuctionInv, OneAuction
<1> QED BY <1>5, <1>6, <1>7 DEF AuctionInv

\* An item that is put up leaves its owner's bag for an auction of its own.
LEMMA ItemPutUp ==
  ASSUME AuctionInv, NEW p \in Players, NEW item \in Items, NEW offer \in Offers,
         Auction!HandleAuctionSellItem(p, item, offer)
  PROVE  AuctionInv'
<1>1. /\ item \in bags[p] /\ item \notin mAitems
      /\ lastId' = lastId + 1 /\ mail' = mail
      /\ mAitems' = mAitems \cup {item} /\ bags' = [bags EXCEPT ![p] = bags[p] \ {item}]
  BY DEF Auction!HandleAuctionSellItem, Auction!MoveItemToAuction
<1> DEFINE auction == [item |-> item, owner |-> p, startbid |-> offer.startbid, buyout |-> offer.buyout,
                       bidder |-> NoOne, bid |-> 0, deposit |-> Deposits[1], expired |-> FALSE, paid |-> FALSE]
<1>2. AuctionsMap' = [id \in DOMAIN AuctionsMap \cup {lastId'} |->
                        IF id # lastId' THEN AuctionsMap[id] ELSE auction]
  BY DEF Auction!HandleAuctionSellItem
<1>3. IsAuction(auction) /\ auction.item = item
  BY DEF IsAuction
<1> HIDE DEF auction
<1>4. lastId \in Nat /\ DOMAIN AuctionsMap \subseteq 1..lastId
  BY DEF AuctionInv, AuctionTypes
<1>5. /\ DOMAIN AuctionsMap' = DOMAIN AuctionsMap \cup {lastId'} /\ lastId' \notin DOMAIN AuctionsMap
      /\ AuctionsMap'[lastId'] = auction
      /\ \A id \in DOMAIN AuctionsMap : AuctionsMap'[id] = AuctionsMap[id]
  BY <1>1, <1>2, <1>4
<1>6. AuctionTypes'
  <2>1. lastId' \in Nat /\ DOMAIN AuctionsMap' \subseteq 1..lastId'
    BY <1>1, <1>4, <1>5
  <2>2. \A id \in DOMAIN AuctionsMap' : IsAuction(AuctionsMap'[id])
    BY <1>3, <1>5 DEF AuctionInv, AuctionTypes
  <2>3. bags' \in [Players -> SUBSET Items]
    BY <1>1 DEF AuctionInv, AuctionTypes
  <2>4. IsBox(mail')
    BY <1>1 DEF AuctionInv, AuctionTypes
  <2> QED BY <2>1, <2>2, <2>3, <2>4 DEF AuctionTypes
<1>7. OnePlace'
  <2>1. \A q \in Players : bags'[q] = IF q = p THEN bags[q] \ {item} ELSE bags[q]
    BY <1>1 DEF AuctionInv, AuctionTypes
  <2> QED BY <1>1, <2>1 DEF AuctionInv, OnePlace
<1>8. OneAuction'
  BY <1>1, <1>3, <1>5 DEF AuctionInv, OneAuction
<1> QED BY <1>6, <1>7, <1>8 DEF AuctionInv

\* The timer's turn changes deposits and ends of auctions only.
LEMMA DepositsSettle ==
  ASSUME AuctionInv, NEW p \in Players, Auction!UpdatePendingAuctions(p)
  PROVE  AuctionInv'
<1>1. bags' = bags /\ mail' = mail /\ mAitems' = mAitems /\ lastId' = lastId
  BY DEF Auction!UpdatePendingAuctions
<1>2. IsBox(mail') /\ \A q \in Players : mail'[q].items = mail[q].items
  BY <1>1 DEF AuctionInv, AuctionTypes
<1>3. \A id \in DOMAIN AuctionsMap : IsAuction(AuctionsMap[id])
  BY DEF AuctionInv, AuctionTypes
<1>4. CASE Auction!PendingAuctionProcess(p)
  <2>1. PICK total : AuctionsMap' = Auction!WithDeposits(pending[p].ids, total)
    BY <1>4 DEF Auction!PendingAuctionProcess
  <2>2. /\ DOMAIN AuctionsMap' = DOMAIN AuctionsMap
        /\ \A id \in DOMAIN AuctionsMap :
             \/ AuctionsMap'[id] = AuctionsMap[id]
             \/ \E share : AuctionsMap'[id] = [AuctionsMap[id] EXCEPT !.deposit = share, !.paid = TRUE]
    BY <2>1 DEF Auction!WithDeposits
  <2>3. \A id \in DOMAIN AuctionsMap :
          IsAuction(AuctionsMap'[id]) /\ AuctionsMap'[id].item = AuctionsMap[id].item
    BY <1>3, <2>2 DEF IsAuction
  <2> QED BY <1>1, <1>2, <2>2, <2>3, AuctionsRewritten
<1>5. CASE Auction!ExpirePending(p)
  <2>1. /\ DOMAIN AuctionsMap' = DOMAIN AuctionsMap
        /\ \A id \in DOMAIN AuctionsMap :
             \E over : AuctionsMap'[id] = [AuctionsMap[id] EXCEPT !.expired = over]
    BY <1>5 DEF Auction!ExpirePending
  <2>2. \A id \in DOMAIN AuctionsMap :
          IsAuction(AuctionsMap'[id]) /\ AuctionsMap'[id].item = AuctionsMap[id].item
    BY <1>3, <2>1 DEF IsAuction
  <2> QED BY <1>1, <1>2, <2>1, <2>2, AuctionsRewritten
<1>6. CASE AuctionsMap' = AuctionsMap
  BY <1>1, <1>2, <1>3, <1>6, AuctionsRewritten
<1> QED BY <1>4, <1>5, <1>6 DEF Auction!UpdatePendingAuctions

\* The bidder so far gets money, and no item.
LEMMA Refunded ==
  ASSUME AuctionInv, NEW id \in DOMAIN AuctionsMap, NEW p \in Players, NEW price
  PROVE  LET box == Auction!Outbid(AuctionsMap[id], p, price) IN
         IsBox(box) /\ \A q \in Players : box[q].items = mail[q].items
<1>1. IsBox(mail)
  BY DEF AuctionInv, AuctionTypes
<1>2. CASE AuctionsMap[id].bidder \in {NoOne, p}
  BY <1>1, <1>2 DEF Auction!Outbid
<1>3. CASE AuctionsMap[id].bidder \notin {NoOne, p}
  <2> DEFINE bidder == AuctionsMap[id].bidder
             bid == AuctionsMap[id].bid
  <2>1. bidder \in Players
    BY <1>3 DEF AuctionInv, AuctionTypes, IsAuction
  <2>2. Auction!Outbid(AuctionsMap[id], p, price) = Auction!WithMoney(mail, bidder, bid)
    BY <1>3 DEF Auction!Outbid
  <2> HIDE DEF bidder, bid
  <2> QED BY <1>1, <2>1, <2>2, MoneyMailed
<1> QED BY <1>2, <1>3

\* The owner gets money, the winner the item.
LEMMA SaleMailed ==
  ASSUME NEW box, IsBox(box), NEW auction, auction.owner \in Players,
         auction.bidder \in Players, auction.item \in Items
  PROVE  Gets(box, Auction!AfterSale(box, auction), auction.bidder, auction.item)
<1> DEFINE owner == auction.owner
           winner == auction.bidder
           item == auction.item
           amount == auction.bid + auction.deposit - Auction!GetAuctionCut(auction.bid)
           paid == Auction!WithMoney(box, owner, amount)
<1>1. Auction!AfterSale(box, auction) = Auction!WithItem(paid, winner, item)
  BY DEF Auction!AfterSale
<1>2. owner \in Players /\ winner \in Players /\ item \in Items
  OBVIOUS
<1> HIDE DEF owner, winner, item, amount
<1>3. IsBox(paid) /\ \A q \in Players : paid[q].items = box[q].items
  BY <1>2, MoneyMailed
<1> HIDE DEF paid
<1>4. Gets(paid, Auction!WithItem(paid, winner, item), winner, item)
  BY <1>2, <1>3, ItemMailed
<1>5. Gets(box, Auction!WithItem(paid, winner, item), winner, item)
  BY <1>3, <1>4 DEF Gets
<1> QED BY <1>1, <1>5 DEF winner, item

BidBy(auction, p, paid) == [auction EXCEPT !.bidder = p, !.bid = paid]

\* A bid changes nothing else in an auction.
LEMMA BidNoted ==
  ASSUME NEW auction, IsAuction(auction), NEW p \in Players, NEW paid
  PROVE  /\ IsAuction(BidBy(auction, p, paid))
         /\ BidBy(auction, p, paid).item = auction.item /\ BidBy(auction, p, paid).owner = auction.owner
         /\ BidBy(auction, p, paid).bidder = p
<1> DEFINE after == [auction EXCEPT !.bidder = p, !.bid = paid]
<1>1. DOMAIN after = DOMAIN auction
  BY DEF IsAuction
<1>2. after.item = auction.item
  BY DEF IsAuction
<1>3. after.owner = auction.owner
  BY DEF IsAuction
<1>4. after.bidder = p
  BY DEF IsAuction
<1> HIDE DEF after
<1>5. IsAuction(after)
  BY <1>1, <1>2, <1>3, <1>4 DEF IsAuction
<1>6. after = BidBy(auction, p, paid)
  BY DEF after, BidBy
<1> QED BY <1>2, <1>3, <1>4, <1>5, <1>6, Zenon

\* A bid moves no item, a buyout the auction's to the buyer.
LEMMA BidPlaced ==
  ASSUME AuctionInv, NEW p \in Players, NEW id \in DOMAIN AuctionsMap, NEW price,
         Auction!HandleAuctionPlaceBid(p, id, price)
  PROVE  AuctionInv'
<1> DEFINE auction == AuctionsMap[id]
           buyout == auction.buyout # 0 /\ price >= auction.buyout
           paid == IF buyout THEN auction.buyout ELSE price
           after == BidBy(auction, p, paid)
           box == Auction!Outbid(auction, p, paid)
<1>1. IsAuction(auction)
  BY DEF AuctionInv, AuctionTypes
<1>2. bags' = bags /\ lastId' = lastId
  BY DEF Auction!HandleAuctionPlaceBid
<1>3. IsBox(box) /\ \A q \in Players : box[q].items = mail[q].items
  <2> HIDE DEF paid
  <2> QED BY Refunded
<1>4. /\ IsAuction(after) /\ after.item = auction.item /\ after.owner = auction.owner
      /\ after.bidder = p
  <2> HIDE DEF auction, paid
  <2> QED BY <1>1, BidNoted
<1>5. CASE buyout
  <2>1. mail' = Auction!AfterSale(box, after) /\ Auction!RemoveAuction(id)
    BY <1>5 DEF Auction!HandleAuctionPlaceBid, BidBy
  <2>2. after.owner \in Players /\ after.bidder \in Players /\ after.item \in Items
    BY <1>1, <1>4 DEF IsAuction
  <2>3. after.bidder = p /\ after.item = AuctionsMap[id].item
    BY <1>4
  <2> HIDE DEF after, box
  <2>4. Gets(box, mail', after.bidder, after.item)
    BY <1>3, <2>1, <2>2, SaleMailed
  <2>5. Gets(mail, mail', p, AuctionsMap[id].item)
    <3> HIDE DEF auction
    <3> QED BY <1>3, <2>3, <2>4 DEF Gets
  <2> QED BY <1>2, <2>1, <2>5, ItemSent
<1>6. CASE ~buyout
  <2>1. mail' = box /\ AuctionsMap' = [AuctionsMap EXCEPT ![id] = after] /\ mAitems' = mAitems
    BY <1>6 DEF Auction!HandleAuctionPlaceBid, BidBy
  <2>2. IsBox(mail') /\ \A q \in Players : mail'[q].items = mail[q].items
    BY <1>3, <2>1
  <2>3. after.item = AuctionsMap[id].item
    BY <1>4
  <2> HIDE DEF after, box
  <2>4. DOMAIN AuctionsMap' = DOMAIN AuctionsMap
    BY <2>1
  <2>5. \A x \in DOMAIN AuctionsMap : AuctionsMap'[x] = IF x = id THEN after ELSE AuctionsMap[x]
    BY <2>1
  <2>6. \A x \in DOMAIN AuctionsMap :
          IsAuction(AuctionsMap'[x]) /\ AuctionsMap'[x].item = AuctionsMap[x].item
    BY <1>4, <2>3, <2>5 DEF AuctionInv, AuctionTypes
  <2> QED BY <1>2, <2>1, <2>2, <2>4, <2>6, AuctionsRewritten
<1> QED BY <1>5, <1>6

\* A cancelled auction's item goes back to its owner, and its bid to the bidder.
LEMMA AuctionCancelled ==
  ASSUME AuctionInv, NEW p \in Players, NEW id \in DOMAIN AuctionsMap,
         Auction!HandleAuctionRemoveItem(p, id)
  PROVE  AuctionInv'
<1> DEFINE bidder == AuctionsMap[id].bidder
           bid == AuctionsMap[id].bid
           item == AuctionsMap[id].item
           box == IF bidder = NoOne THEN mail ELSE Auction!WithMoney(mail, bidder, bid)
<1>1. /\ bags' = bags /\ lastId' = lastId /\ Auction!RemoveAuction(id)
      /\ mail' = Auction!WithItem(box, p, item)
  BY DEF Auction!HandleAuctionRemoveItem
<1>2. IsBox(mail) /\ item \in Items /\ (bidder = NoOne \/ bidder \in Players)
  BY DEF AuctionInv, AuctionTypes, IsAuction
<1>3. IsBox(box) /\ \A q \in Players : box[q].items = mail[q].items
  <2> HIDE DEF bidder, bid
  <2> QED BY <1>2, MoneyMailed
<1> HIDE DEF box, item
<1>4. Gets(box, mail', p, item)
  BY <1>1, <1>2, <1>3, ItemMailed
<1>5. Gets(mail, mail', p, item)
  BY <1>3, <1>4 DEF Gets
<1> QED BY <1>1, <1>5, ItemSent DEF item

\* One whose time is up ends in a sale, or its item goes back.
LEMMA AuctionExpired ==
  ASSUME AuctionInv, NEW id \in DOMAIN AuctionsMap, Auction!Expire(id)
  PROVE  AuctionInv'
<1> DEFINE auction == AuctionsMap[id]
<1>1. bags' = bags /\ lastId' = lastId /\ Auction!RemoveAuction(id)
  BY DEF Auction!Expire
<1>2. /\ IsBox(mail) /\ auction.owner \in Players /\ auction.item \in Items
      /\ (auction.bidder = NoOne \/ auction.bidder \in Players)
  BY DEF AuctionInv, AuctionTypes, IsAuction
<1>3. CASE auction.bidder = NoOne
  <2>1. mail' = Auction!WithItem(mail, auction.owner, auction.item)
    BY <1>3 DEF Auction!Expire
  <2>2. Gets(mail, mail', auction.owner, auction.item)
    <3> HIDE DEF auction
    <3> QED BY <1>2, <2>1, ItemMailed
  <2> QED BY <1>1, <1>2, <2>2, ItemSent
<1>4. CASE auction.bidder # NoOne
  <2>1. mail' = Auction!AfterSale(mail, auction)
    BY <1>4 DEF Auction!Expire
  <2>2. Gets(mail, mail', auction.bidder, auction.item)
    <3> HIDE DEF auction
    <3> QED BY <1>2, <1>4, <2>1, SaleMailed
  <2> QED BY <1>1, <1>2, <1>4, <2>2, ItemSent
<1> QED BY <1>3, <1>4

\* Items go from a player's mail into his bags.
LEMMA MailTaken ==
  ASSUME AuctionInv, NEW p \in Players, Auction!TakeMail(p)
  PROVE  AuctionInv'
<1>1. /\ mAitems' = mAitems /\ AuctionsMap' = AuctionsMap /\ lastId' = lastId
      /\ bags' = [bags EXCEPT ![p] = bags[p] \cup mail[p].items]
      /\ mail' = [mail EXCEPT ![p] = [money |-> 0, items |-> {}]]
  BY DEF Auction!TakeMail
<1>2. bags \in [Players -> SUBSET Items] /\ IsBox(mail)
  BY DEF AuctionInv, AuctionTypes
<1>3. \A q \in Players : bags'[q] = IF q = p THEN bags[q] \cup mail[q].items ELSE bags[q]
  BY <1>1, <1>2
<1>4. DOMAIN mail' = Players /\ \A q \in Players : mail'[q] = IF q = p THEN [money |-> 0, items |-> {}] ELSE mail[q]
  BY <1>1, <1>2 DEF IsBox
<1>5. \A q \in Players : mail'[q].items = IF q = p THEN {} ELSE mail[q].items
  BY <1>4
<1>6. IsBox(mail')
  <2>1. ASSUME NEW q \in Players
        PROVE  /\ mail'[q] = [money |-> mail'[q].money, items |-> mail'[q].items]
               /\ mail'[q].items \subseteq Items
    <3>1. CASE q = p
      BY <1>4, <3>1
    <3>2. CASE q # p
      BY <1>2, <1>4, <3>2 DEF IsBox
    <3> QED BY <3>1, <3>2
  <2> QED BY <1>4, <2>1 DEF IsBox
<1>7. bags' \in [Players -> SUBSET Items]
  BY <1>1, <1>2 DEF IsBox
<1>8. AuctionTypes'
  BY <1>1, <1>6, <1>7 DEF AuctionInv, AuctionTypes
<1>9. OnePlace'
  BY <1>1, <1>3, <1>5 DEF AuctionInv, OnePlace
<1>10. OneAuction'
  BY <1>1 DEF AuctionInv, OneAuction
<1> QED BY <1>8, <1>9, <1>10 DEF AuctionInv

\* Nothing else moves an item.
LEMMA AuctionStep == AuctionInv /\ [Auction!Next]_Auction!vars => AuctionInv'
<1> SUFFICES ASSUME AuctionInv, [Auction!Next]_Auction!vars PROVE AuctionInv'
  OBVIOUS
<1>1. CASE bags' = bags /\ mail' = mail /\ mAitems' = mAitems /\ AuctionsMap' = AuctionsMap /\ lastId' = lastId
  BY <1>1 DEF AuctionInv, AuctionTypes, OnePlace, OneAuction
<1>2. ASSUME NEW p \in Players, Auction!Spend(p) \/ Auction!Connect(p) PROVE AuctionInv'
  BY <1>1, <1>2 DEF Auction!Spend, Auction!Connect
<1>3. CASE UNCHANGED Auction!vars
  BY <1>1, <1>3 DEF Auction!vars
<1> QED BY <1>2, <1>3, ItemPutUp, AuctionCancelled, BidPlaced, DepositsSettle, MailTaken, AuctionExpired
        DEF Auction!Next

\* Sets of the instance are counted as all sets are.
LEMMA AuctionCardinality == \A S : Auction!Cardinality(S) = Cardinality(S)
BY DEF Auction!Cardinality, Cardinality

\* Who has an item, and to whom it was mailed.
BagsWith(i) == {p \in Players : i \in bags[p]}
MailsWith(i) == {p \in Players : i \in mail[p].items}

\* AuctionHouseMgr: for any number of players and items, an item is in one bag,
\* one mail or one auction, however auctions are sold, bought out, outbid,
\* cancelled, settled and left by their owners.
THEOREM ItemsAreInOnePlace == Auction!Spec => []Auction!ItemInOnePlace
<1>1. AuctionInv => Auction!ItemInOnePlace
  <2> SUFFICES ASSUME AuctionInv PROVE Auction!ItemInOnePlace
    OBVIOUS
  <2>1. ASSUME NEW i \in Items
        PROVE  Cardinality(BagsWith(i)) + Cardinality(MailsWith(i)) + (IF i \in mAitems THEN 1 ELSE 0) = 1
    <3>1. ASSUME i \in mAitems PROVE BagsWith(i) = {} /\ MailsWith(i) = {}
      BY <3>1 DEF AuctionInv, OnePlace, BagsWith, MailsWith
    <3>2. ASSUME NEW p \in Players, i \in bags[p]
          PROVE  BagsWith(i) = {p} /\ MailsWith(i) = {} /\ i \notin mAitems
      BY <3>2 DEF AuctionInv, OnePlace, BagsWith, MailsWith
    <3>3. ASSUME NEW p \in Players, i \in mail[p].items
          PROVE  MailsWith(i) = {p} /\ BagsWith(i) = {} /\ i \notin mAitems
      BY <3>3 DEF AuctionInv, OnePlace, BagsWith, MailsWith
    <3>4. i \in mAitems \/ \E p \in Players : i \in bags[p] \/ i \in mail[p].items
      BY DEF AuctionInv, OnePlace
    <3>5. Cardinality({}) = 0 /\ \A p \in Players : Cardinality({p}) = 1
      BY FS_EmptySet, FS_Singleton
    <3>6. CASE i \in mAitems
      BY <3>1, <3>5, <3>6
    <3>7. ASSUME NEW p \in Players, i \in bags[p]
          PROVE  Cardinality(BagsWith(i)) = 1 /\ Cardinality(MailsWith(i)) = 0 /\ i \notin mAitems
      BY <3>2, <3>5, <3>7
    <3>8. ASSUME NEW p \in Players, i \in mail[p].items
          PROVE  Cardinality(BagsWith(i)) = 0 /\ Cardinality(MailsWith(i)) = 1 /\ i \notin mAitems
      BY <3>3, <3>5, <3>8
    <3> QED BY <3>4, <3>6, <3>7, <3>8
  <2> QED BY <2>1, AuctionCardinality
          DEF AuctionInv, OneAuction, Auction!ItemInOnePlace, BagsWith, MailsWith
<1> QED BY <1>1, AuctionInit, AuctionStep, PTL DEF Auction!Spec

-----------------------------------------------------------------------------
(* The auction house: money. *)

\* The instance sums as everybody does.
LEMMA AuctionSum == \A f : Auction!SumFunction(f) = SumFunctionOnSet(f, DOMAIN f)
BY DEF Auction!SumFunction, Auction!SumFunctionOnSet, Auction!FoldFunctionOnSet, Auction!MapThenFoldSet,
       SumFunctionOnSet, FoldFunctionOnSet, MapThenFoldSet

\* Mails with so much money in each.
IsPurse(box) == IsBox(box) /\ \A p \in Players : box[p].money \in Nat

\* What players have in m and in their mails box.
Owned(m, box) == [p \in Players |-> m[p] + box[p].money]
Purses(m, box) == SumFunctionOnSet(Owned(m, box), Players)

\* What is held with the auctions of a map.
HeldOf(map) == [id \in DOMAIN map |-> Auction!Held(map[id])]
Holdings(map) == SumFunctionOnSet(HeldOf(map), DOMAIN map)

\* What the constants are.
LEMMA AuctionConstants ==
  /\ IsFiniteSet(Players) /\ NoOne \notin Players /\ StartMoney \in Nat /\ CutPercent \in 0..100
  /\ MaxAuctions \in Nat /\ \A n \in 1..MaxAuctions : Deposits[n] \in Nat
  /\ \A offer \in Offers : offer.startbid \in Nat /\ offer.buyout \in Nat
<1>1. Auction!IsFiniteSet(Players) <=> IsFiniteSet(Players)
  BY DEF Auction!IsFiniteSet, IsFiniteSet
<1> QED BY <1>1, AuctionsAssumption DEF Auction!AuctionAssumption

\* Players with n and bag have what they have with m and box, but p has a more.
Gains(m, box, n, bag, p, a) ==
  /\ m \in [Players -> Nat] /\ n \in [Players -> Nat] /\ IsPurse(box) /\ IsPurse(bag)
  /\ p \in Players /\ a \in Int /\ n[p] + bag[p].money = m[p] + box[p].money + a
  /\ \A q \in Players : q # p => n[q] + bag[q].money = m[q] + box[q].money

\* So have all of them together.
LEMMA PursesChange ==
  ASSUME NEW m, NEW box, NEW n, NEW bag, NEW p, NEW a, Gains(m, box, n, bag, p, a)
  PROVE  Purses(m, box) \in Int /\ Purses(n, bag) = Purses(m, box) + a
<1> DEFINE f == Owned(m, box)
           e == Owned(n, bag)
<1>0. p \in Players /\ a \in Int /\ IsFiniteSet(Players)
  BY AuctionConstants DEF Gains
<1>1. \A q \in Players : m[q] \in Nat /\ n[q] \in Nat /\ box[q].money \in Nat /\ bag[q].money \in Nat
  BY DEF Gains, IsPurse
<1>2. \A q \in Players : f[q] = m[q] + box[q].money /\ e[q] = n[q] + bag[q].money
  BY DEF Owned
<1>3. \A q \in Players : f[q] \in Int /\ e[q] \in Int
  BY <1>1, <1>2
<1>4. DifferAt(f, e, Players, p) /\ e[p] = f[p] + a
  BY <1>0, <1>2, <1>3 DEF DifferAt, Gains
<1> HIDE DEF f, e
<1>5. SumFunctionOnSet(e, Players) = SumFunctionOnSet(f, Players) + e[p] - f[p]
  BY ONLY <1>0, <1>4, SumChange
<1>6. SumFunctionOnSet(f, Players) \in Int
  BY ONLY <1>0, <1>3, SumRemove
<1>7. SumFunctionOnSet(e, Players) = SumFunctionOnSet(f, Players) + a
  BY <1>0, <1>3, <1>4, <1>5, <1>6
<1> QED BY <1>6, <1>7 DEF Purses, f, e

\* Money mailed to a player is his.
LEMMA PursesMail ==
  ASSUME NEW m \in [Players -> Nat], NEW box, IsPurse(box), NEW p \in Players, NEW a \in Nat
  PROVE  /\ IsPurse(Auction!WithMoney(box, p, a)) /\ Purses(m, box) \in Int
         /\ Purses(m, Auction!WithMoney(box, p, a)) = Purses(m, box) + a
<1> DEFINE bag == Auction!WithMoney(box, p, a)
<1>1. IsBox(bag)
  BY MoneyMailed DEF IsPurse
<1>2. \A q \in Players : bag[q].money = IF q = p THEN box[q].money + a ELSE box[q].money
  BY DEF Auction!WithMoney, IsPurse, IsBox
<1> HIDE DEF bag
<1>3. IsPurse(bag)
  BY <1>1, <1>2 DEF IsPurse
<1>4. Gains(m, box, m, bag, p, a)
  BY <1>2, <1>3 DEF IsPurse, Gains
<1>5. Purses(m, box) \in Int /\ Purses(m, bag) = Purses(m, box) + a
  BY ONLY <1>4, PursesChange
<1> QED BY <1>3, <1>5 DEF bag

\* The same money where it was, or with other mails.
LEMMA PursesSame ==
  ASSUME NEW m, NEW box, NEW n, NEW bag,
         \A p \in Players : n[p] + bag[p].money = m[p] + box[p].money
  PROVE  Purses(n, bag) = Purses(m, box)
<1>1. Owned(n, bag) = Owned(m, box)
  BY DEF Owned
<1> QED BY <1>1 DEF Purses

\* An item is no money.
LEMMA PursesItem ==
  ASSUME NEW m, NEW box, IsPurse(box), NEW p \in Players, NEW item \in Items
  PROVE  /\ IsPurse(Auction!WithItem(box, p, item))
         /\ Purses(m, Auction!WithItem(box, p, item)) = Purses(m, box)
<1> DEFINE bag == Auction!WithItem(box, p, item)
<1>1. IsBox(bag)
  BY ItemMailed DEF IsPurse, Gets
<1>2. \A q \in Players : bag[q].money = box[q].money
  BY DEF Auction!WithItem, IsPurse, IsBox
<1> HIDE DEF bag
<1>3. IsPurse(bag)
  BY <1>1, <1>2 DEF IsPurse
<1>4. Purses(m, bag) = Purses(m, box)
  BY <1>2, PursesSame
<1> QED BY <1>3, <1>4 DEF bag

\* A player pays a to the money of all: what he does not have is forgiven.
Paid(a) ==
  /\ money' \in [Players -> Nat] /\ forgiven' \in Nat /\ a \in Int
  /\ \A box : IsPurse(box) =>
       /\ Purses(money, box) \in Int /\ Purses(money', box) \in Int
       /\ Purses(money', box) - forgiven' = Purses(money, box) - forgiven - a

\* So does one whose money gets less.
LEMMA LessPaid ==
  ASSUME money \in [Players -> Nat], forgiven \in Nat, NEW p \in Players, NEW a \in Int,
         Auction!Less(p, a)
  PROVE  Paid(a)
<1> DEFINE paid == IF money[p] > a THEN a ELSE money[p]
<1>1. money' = [money EXCEPT ![p] = money[p] - paid] /\ forgiven' = forgiven + a - paid
  BY DEF Auction!Less
<1>2. paid \in Int /\ money[p] - paid \in Nat /\ money[p] \in Nat /\ a - paid \in Nat
  OBVIOUS
<1> HIDE DEF paid
<1>3. money' \in [Players -> Nat] /\ forgiven' \in Nat
  BY <1>1, <1>2
<1>4. ASSUME NEW box, IsPurse(box)
      PROVE  /\ Purses(money, box) \in Int /\ Purses(money', box) \in Int
             /\ Purses(money', box) - forgiven' = Purses(money, box) - forgiven - a
  <2>1. box[p].money \in Nat /\ -paid \in Int
    BY <1>2, <1>4 DEF IsPurse
  <2>2. money'[p] + box[p].money = money[p] + box[p].money + (-paid)
    BY <1>1, <1>2, <2>1
  <2>3. \A q \in Players : q # p => money'[q] + box[q].money = money[q] + box[q].money
    BY <1>1
  <2>4. Gains(money, box, money', box, p, -paid)
    BY <1>3, <1>4, <2>1, <2>2, <2>3 DEF Gains
  <2>5. Purses(money, box) \in Int /\ Purses(money', box) = Purses(money, box) + (-paid)
    BY ONLY <2>4, PursesChange
  <2> QED BY <1>1, <1>2, <2>5
<1> QED BY <1>3, <1>4 DEF Paid

-----------------------------------------------------------------------------
(* What is held with the auctions there are. *)

HasHoldings(map) == IsFiniteSet(DOMAIN map) /\ \A id \in DOMAIN map : Auction!Held(map[id]) \in Nat

\* It is a number.
LEMMA HoldingsAreInt == ASSUME NEW map, HasHoldings(map) PROVE Holdings(map) \in Int
<1> DEFINE f == HeldOf(map)
<1>1. \A id \in DOMAIN map : f[id] \in Int
  BY DEF HeldOf, HasHoldings
<1> HIDE DEF f
<1>2. IsFiniteSet(DOMAIN map)
  BY DEF HasHoldings
<1>3. SumFunctionOnSet(f, DOMAIN map) \in Int
  BY ONLY <1>1, <1>2, SumRemove
<1> QED BY <1>3 DEF Holdings, f

\* The auctions of new are those of map, and only what is held with id may have changed.
Altered(map, new, id) ==
  /\ HasHoldings(map) /\ HasHoldings(new) /\ id \in DOMAIN map /\ DOMAIN new = DOMAIN map
  /\ \A x \in DOMAIN map : x # id => Auction!Held(new[x]) = Auction!Held(map[x])

\* Another bid or deposit in the place of one.
LEMMA HoldingsChange ==
  ASSUME NEW map, NEW new, NEW id, Altered(map, new, id)
  PROVE  Holdings(map) \in Int /\ Holdings(new) = Holdings(map) + Auction!Held(new[id]) - Auction!Held(map[id])
<1> DEFINE f == HeldOf(map)
           e == HeldOf(new)
           S == DOMAIN map
<1>1. IsFiniteSet(S) /\ id \in S /\ DOMAIN new = S
  BY DEF Altered, HasHoldings
<1>2. \A x \in S : f[x] = Auction!Held(map[x]) /\ e[x] = Auction!Held(new[x]) /\ f[x] \in Int /\ e[x] \in Int
  BY <1>1 DEF Altered, HasHoldings, HeldOf
<1>3. DifferAt(f, e, S, id)
  BY <1>2 DEF DifferAt, Altered
<1> HIDE DEF f, e, S
<1>4. SumFunctionOnSet(e, S) = SumFunctionOnSet(f, S) + e[id] - f[id]
  BY ONLY <1>1, <1>3, SumChange
<1>5. Holdings(new) = SumFunctionOnSet(e, S) /\ Holdings(map) = SumFunctionOnSet(f, S)
  BY <1>1 DEF Holdings, f, e, S
<1> QED BY <1>1, <1>2, <1>4, <1>5, HoldingsAreInt DEF Altered

\* The auctions of new are those of map but id.
Without(map, new, id) ==
  /\ HasHoldings(map) /\ HasHoldings(new) /\ id \in DOMAIN map /\ DOMAIN new = DOMAIN map \ {id}
  /\ \A x \in DOMAIN map : x # id => Auction!Held(new[x]) = Auction!Held(map[x])

\* With an auction what is held with it goes.
LEMMA HoldingsLess ==
  ASSUME NEW map, NEW new, NEW id, Without(map, new, id)
  PROVE  /\ Holdings(map) \in Int /\ Holdings(new) \in Int /\ Auction!Held(map[id]) \in Nat
         /\ Holdings(map) = Holdings(new) + Auction!Held(map[id])
<1> DEFINE f == HeldOf(map)
           e == HeldOf(new)
           S == DOMAIN map
<1>1. IsFiniteSet(S) /\ id \in S /\ DOMAIN new = S \ {id} /\ IsFiniteSet(S \ {id})
  BY DEF Without, HasHoldings
<1>2. /\ \A x \in S : f[x] = Auction!Held(map[x]) /\ f[x] \in Int
      /\ \A x \in S \ {id} : e[x] = Auction!Held(new[x])
  BY <1>1 DEF Without, HasHoldings, HeldOf
<1>3. \A x \in S \ {id} : f[x] \in Int /\ f[x] = e[x]
  BY <1>2 DEF Without
<1> HIDE DEF f, e, S
<1>4. \A x \in S : SumFunctionOnSet(f, S) = f[x] + SumFunctionOnSet(f, S \ {x})
  <2>1. \A x \in S : f[x] \in Int
    BY <1>2
  <2> QED BY ONLY <1>1, <2>1, SumRemove
<1>5. SumFunctionOnSet(f, S \ {id}) = SumFunctionOnSet(e, S \ {id})
  BY ONLY <1>1, <1>3, SumSame
<1>6. Holdings(new) = SumFunctionOnSet(e, S \ {id}) /\ Holdings(map) = SumFunctionOnSet(f, S)
  BY <1>1 DEF Holdings, f, e, S
<1>7. Holdings(map) \in Int /\ Holdings(new) \in Int /\ Auction!Held(map[id]) \in Nat /\ f[id] = Auction!Held(map[id])
  BY <1>1, <1>2, HoldingsAreInt DEF Without, HasHoldings
<1> QED BY <1>1, <1>4, <1>5, <1>6, <1>7

\* What is the same adds up to the same.
LEMMA HoldingsSame ==
  ASSUME NEW map, NEW new, DOMAIN new = DOMAIN map, \A id \in DOMAIN map : Auction!Held(new[id]) = Auction!Held(map[id])
  PROVE  Holdings(new) = Holdings(map)
<1>1. HeldOf(new) = HeldOf(map)
  BY DEF HeldOf
<1> QED BY <1>1 DEF Holdings

-----------------------------------------------------------------------------
(* Money is neither made nor lost. *)

\* What is known of an auction's prices; without a bidder there is no bid.
IsPriced(auction) ==
  /\ auction.bid \in Nat /\ auction.buyout \in Nat /\ auction.deposit \in Nat
  /\ auction.paid \in BOOLEAN /\ (auction.bidder = NoOne => auction.bid = 0)

\* Auctions of a player that are not settled: each once, of the first n.
IsPending(q, n) ==
  /\ DOMAIN q = {"ids", "counted"} /\ q.ids \in Seq(1..n) /\ IsInjective(q.ids)
  /\ q.counted \in Nat /\ q.counted <= Len(q.ids)

MoneyTypes ==
  /\ money \in [Players -> Nat] /\ IsPurse(mail)
  /\ house \in Nat /\ forgiven \in Nat /\ unpaid \in Nat /\ lastId \in 0..MaxAuctions
  /\ \A id \in DOMAIN AuctionsMap : IsPriced(AuctionsMap[id])
  /\ DOMAIN pending = Players /\ \A p \in Players : IsPending(pending[p], lastId)

\* What there is, wherever it is.
Worth == Purses(money, mail) + Holdings(AuctionsMap) + house - forgiven - unpaid

\* An auction that is noted for a player is his, and not paid for.
IsNoted(id, p) == id \in DOMAIN AuctionsMap => AuctionsMap[id].owner = p /\ AuctionsMap[id].paid = FALSE
NotedUnpaid == \A p \in Players : \A id \in Range(pending[p].ids) : IsNoted(id, p)

MoneyInv == AuctionInv /\ MoneyTypes /\ NotedUnpaid /\ Worth = StartMoney * Cardinality(Players)

\* The deposit of an auction as far as it has been taken.
Taken(auction) == IF auction.paid THEN auction.deposit ELSE 0

\* What is held with an auction is a number.
LEMMA PriceHeld ==
  ASSUME NEW auction, IsPriced(auction)
  PROVE  /\ Auction!Held(auction) \in Nat /\ Taken(auction) \in Nat
         /\ Auction!Held(auction) = auction.bid + Taken(auction)
         /\ auction.deposit - Taken(auction) \in Nat
BY DEF IsPriced, Taken, Auction!Held

\* There are finitely many auctions.
LEMMA PricedIsHeld ==
  ASSUME NEW map, NEW n \in Nat, DOMAIN map \subseteq 1..n, \A id \in DOMAIN map : IsPriced(map[id])
  PROVE  HasHoldings(map)
<1>1. IsFiniteSet(1..n)
  BY FS_Interval
<1>2. IsFiniteSet(DOMAIN map)
  BY <1>1, FS_Subset
<1>3. \A id \in DOMAIN map : Auction!Held(map[id]) \in Nat
  BY PriceHeld
<1> QED BY <1>2, <1>3 DEF HasHoldings

\* A player has no more unsettled auctions than there have ever been, so that
\* their deposit is a number.
LEMMA PendingLength ==
  ASSUME NEW n \in 0..MaxAuctions, NEW q, IsPending(q, n)
  PROVE  /\ Len(q.ids) \in 0..n /\ (q.ids # <<>> => Len(q.ids) \in 1..n)
         /\ q.ids # <<>> => Deposits[Len(q.ids)] \in Nat
<1> DEFINE s == q.ids
<1>1. s \in Seq(1..n) /\ IsInjective(s) /\ n \in Nat /\ MaxAuctions \in Nat /\ n <= MaxAuctions
  BY AuctionConstants DEF IsPending
<1> HIDE DEF s
<1>2. Range(s) \subseteq 1..n /\ IsFiniteSet(Range(s)) /\ Cardinality(Range(s)) = Len(s)
  BY <1>1, RangeType, LengthIsCardinality
<1>3. IsFiniteSet(1..n) /\ Cardinality(1..n) = n
  BY <1>1, FS_Interval
<1>4. Cardinality(Range(s)) <= Cardinality(1..n)
  BY <1>2, <1>3, FS_Subset
<1>5. Len(s) \in Nat /\ (s # <<>> => Len(s) # 0)
  BY <1>1
<1>6. Len(s) \in 0..n /\ (s # <<>> => Len(s) \in 1..n /\ Len(s) \in 1..MaxAuctions)
  BY <1>1, <1>2, <1>3, <1>4, <1>5
<1> QED BY <1>6, AuctionConstants DEF s

\* The house keeps no more than the price.
LEMMA CutOfPrice ==
  ASSUME NEW price \in Nat
  PROVE  Auction!GetAuctionCut(price) \in 0..price
<1>1. CutPercent \in 0..100
  BY AuctionConstants
<1>2. price * CutPercent \in Nat /\ price * CutPercent <= price * 100
  BY <1>1
<1> DEFINE product == price * CutPercent
<1>3. product \in Nat /\ product <= price * 100
  BY <1>2
<1> HIDE DEF product
<1>4. product \div 100 \in 0..price
  BY <1>3
<1> QED BY <1>4 DEF Auction!GetAuctionCut, product

\* No share is negative.
LEMMA SharesAreNat ==
  ASSUME NEW total \in Nat, NEW ids, Len(ids) \in Nat \ {0}, NEW k
  PROVE  Auction!Share(ids, k, total) \in Nat
<1> DEFINE n == Len(ids)
           part == total \div n
<1>1. part \in Nat /\ n * part <= total
  OBVIOUS
<1> HIDE DEF part
<1>2. (n - 1) * part = n * part - part /\ n * part \in Nat
  BY <1>1
<1> HIDE DEF n
<1>3. total - (n - 1) * part \in Nat
  BY <1>1, <1>2
<1> QED BY <1>1, <1>3 DEF Auction!Share, n, part

\* Shares of total for the auctions ids: all but the last get as much, it the rest.
IsShared(f, ids, total) ==
  \A k \in 1..Len(ids) :
    f[ids[k]] = IF k = Len(ids) THEN total - (Len(ids) - 1) * (total \div Len(ids)) ELSE total \div Len(ids)

\* They add up to it.
LEMMA SharesAddUp ==
  ASSUME NEW S, NEW ids \in Seq(S), IsInjective(ids), ids # <<>>, NEW total \in Nat,
         NEW f, IsShared(f, ids, total)
  PROVE  SumFunctionOnSet(f, Range(ids)) = total
<1> DEFINE n == Len(ids)
           part == total \div n
           last == ids[n]
           R == Range(ids) \ {last}
<1>1. n \in Nat /\ n >= 1 /\ DOMAIN ids = 1..n
  OBVIOUS
<1>2. part \in Int /\ (n - 1) * part \in Int
  BY <1>1
<1>3. IsFiniteSet(Range(ids)) /\ Cardinality(Range(ids)) = n
  BY LengthIsCardinality
<1>11. n \in 1..n /\ \A k \in 1..n : f[ids[k]] = IF k = n THEN total - (n - 1) * part ELSE part
  <2>1. n \in 1..n
    BY <1>1
  <2>2. \A k \in 1..n : f[ids[k]] = IF k = n THEN total - (n - 1) * part ELSE part
    BY Zenon DEF IsShared
  <2> QED BY <2>1, <2>2
<1>12. \A x \in Range(ids) : \E k \in 1..n : x = ids[k]
  BY <1>1 DEF Range
<1> HIDE DEF n, part
<1>4. last \in Range(ids) /\ f[last] = total - (n - 1) * part
  BY <1>1, <1>11 DEF Range
<1>5. \A x \in R : f[x] = part
  BY <1>11, <1>12
<1>6. IsFiniteSet(R) /\ Cardinality(R) = n - 1
  BY <1>3, <1>4, FS_RemoveElement
<1>7. \A x \in Range(ids) : f[x] \in Int
  BY <1>2, <1>4, <1>5
<1> DEFINE U == Range(ids)
<1> HIDE DEF last, U
<1>8. SumFunctionOnSet(f, R) = part * Cardinality(R)
  BY ONLY <1>2, <1>5, <1>6, SumConstant
<1>9. SumFunctionOnSet(f, Range(ids)) = f[last] + SumFunctionOnSet(f, R)
  BY ONLY <1>3, <1>4, <1>7, SumRemove
<1>10. part * (n - 1) = (n - 1) * part
  BY <1>1, <1>2
<1> QED BY <1>2, <1>4, <1>6, <1>8, <1>9, <1>10

\* A step of the auction house that may be proved about: its types and before it the money's.
Stepping == AuctionInv /\ AuctionInv' /\ MoneyTypes

\* The bids of the auctions in the house are numbers, before a step and after it.
LEMMA MapIsHeld ==
  /\ AuctionInv /\ MoneyTypes => HasHoldings(AuctionsMap)
  /\ AuctionInv' /\ (\A id \in DOMAIN AuctionsMap' : IsPriced(AuctionsMap'[id])) => HasHoldings(AuctionsMap')
<1>1. AuctionInv /\ MoneyTypes => HasHoldings(AuctionsMap)
  BY PricedIsHeld DEF AuctionInv, AuctionTypes, MoneyTypes
<1>2. AuctionInv' /\ (\A id \in DOMAIN AuctionsMap' : IsPriced(AuctionsMap'[id])) => HasHoldings(AuctionsMap')
  BY PricedIsHeld DEF AuctionInv, AuctionTypes
<1> QED BY <1>1, <1>2

\* What a player has put up is noted to be settled.
LEMMA PendingNoted ==
  ASSUME NEW n \in Nat, NEW q, IsPending(q, n)
  PROVE  IsPending([q EXCEPT !.ids = Append(q.ids, n + 1)], n + 1)
<1> DEFINE ids == q.ids
           new == [q EXCEPT !.ids = Append(q.ids, n + 1)]
<1>1. DOMAIN new = {"ids", "counted"} /\ new.ids = Append(ids, n + 1) /\ new.counted = q.counted
  BY DEF IsPending
<1>2. ids \in Seq(1..n) /\ IsInjective(ids) /\ q.counted \in Nat /\ q.counted <= Len(ids)
  BY DEF IsPending
<1> HIDE DEF ids, new
<1>3. ids \in Seq(1..(n + 1)) /\ n + 1 \in 1..(n + 1)
  <2>1. \A k \in 1..n : k \in 1..(n + 1)
    OBVIOUS
  <2> QED BY <1>2, <2>1
<1>4. n + 1 \notin Range(ids)
  BY <1>2, RangeType
<1>5. IsInjective(Append(ids, n + 1))
  BY <1>2, <1>3, <1>4, InjectiveAppend
<1>6. Append(ids, n + 1) \in Seq(1..(n + 1)) /\ Len(Append(ids, n + 1)) = Len(ids) + 1 /\ Len(ids) \in Nat
  BY <1>3
<1>7. IsPending(new, n + 1)
  BY <1>1, <1>2, <1>5, <1>6 DEF IsPending
<1> QED BY <1>7 DEF new

\* With more auctions a player's are still among them.
LEMMA PendingGrows ==
  ASSUME NEW n \in Nat, NEW q, IsPending(q, n)
  PROVE  IsPending(q, n + 1)
<1> DEFINE ids == q.ids
<1>1. ids \in Seq(1..n)
  BY DEF IsPending
<1>2. \A k \in 1..n : k \in 1..(n + 1)
  OBVIOUS
<1> HIDE DEF ids
<1>3. ids \in Seq(1..(n + 1))
  BY <1>1, <1>2
<1> QED BY <1>3 DEF IsPending, ids

\* Putting up an item costs nothing yet.
LEMMA SellMoney ==
  ASSUME Stepping, NEW p \in Players, NEW item \in Items, NEW offer \in Offers,
         Auction!HandleAuctionSellItem(p, item, offer)
  PROVE  MoneyTypes' /\ Worth' = Worth
<1> USE DEF Stepping
<1>1. /\ lastId < MaxAuctions /\ lastId' = lastId + 1 /\ mail' = mail /\ money' = money
      /\ house' = house /\ forgiven' = forgiven /\ unpaid' = unpaid
      /\ pending' = [pending EXCEPT ![p] = [pending[p] EXCEPT !.ids = Append(pending[p].ids, lastId + 1)]]
  BY DEF Auction!HandleAuctionSellItem, Auction!PendingAuctionAdd, Auction!moneyVars
<1> DEFINE auction == [item |-> item, owner |-> p, startbid |-> offer.startbid, buyout |-> offer.buyout,
                       bidder |-> NoOne, bid |-> 0, deposit |-> Deposits[1], expired |-> FALSE, paid |-> FALSE]
<1>2. AuctionsMap' = [id \in DOMAIN AuctionsMap \cup {lastId'} |->
                        IF id # lastId' THEN AuctionsMap[id] ELSE auction]
  BY DEF Auction!HandleAuctionSellItem
<1>3. lastId \in Nat /\ MaxAuctions \in Nat /\ lastId' \in 0..MaxAuctions /\ 1 \in 1..MaxAuctions
  BY <1>1, AuctionConstants DEF MoneyTypes
<1>4. IsPriced(auction) /\ Auction!Held(auction) = 0
  BY <1>3, AuctionConstants DEF IsPriced, Auction!Held
<1> HIDE DEF auction
<1>5. DOMAIN AuctionsMap \subseteq 1..lastId
  BY DEF AuctionInv, AuctionTypes
<1>6. /\ DOMAIN AuctionsMap' = DOMAIN AuctionsMap \cup {lastId'} /\ lastId' \notin DOMAIN AuctionsMap
      /\ AuctionsMap'[lastId'] = auction
      /\ \A id \in DOMAIN AuctionsMap : AuctionsMap'[id] = AuctionsMap[id]
  BY <1>1, <1>2, <1>3, <1>5
<1>7. \A id \in DOMAIN AuctionsMap' : IsPriced(AuctionsMap'[id])
  BY <1>4, <1>6 DEF MoneyTypes
<1>8. ASSUME NEW q \in Players PROVE IsPending(pending'[q], lastId')
  <2>1. IsPending(pending[q], lastId) /\ DOMAIN pending = Players
    BY DEF MoneyTypes
  <2>2. CASE q = p
    BY <1>1, <1>3, <2>1, <2>2, PendingNoted
  <2>3. CASE q # p
    BY <1>1, <1>3, <2>1, <2>3, PendingGrows
  <2> QED BY <2>2, <2>3
<1>9. DOMAIN pending' = Players
  BY <1>1 DEF MoneyTypes
<1>10. MoneyTypes'
  BY <1>1, <1>3, <1>7, <1>8, <1>9 DEF MoneyTypes
<1>11. Without(AuctionsMap', AuctionsMap, lastId')
  <2>1. HasHoldings(AuctionsMap) /\ HasHoldings(AuctionsMap')
    BY <1>7, MapIsHeld
  <2>2. DOMAIN AuctionsMap = DOMAIN AuctionsMap' \ {lastId'} /\ lastId' \in DOMAIN AuctionsMap'
    BY <1>6
  <2>3. \A x \in DOMAIN AuctionsMap' : x # lastId' => Auction!Held(AuctionsMap[x]) = Auction!Held(AuctionsMap'[x])
    BY <1>6
  <2> QED BY <2>1, <2>2, <2>3 DEF Without
<1>12. /\ Holdings(AuctionsMap') \in Int /\ Holdings(AuctionsMap) \in Int
       /\ Holdings(AuctionsMap') = Holdings(AuctionsMap) + Auction!Held(AuctionsMap'[lastId'])
  BY ONLY <1>11, HoldingsLess
<1>13. Holdings(AuctionsMap') = Holdings(AuctionsMap)
  BY <1>4, <1>6, <1>12
<1>14. Purses(money', mail') = Purses(money, mail)
  BY <1>1
<1> QED BY <1>1, <1>10, <1>13, <1>14 DEF Worth

\* Auctions whose ends change are priced, and paid for, as they were.
LEMMA SameHoldings ==
  ASSUME Stepping, DOMAIN AuctionsMap' = DOMAIN AuctionsMap,
         \A id \in DOMAIN AuctionsMap :
           /\ AuctionsMap'[id].bid = AuctionsMap[id].bid /\ AuctionsMap'[id].buyout = AuctionsMap[id].buyout
           /\ AuctionsMap'[id].bidder = AuctionsMap[id].bidder /\ AuctionsMap'[id].deposit = AuctionsMap[id].deposit
           /\ AuctionsMap'[id].paid = AuctionsMap[id].paid
  PROVE  /\ \A id \in DOMAIN AuctionsMap' : IsPriced(AuctionsMap'[id])
         /\ Holdings(AuctionsMap') = Holdings(AuctionsMap) /\ Holdings(AuctionsMap) \in Int
<1>1. \A id \in DOMAIN AuctionsMap' : IsPriced(AuctionsMap'[id])
  BY DEF Stepping, MoneyTypes, IsPriced
<1>2. Holdings(AuctionsMap') = Holdings(AuctionsMap)
  <2>1. \A id \in DOMAIN AuctionsMap : Auction!Held(AuctionsMap'[id]) = Auction!Held(AuctionsMap[id])
    BY DEF Auction!Held
  <2> QED BY <2>1, HoldingsSame
<1>3. HasHoldings(AuctionsMap)
  BY MapIsHeld DEF Stepping
<1> QED BY <1>1, <1>2, <1>3, HoldingsAreInt

\* The shares of the auctions of a series: those that are there and those that
\* have ended make up the deposit.
ShareOf(ids, total) == [id \in Range(ids) |-> Auction!Share(ids, Auction!PlaceOf(ids, id), total)]
SharesIn(S, ids, total) == SumFunctionOnSet(ShareOf(ids, total), S)

LEMMA SharesSplit ==
  ASSUME NEW n \in Nat, NEW ids \in Seq(1..n), IsInjective(ids), ids # <<>>, NEW total \in Nat, NEW D
  PROVE  LET live == SharesIn(Range(ids) \cap D, ids, total)
             ended == SharesIn(Range(ids) \ D, ids, total)
         IN /\ live \in Nat /\ ended \in Nat /\ live + ended = total
            /\ Auction!SharesOf(Auction!ToSet(ids) \ D, ids, total) = ended
            /\ IsFiniteSet(Range(ids)) /\ \A id \in Range(ids) : ShareOf(ids, total)[id] \in Nat
<1> DEFINE g == ShareOf(ids, total)
           U == Range(ids)
<1>1. Len(ids) \in Nat \ {0} /\ DOMAIN ids = 1..Len(ids)
  OBVIOUS
<1>2. IsFiniteSet(U)
  BY LengthIsCardinality
<1>3. \A id \in U : g[id] = Auction!Share(ids, Auction!PlaceOf(ids, id), total)
  BY DEF ShareOf
<1>4. \A id \in U : g[id] \in Nat
  BY <1>1, <1>3, SharesAreNat
<1>5. IsShared(g, ids, total)
  <2> SUFFICES ASSUME NEW k \in 1..Len(ids) PROVE g[ids[k]] = Auction!Share(ids, k, total)
    BY DEF IsShared, Auction!Share
  <2>1. ids[k] \in U
    BY <1>1 DEF Range
  <2>2. Auction!PlaceOf(ids, ids[k]) = k
    BY <1>1 DEF IsInjective, Auction!PlaceOf
  <2> QED BY <1>3, <2>1, <2>2
<1> HIDE DEF g
<1>6. SumFunctionOnSet(g, U) = total
  BY <1>5, SharesAddUp
<1> HIDE DEF U
<1>7. SumFunctionOnSet(g, U) = SumFunctionOnSet(g, U \cap D) + SumFunctionOnSet(g, U \ D)
  <2>1. \A id \in U : g[id] \in Int
    BY <1>4
  <2> QED BY ONLY <1>2, <2>1, SumSplit
<1>8. /\ IsFiniteSet(U \cap D) /\ \A id \in U \cap D : g[id] \in Nat
      /\ IsFiniteSet(U \ D) /\ \A id \in U \ D : g[id] \in Nat
  <2>1. U \cap D \subseteq U /\ U \ D \subseteq U
    OBVIOUS
  <2> QED BY <1>2, <1>4, <2>1, FS_Subset
<1>9. SumFunctionOnSet(g, U \cap D) \in Nat /\ SumFunctionOnSet(g, U \ D) \in Nat
  BY ONLY <1>8, SumNat
<1>10. Auction!SharesOf(Auction!ToSet(ids) \ D, ids, total) = SumFunctionOnSet(g, U \ D)
  <2> DEFINE e == [id \in U \ D |-> Auction!Share(ids, Auction!PlaceOf(ids, id), total)]
  <2>1. Auction!ToSet(ids) = U
    BY DEF Auction!ToSet, Range, U
  <2>2. Auction!SharesOf(U \ D, ids, total) = Auction!SumFunction(e)
    BY DEF Auction!SharesOf
  <2>3. DOMAIN e = U \ D /\ \A id \in U \ D : g[id] \in Int /\ g[id] = e[id]
    BY <1>3, <1>4
  <2> HIDE DEF e
  <2>4. Auction!SumFunction(e) = SumFunctionOnSet(e, U \ D)
    BY <2>3, AuctionSum
  <2>5. SumFunctionOnSet(g, U \ D) = SumFunctionOnSet(e, U \ D)
    BY ONLY <1>8, <2>3, SumSame
  <2> QED BY <2>1, <2>2, <2>4, <2>5
<1> QED BY <1>2, <1>4, <1>6, <1>7, <1>9, <1>10 DEF SharesIn, g, U

\* A deposit goes from its player to its auctions, or to the house for those
\* that have ended.
LEMMA SettleMoney ==
  ASSUME Stepping, NotedUnpaid, NEW p \in Players, Auction!UpdatePendingAuctions(p)
  PROVE  MoneyTypes' /\ Worth' = Worth
<1> USE DEF Stepping
<1> DEFINE ids == pending[p].ids
<1>1. mail' = mail /\ lastId' = lastId /\ ids # <<>>
  BY DEF Auction!UpdatePendingAuctions
<1>2. IsPending(pending[p], lastId) /\ DOMAIN pending = Players /\ lastId \in 0..MaxAuctions
  BY DEF MoneyTypes
<1>3. Len(ids) \in 1..lastId /\ Deposits[Len(ids)] \in Nat
  BY <1>1, <1>2, PendingLength
<1>4. \A id \in DOMAIN AuctionsMap : IsAuction(AuctionsMap[id]) /\ IsPriced(AuctionsMap[id])
  BY DEF AuctionInv, AuctionTypes, MoneyTypes
<1>5. IsPending(Auction!NoPending, lastId)
  <2>1. <<>> \in Seq(1..lastId) /\ Len(<<>>) = 0 /\ IsInjective(<<>>)
    BY EmptySequence
  <2> QED BY <2>1 DEF IsPending, Auction!NoPending
<1>6. ASSUME pending' = [pending EXCEPT ![p] = Auction!NoPending]
      PROVE  DOMAIN pending' = Players /\ \A q \in Players : IsPending(pending'[q], lastId')
  BY <1>1, <1>2, <1>5, <1>6 DEF MoneyTypes
<1>7. IsPurse(mail)
  BY DEF MoneyTypes
<1>8. CASE Auction!PendingAuctionProcess(p)
  <2>1. PICK total \in Auction!TotalDeposit(ids) :
          /\ AuctionsMap' = Auction!WithDeposits(ids, total) /\ Auction!Less(p, total) /\ unpaid' = unpaid
          /\ house' = house + Auction!SharesOf(Auction!ToSet(ids) \ DOMAIN AuctionsMap, ids, total)
          /\ pending' = [pending EXCEPT ![p] = Auction!NoPending]
    BY <1>8 DEF Auction!PendingAuctionProcess
  <2>2. total \in Nat
    BY <1>3, <2>1 DEF Auction!TotalDeposit
  <2> DEFINE D == DOMAIN AuctionsMap
             live == SharesIn(Range(ids) \cap D, ids, total)
             ended == SharesIn(Range(ids) \ D, ids, total)
             g == ShareOf(ids, total)
  <2>3. /\ live \in Nat /\ ended \in Nat /\ live + ended = total
        /\ house' = house + ended /\ \A id \in Range(ids) : g[id] \in Nat
    <3> DEFINE s == ids
               n == lastId
    <3>1. n \in Nat /\ s \in Seq(1..n) /\ IsInjective(s) /\ s # <<>>
      BY <1>1, <1>2 DEF IsPending
    <3> HIDE DEF s, n
    <3>2. LET l == SharesIn(Range(s) \cap D, s, total)
              e == SharesIn(Range(s) \ D, s, total)
          IN /\ l \in Nat /\ e \in Nat /\ l + e = total
             /\ Auction!SharesOf(Auction!ToSet(s) \ D, s, total) = e
             /\ IsFiniteSet(Range(s)) /\ \A id \in Range(s) : ShareOf(s, total)[id] \in Nat
      BY ONLY <2>2, <3>1, SharesSplit
    <3> QED BY <2>1, <3>2 DEF s
  <2> DEFINE Settled(id) == [AuctionsMap[id] EXCEPT !.deposit = g[id], !.paid = TRUE]
  <2>4. AuctionsMap' = [id \in D |-> IF id \in Range(ids) THEN Settled(id) ELSE AuctionsMap[id]]
    <3> DEFINE s == ids
               Shared(id) == [AuctionsMap[id] EXCEPT !.deposit = Auction!Share(s, Auction!PlaceOf(s, id), total), !.paid = TRUE]
    <3>1. AuctionsMap' = [id \in D |-> IF id \in Auction!ToSet(s) THEN Shared(id) ELSE AuctionsMap[id]]
      BY <2>1, Zenon DEF Auction!WithDeposits
    <3>2. Auction!ToSet(s) = Range(s)
      BY DEF Auction!ToSet, Range
    <3>3. ASSUME NEW id \in Range(s) PROVE Shared(id) = Settled(id)
      <4>1. g[id] = Auction!Share(s, Auction!PlaceOf(s, id), total)
        BY <3>3 DEF ShareOf
      <4> HIDE DEF g, s
      <4> QED BY <4>1
    <3> HIDE DEF Shared, Settled, s, g
    <3>4. AuctionsMap' = [id \in D |-> IF id \in Range(s) THEN Settled(id) ELSE AuctionsMap[id]]
      BY <3>1, <3>2, <3>3
    <3> QED BY <3>4 DEF s
  <2>5. /\ \A id \in D : id \notin Range(ids) => AuctionsMap'[id] = AuctionsMap[id]
        /\ \A id \in D : id \in Range(ids) => AuctionsMap'[id] = Settled(id)
    <3> HIDE DEF Settled, D
    <3> QED BY <2>4
  <2>6. DOMAIN AuctionsMap' = D
    <3> HIDE DEF Settled, D
    <3> QED BY <2>4
  <2> HIDE DEF D, live, ended, g, Settled
  <2>14. ASSUME NEW id \in D, id \in Range(ids)
         PROVE  /\ IsPriced(AuctionsMap'[id])
                /\ Auction!Held(AuctionsMap'[id]) = Auction!Held(AuctionsMap[id]) + g[id]
    <3> DEFINE auction == AuctionsMap[id]
               after == AuctionsMap'[id]
    <3>1. IsAuction(auction) /\ IsPriced(auction) /\ g[id] \in Nat
      BY <1>4, <2>3, <2>14 DEF D
    <3>2. auction.paid = FALSE
      <4>1. IsNoted(id, p)
        BY <2>14 DEF NotedUnpaid
      <4>2. id \in DOMAIN AuctionsMap
        BY DEF D
      <4> QED BY <4>1, <4>2, Zenon DEF IsNoted
    <3>3. after = [auction EXCEPT !.deposit = g[id], !.paid = TRUE]
      <4>1. after = Settled(id)
        BY <2>5, <2>14
      <4> HIDE DEF after
      <4> QED BY <4>1 DEF Settled
    <3> HIDE DEF auction, after
    <3>4. after.bid = auction.bid
      BY <3>1, <3>3 DEF IsAuction
    <3>5. after.buyout = auction.buyout
      BY <3>1, <3>3 DEF IsAuction
    <3>6. after.bidder = auction.bidder
      BY <3>1, <3>3 DEF IsAuction
    <3>7. after.deposit = g[id]
      BY <3>1, <3>3 DEF IsAuction
    <3>8. after.paid = TRUE
      BY <3>1, <3>3 DEF IsAuction
    <3>9. IsPriced(after)
      BY <3>1, <3>4, <3>5, <3>6, <3>7, <3>8 DEF IsPriced
    <3>10. Auction!Held(after) = auction.bid + g[id] /\ Auction!Held(auction) = auction.bid
      BY <3>1, <3>2, <3>4, <3>7, <3>8 DEF Auction!Held, IsPriced
    <3>11. Auction!Held(after) = Auction!Held(auction) + g[id]
      BY ONLY <3>10
    <3> QED BY <3>9, <3>11, Zenon DEF auction, after
  <2>15. \A id \in DOMAIN AuctionsMap' : IsPriced(AuctionsMap'[id])
    BY <1>4, <2>5, <2>6, <2>14 DEF D
  <2>16. /\ Holdings(AuctionsMap) \in Int
         /\ Holdings(AuctionsMap') = Holdings(AuctionsMap) + live
    <3> DEFINE e == HeldOf(AuctionsMap')
               f == HeldOf(AuctionsMap)
               N == Range(ids)
    <3>1. HasHoldings(AuctionsMap) /\ HasHoldings(AuctionsMap')
      BY <2>15, MapIsHeld
    <3>2. \A id \in D : f[id] = Auction!Held(AuctionsMap[id]) /\ e[id] = Auction!Held(AuctionsMap'[id])
      BY <2>6 DEF HeldOf, D
    <3>3. \A id \in D : f[id] \in Nat /\ e[id] \in Nat
      BY <2>6, <3>1, <3>2 DEF HasHoldings, D
    <3> HIDE DEF e, f, N
    <3>4. AddedOn(e, f, g, D, N)
      <4>1. ASSUME NEW id \in D, id \notin N PROVE e[id] = f[id]
        <5>1. AuctionsMap'[id] = AuctionsMap[id]
          BY <2>5, <4>1 DEF N
        <5> QED BY <3>2, <5>1
      <4>2. \A id \in D : id \in N => g[id] \in Nat /\ e[id] = f[id] + g[id]
        BY <2>3, <2>14, <3>2 DEF N
      <4> QED BY <3>3, <4>1, <4>2 DEF AddedOn
    <3>5. IsFiniteSet(D)
      BY <3>1 DEF HasHoldings, D
    <3>6. SumFunctionOnSet(e, D) = SumFunctionOnSet(f, D) + SumFunctionOnSet(g, D \cap N)
      BY ONLY <3>4, <3>5, SumAdded
    <3>7. D \cap N = N \cap D
      OBVIOUS
    <3>8. SumFunctionOnSet(g, D \cap N) = live
      BY <3>7 DEF live, g, N, D, SharesIn
    <3> QED BY <2>6, <3>1, <3>6, <3>8, HoldingsAreInt DEF Holdings, e, f, D
  <2>7. Paid(total)
    <3>1. money \in [Players -> Nat] /\ forgiven \in Nat /\ total \in Int
      BY <2>2 DEF MoneyTypes
    <3> QED BY <2>1, <3>1, LessPaid
  <2>8. house \in Nat /\ forgiven \in Nat /\ unpaid \in Nat /\ unpaid' = unpaid
    BY <2>1 DEF MoneyTypes
  <2>9. house' \in Nat
    BY <2>3, <2>8
  <2>10. MoneyTypes'
    <3>1. money' \in [Players -> Nat] /\ forgiven' \in Nat
      BY <2>7 DEF Paid
    <3>2. DOMAIN pending' = Players /\ \A q \in Players : IsPending(pending'[q], lastId')
      BY <1>6, <2>1
    <3> QED BY <1>1, <1>2, <1>7, <2>8, <2>9, <2>15, <3>1, <3>2 DEF MoneyTypes
  <2>11. /\ Purses(money, mail) \in Int /\ Purses(money', mail) \in Int /\ forgiven' \in Int
         /\ Purses(money', mail) - forgiven' = Purses(money, mail) - forgiven - total
    BY <1>7, <2>7 DEF Paid
  <2>12. Purses(money', mail') = Purses(money', mail)
    BY <1>1
  <2>13. Purses(money', mail') + Holdings(AuctionsMap') + house' - forgiven' - unpaid'
           = Purses(money, mail) + Holdings(AuctionsMap) + house - forgiven - unpaid
    <3>1. live \in Nat /\ ended \in Nat /\ live + ended = total /\ house' = house + ended
      BY <2>3
    <3>2. Purses(money', mail') - forgiven' = Purses(money, mail) - forgiven - (live + ended)
      BY <2>11, <2>12, <3>1
    <3> QED BY ONLY <2>8, <2>11, <2>12, <2>16, <3>1, <3>2
  <2> QED BY <2>10, <2>13 DEF Worth
<1>9. CASE Auction!Count(p) /\ UNCHANGED <<AuctionsMap, Auction!moneyVars>>
  <2>0. AuctionsMap' = AuctionsMap /\ money' = money /\ house' = house /\ forgiven' = forgiven /\ unpaid' = unpaid
    BY <1>9 DEF Auction!moneyVars
  <2>1. pending' = [pending EXCEPT ![p] = [pending[p] EXCEPT !.counted = Len(ids)]]
    BY <1>9 DEF Auction!Count
  <2> DEFINE new == [pending[p] EXCEPT !.counted = Len(ids)]
  <2>2. DOMAIN new = {"ids", "counted"} /\ new.ids = ids /\ new.counted = Len(ids)
    BY <1>2 DEF IsPending
  <2> HIDE DEF new
  <2>3. IsPending(new, lastId)
    BY <1>2, <2>2 DEF IsPending
  <2>4. DOMAIN pending' = Players /\ \A q \in Players : IsPending(pending'[q], lastId')
    BY <1>1, <1>2, <2>1, <2>3 DEF new, MoneyTypes
  <2>5. MoneyTypes'
    BY <1>1, <2>0, <2>4 DEF MoneyTypes
  <2> QED BY <1>1, <2>0, <2>5 DEF Worth
<1>10. CASE Auction!ExpirePending(p) /\ UNCHANGED Auction!moneyVars
  <2>0. money' = money /\ house' = house /\ forgiven' = forgiven /\ unpaid' = unpaid
    BY <1>10 DEF Auction!moneyVars
  <2>1. /\ DOMAIN AuctionsMap' = DOMAIN AuctionsMap
        /\ \A id \in DOMAIN AuctionsMap :
             \E over : AuctionsMap'[id] = [AuctionsMap[id] EXCEPT !.expired = over]
        /\ pending' = [pending EXCEPT ![p] = Auction!NoPending]
    BY <1>10 DEF Auction!ExpirePending
  <2>2. \A id \in DOMAIN AuctionsMap :
           /\ AuctionsMap'[id].bid = AuctionsMap[id].bid /\ AuctionsMap'[id].buyout = AuctionsMap[id].buyout
           /\ AuctionsMap'[id].bidder = AuctionsMap[id].bidder /\ AuctionsMap'[id].deposit = AuctionsMap[id].deposit
           /\ AuctionsMap'[id].paid = AuctionsMap[id].paid
    BY <1>4, <2>1 DEF IsAuction
  <2>3. /\ \A id \in DOMAIN AuctionsMap' : IsPriced(AuctionsMap'[id])
        /\ Holdings(AuctionsMap') = Holdings(AuctionsMap)
    BY <2>1, <2>2, SameHoldings
  <2>4. MoneyTypes'
    BY <1>1, <1>6, <2>0, <2>1, <2>3 DEF MoneyTypes
  <2> QED BY <1>1, <2>0, <2>3, <2>4 DEF Worth
<1> QED BY <1>8, <1>9, <1>10 DEF Auction!UpdatePendingAuctions

\* The bidder so far has the bid again.
LEMMA RefundMoney ==
  ASSUME AuctionInv, MoneyTypes, NEW id \in DOMAIN AuctionsMap, NEW p \in Players, NEW price
  PROVE  LET auction == AuctionsMap[id]
             box == Auction!Outbid(auction, p, price)
         IN /\ IsPurse(box)
            /\ \A m \in [Players -> Nat] :
                 /\ Purses(m, mail) \in Int
                 /\ Purses(m, box) = Purses(m, mail) + (IF auction.bidder \in {NoOne, p} THEN 0 ELSE auction.bid)
<1> DEFINE bidder == AuctionsMap[id].bidder
           bid == AuctionsMap[id].bid
           box == Auction!Outbid(AuctionsMap[id], p, price)
<1>1. IsPurse(mail) /\ bid \in Nat /\ bidder \in Players \cup {NoOne}
  BY DEF AuctionInv, AuctionTypes, MoneyTypes, IsAuction, IsPriced
<1>2. box = IF bidder \in {NoOne, p} THEN mail ELSE Auction!WithMoney(mail, bidder, bid)
  BY DEF Auction!Outbid
<1> HIDE DEF bidder, bid, box
<1>3. \A m \in [Players -> Nat] : Purses(m, mail) \in Int
  BY <1>1, PursesMail
<1>4. CASE bidder \in {NoOne, p}
  <2>1. box = mail
    BY <1>2, <1>4
  <2> QED BY <1>1, <1>3, <1>4, <2>1 DEF bidder, box
<1>5. CASE bidder \notin {NoOne, p}
  <2>1. box = Auction!WithMoney(mail, bidder, bid) /\ bidder \in Players
    BY <1>1, <1>2, <1>5
  <2>2. ASSUME NEW m \in [Players -> Nat]
        PROVE  IsPurse(box) /\ Purses(m, box) = Purses(m, mail) + bid
    BY ONLY m \in [Players -> Nat], <1>1, <2>1, PursesMail
  <2>3. IsPurse(box)
    BY <1>1, <2>1, <2>2 DEF MoneyTypes
  <2> QED BY <1>3, <1>5, <2>2, <2>3 DEF bidder, bid, box
<1> QED BY <1>4, <1>5

\* An auction that somebody wins.
IsWon(auction) ==
  /\ auction.owner \in Players /\ auction.bidder \in Players /\ auction.item \in Items
  /\ auction.bid \in Nat /\ auction.deposit \in Nat

\* The price and the deposit, less the cut, are the owner's.
LEMMA SaleMoney ==
  ASSUME NEW box, IsPurse(box), NEW auction, IsWon(auction)
  PROVE  /\ IsPurse(Auction!AfterSale(box, auction)) /\ Auction!GetAuctionCut(auction.bid) \in Nat
         /\ \A m \in [Players -> Nat] :
              /\ Purses(m, box) \in Int
              /\ Purses(m, Auction!AfterSale(box, auction))
                   = Purses(m, box) + auction.bid + auction.deposit - Auction!GetAuctionCut(auction.bid)
<1> DEFINE owner == auction.owner
           winner == auction.bidder
           item == auction.item
           bid == auction.bid
           deposit == auction.deposit
           cut == Auction!GetAuctionCut(bid)
           paid == Auction!WithMoney(box, owner, bid + deposit - cut)
           after == Auction!AfterSale(box, auction)
<1>1. after = Auction!WithItem(paid, winner, item)
  BY DEF Auction!AfterSale
<1>2. owner \in Players /\ winner \in Players /\ item \in Items /\ bid \in Nat /\ deposit \in Nat
  BY DEF IsWon
<1> HIDE DEF owner, winner, item, bid, deposit, after
<1>3. cut \in 0..bid
  BY <1>2, CutOfPrice
<1> HIDE DEF cut
<1> DEFINE gain == bid + deposit - cut
<1>4. gain \in Nat
  BY <1>2, <1>3
<1>5. paid = Auction!WithMoney(box, owner, gain)
  OBVIOUS
<1> HIDE DEF gain, paid
<1>6. ASSUME NEW m \in [Players -> Nat]
      PROVE  IsPurse(paid) /\ Purses(m, box) \in Int /\ Purses(m, paid) = Purses(m, box) + gain
  <2>1. IsPurse(box)
    OBVIOUS
  <2> QED BY ONLY m \in [Players -> Nat], <1>2, <1>4, <1>5, <2>1, PursesMail
<1>10. IsPurse(paid)
  <2>1. [q \in Players |-> 0] \in [Players -> Nat]
    OBVIOUS
  <2> QED BY <1>6, <2>1
<1>7. IsPurse(after) /\ \A m \in [Players -> Nat] : Purses(m, after) = Purses(m, paid)
  BY <1>1, <1>2, <1>10, PursesItem
<1>9. ASSUME NEW m \in [Players -> Nat] PROVE Purses(m, after) = Purses(m, box) + bid + deposit - cut
  <2>1. Purses(m, after) = Purses(m, box) + gain /\ Purses(m, box) \in Int
    BY <1>6, <1>7
  <2> QED BY <1>2, <1>3, <2>1 DEF gain
<1>11. cut \in Nat
  BY <1>2, <1>3
<1> QED BY <1>6, <1>7, <1>9, <1>11 DEF after, bid, deposit, cut

\* A bid is noted as it is, and leaves the deposit.
LEMMA BidPriced ==
  ASSUME NEW auction, IsAuction(auction), IsPriced(auction), NEW p \in Players, NEW paid \in Nat
  PROVE  /\ BidBy(auction, p, paid).bid = paid /\ BidBy(auction, p, paid).deposit = auction.deposit
         /\ Taken(BidBy(auction, p, paid)) = Taken(auction) /\ IsPriced(BidBy(auction, p, paid))
<1> DEFINE after == [auction EXCEPT !.bidder = p, !.bid = paid]
<1>1. after.bid = paid
  BY DEF IsAuction
<1>2. after.deposit = auction.deposit
  BY DEF IsAuction
<1>3. after.buyout = auction.buyout
  BY DEF IsAuction
<1>4. after.bidder = p
  BY DEF IsAuction
<1>7. after.paid = auction.paid
  BY DEF IsAuction
<1> HIDE DEF after
<1>5. IsPriced(after)
  BY <1>1, <1>2, <1>3, <1>4, <1>7, AuctionConstants DEF IsPriced
<1>8. Taken(after) = Taken(auction)
  BY <1>2, <1>7 DEF Taken
<1>6. after = BidBy(auction, p, paid)
  BY DEF after, BidBy
<1> QED BY <1>1, <1>2, <1>5, <1>6, <1>8, Zenon

\* With an auction that is removed nothing is held any more.
LEMMA RemovedHolding ==
  ASSUME Stepping, NEW id \in DOMAIN AuctionsMap, Auction!RemoveAuction(id)
  PROVE  /\ \A x \in DOMAIN AuctionsMap' : IsPriced(AuctionsMap'[x])
         /\ Holdings(AuctionsMap) \in Int /\ Holdings(AuctionsMap') \in Int
         /\ Holdings(AuctionsMap) = Holdings(AuctionsMap') + Auction!Held(AuctionsMap[id])
<1>1. /\ DOMAIN AuctionsMap' = DOMAIN AuctionsMap \ {id}
      /\ \A x \in DOMAIN AuctionsMap \ {id} : AuctionsMap'[x] = AuctionsMap[x]
  BY DEF Auction!RemoveAuction
<1>2. \A x \in DOMAIN AuctionsMap' : IsPriced(AuctionsMap'[x])
  BY <1>1 DEF Stepping, MoneyTypes
<1>3. Without(AuctionsMap, AuctionsMap', id)
  BY <1>1, <1>2, MapIsHeld DEF Without, Stepping
<1>4. /\ Holdings(AuctionsMap) \in Int /\ Holdings(AuctionsMap') \in Int
      /\ Holdings(AuctionsMap) = Holdings(AuctionsMap') + Auction!Held(AuctionsMap[id])
  BY ONLY <1>3, HoldingsLess
<1> QED BY <1>2, <1>4

\* Bids are paid, and those they beat are paid back; who buys out pays the owner.
LEMMA BidMoney ==
  ASSUME Stepping, NEW p \in Players, NEW id \in DOMAIN AuctionsMap, NEW price \in Nat,
         Auction!HandleAuctionPlaceBid(p, id, price)
  PROVE  MoneyTypes' /\ Worth' = Worth
<1> DEFINE auction == AuctionsMap[id]
           buyout == auction.buyout # 0 /\ price >= auction.buyout
           paid == IF buyout THEN auction.buyout ELSE price
           after == BidBy(auction, p, paid)
           box == Auction!Outbid(auction, p, paid)
           back == IF auction.bidder \in {NoOne, p} THEN 0 ELSE auction.bid
           toPay == Auction!ToPay(auction, p, paid)
           cut == Auction!GetAuctionCut(paid)
           taken == Taken(auction)
<1>1. IsAuction(auction) /\ IsPriced(auction)
  BY DEF Stepping, AuctionInv, AuctionTypes, MoneyTypes
<1>2. paid \in Nat /\ auction.bid \in Nat /\ auction.deposit \in Nat
  BY <1>1 DEF IsPriced
<1>t. taken \in Nat /\ auction.deposit - taken \in Nat /\ Auction!Held(auction) = auction.bid + taken
  <2> HIDE DEF auction
  <2> QED BY <1>1, PriceHeld
<1>3. toPay \in Int /\ back \in Nat /\ toPay = paid + back - auction.bid
  BY <1>1, <1>2, AuctionConstants DEF Auction!ToPay, IsPriced
<1>4. /\ lastId' = lastId /\ pending' = pending /\ Auction!Less(p, toPay)
  BY DEF Auction!HandleAuctionPlaceBid
<1>7. /\ IsPriced(after) /\ after.bid = paid /\ after.deposit = auction.deposit
      /\ IsAuction(after) /\ after.bidder = p /\ Taken(after) = taken
  <2> HIDE DEF auction, paid
  <2> QED BY <1>1, <1>2, BidPriced, BidNoted
<1>8. Paid(toPay)
  <2> HIDE DEF toPay
  <2>1. money \in [Players -> Nat] /\ forgiven \in Nat
    BY DEF Stepping, MoneyTypes
  <2> QED BY <1>3, <1>4, <2>1, LessPaid
<1>9. IsPurse(box) /\ Purses(money, mail) \in Int /\ Purses(money, box) = Purses(money, mail) + back
  <2>1. money \in [Players -> Nat]
    BY DEF Stepping, MoneyTypes
  <2> HIDE DEF paid
  <2> QED BY <2>1, RefundMoney DEF Stepping
<1>10. house \in Nat /\ forgiven \in Nat /\ unpaid \in Nat /\ forgiven' \in Nat
  BY <1>8 DEF Stepping, MoneyTypes, Paid
<1>11. /\ Purses(money', box) \in Int /\ Purses(money, mail) \in Int
       /\ Purses(money', box) - forgiven' = Purses(money, mail) + back - forgiven - toPay
  <2> HIDE DEF box, toPay, back
  <2>1. /\ Purses(money, box) \in Int /\ Purses(money', box) \in Int
        /\ Purses(money', box) - forgiven' = Purses(money, box) - forgiven - toPay
    BY <1>8, <1>9 DEF Paid
  <2> QED BY ONLY <1>3, <1>9, <1>10, <2>1
<1>5. CASE buyout
  <2>1. /\ mail' = Auction!AfterSale(box, after) /\ Auction!BookSale(after) /\ Auction!RemoveAuction(id)
    BY <1>5 DEF Auction!HandleAuctionPlaceBid, BidBy
  <2>2. IsWon(after) /\ after.bid = paid
    BY <1>7, <1>2 DEF IsWon, IsAuction
  <2>9. house' = house + cut /\ unpaid' = unpaid + auction.deposit - taken
    <3> HIDE DEF auction, after, paid, taken
    <3>1. house' = house + cut /\ unpaid' = unpaid + (IF after.paid THEN 0 ELSE after.deposit)
      BY <1>7, <2>1 DEF Auction!BookSale
    <3>2. (IF after.paid THEN 0 ELSE after.deposit) = after.deposit - Taken(after)
      BY <1>2, <1>7 DEF Taken
    <3> QED BY <1>2, <1>7, <1>t, <1>10, <3>1, <3>2
  <2> HIDE DEF box, after, paid, cut
  <2>3. /\ IsPurse(mail') /\ cut \in Nat
        /\ \A m \in [Players -> Nat] :
             Purses(m, box) \in Int /\ Purses(m, mail') = Purses(m, box) + paid + auction.deposit - cut
    BY <1>7, <1>9, <2>1, <2>2, SaleMoney DEF cut
  <2> HIDE DEF toPay, back, taken
  <2>4. house' \in Nat /\ unpaid' \in Nat
    BY <1>2, <1>t, <1>10, <2>3, <2>9
  <2>5. /\ \A x \in DOMAIN AuctionsMap' : IsPriced(AuctionsMap'[x])
        /\ Holdings(AuctionsMap) \in Int /\ Holdings(AuctionsMap') \in Int
        /\ Holdings(AuctionsMap) = Holdings(AuctionsMap') + Auction!Held(auction)
    BY <2>1, RemovedHolding
  <2>6. MoneyTypes'
    BY <1>4, <1>8, <2>3, <2>4, <2>5 DEF MoneyTypes, Paid, Stepping
  <2>7. /\ Purses(money', mail') = Purses(money', box) + paid + auction.deposit - cut
        /\ Purses(money', box) \in Int
    BY <1>8, <2>3 DEF Paid
  <2>8. Purses(money', mail') + Holdings(AuctionsMap') + house' - forgiven' - unpaid'
          = Purses(money, mail) + Holdings(AuctionsMap) + house - forgiven - unpaid
    <3>3. Purses(money', box) - forgiven' = Purses(money, mail) + back - forgiven - (paid + back - auction.bid)
      BY <1>3, <1>11
    <3>4. Holdings(AuctionsMap) = Holdings(AuctionsMap') + (auction.bid + taken)
      BY <1>t, <2>5
    <3>5. cut \in Nat /\ back \in Nat
      BY <1>3, <2>3
    <3>6. Purses(money, mail) \in Int /\ Holdings(AuctionsMap') \in Int /\ taken \in Nat
      BY <1>t, <1>11, <2>5
    <3> HIDE DEF auction
    <3>7. Purses(money', mail') - forgiven' = Purses(money, mail) - forgiven + auction.bid + auction.deposit - cut
      BY ONLY <1>2, <1>10, <2>7, <3>3, <3>5, <3>6
    <3>8. house' - unpaid' = house - unpaid + cut - auction.deposit + taken
      BY ONLY <1>2, <1>10, <2>9, <3>5, <3>6
    <3>9. Purses(money', mail') \in Int /\ house' \in Int /\ unpaid' \in Int
      BY ONLY <1>2, <1>10, <2>4, <2>7, <3>5
    <3> DEFINE purses == Purses(money', mail')
               before == Purses(money, mail)
               held == Holdings(AuctionsMap')
               gained == auction.bid
               deposit == auction.deposit
    <3>10. /\ purses - forgiven' = before - forgiven + gained + deposit - cut
           /\ house' - unpaid' = house - unpaid + cut - deposit + taken
           /\ Holdings(AuctionsMap) = held + (gained + taken)
           /\ gained \in Nat /\ deposit \in Nat /\ before \in Int /\ held \in Int /\ purses \in Int
      BY <1>2, <3>4, <3>6, <3>7, <3>8, <3>9
    <3> HIDE DEF purses, before, held, gained, deposit
    <3> DEFINE q == purses - forgiven'
               r == house' - unpaid'
               o == before - forgiven
               h == house - unpaid
    <3>11. q \in Int /\ r \in Int /\ o \in Int /\ h \in Int
      BY ONLY <1>10, <3>9, <3>10
    <3>12. q = o + gained + deposit - cut /\ r = h + cut - deposit + taken
      BY <3>10
    <3>13. q + held + r = o + (held + (gained + taken)) + h
      <4> HIDE DEF q, r, o, h
      <4> QED BY ONLY <3>5, <3>6, <3>10, <3>11, <3>12
    <3>14. q + held + r = purses + held + house' - forgiven' - unpaid'
      BY ONLY <1>10, <3>9, <3>10
    <3>15. o + (held + (gained + taken)) + h = before + (held + (gained + taken)) + house - forgiven - unpaid
      BY ONLY <1>10, <3>6, <3>10
    <3> HIDE DEF q, r, o, h
    <3> QED BY <3>10, <3>13, <3>14, <3>15 DEF purses, before, held
  <2> QED BY <2>6, <2>8 DEF Worth
<1>6. CASE ~buyout
  <2>1. mail' = box /\ AuctionsMap' = [AuctionsMap EXCEPT ![id] = after] /\ house' = house /\ unpaid' = unpaid
    BY <1>6 DEF Auction!HandleAuctionPlaceBid, BidBy
  <2> HIDE DEF box, after
  <2>2. /\ DOMAIN AuctionsMap' = DOMAIN AuctionsMap /\ AuctionsMap'[id] = after
        /\ \A x \in DOMAIN AuctionsMap : x # id => AuctionsMap'[x] = AuctionsMap[x]
    BY <2>1
  <2>3. \A x \in DOMAIN AuctionsMap' : IsPriced(AuctionsMap'[x])
    BY <1>7, <2>2 DEF Stepping, MoneyTypes
  <2>4. Altered(AuctionsMap, AuctionsMap', id)
    BY <2>2, <2>3, MapIsHeld DEF Altered, Stepping
  <2>5. Holdings(AuctionsMap) \in Int /\ Holdings(AuctionsMap') = Holdings(AuctionsMap) + paid - auction.bid
    <3>1. /\ Holdings(AuctionsMap) \in Int
          /\ Holdings(AuctionsMap') = Holdings(AuctionsMap) + Auction!Held(AuctionsMap'[id]) - Auction!Held(AuctionsMap[id])
      BY ONLY <2>4, HoldingsChange
    <3>2. Auction!Held(AuctionsMap'[id]) = paid + taken
      BY <1>7, <2>2, PriceHeld
    <3> HIDE DEF paid, taken
    <3> QED BY <1>2, <1>t, <3>1, <3>2
  <2>6. MoneyTypes'
    BY <1>4, <1>8, <1>9, <2>1, <2>3 DEF MoneyTypes, Paid, Stepping
  <2>7. Purses(money', mail') = Purses(money', box)
    BY <2>1
  <2> HIDE DEF paid, toPay, back
  <2>8. Purses(money', mail') + Holdings(AuctionsMap') + house' - forgiven' - unpaid'
          = Purses(money, mail) + Holdings(AuctionsMap) + house - forgiven - unpaid
    BY ONLY <1>2, <1>3, <1>10, <1>11, <2>1, <2>5, <2>7
  <2> QED BY <2>6, <2>8 DEF Worth
<1> QED BY <1>5, <1>6

\* Who cancels an auction pays its cut, and the bidder has the bid again.
LEMMA CancelMoney ==
  ASSUME Stepping, NEW p \in Players, NEW id \in DOMAIN AuctionsMap,
         Auction!HandleAuctionRemoveItem(p, id)
  PROVE  MoneyTypes' /\ Worth' = Worth
<1> DEFINE bidder == AuctionsMap[id].bidder
           bid == AuctionsMap[id].bid
           item == AuctionsMap[id].item
           cut == IF bidder = NoOne THEN 0 ELSE Auction!GetAuctionCut(bid)
           taken == Taken(AuctionsMap[id])
           box == IF bidder = NoOne THEN mail ELSE Auction!WithMoney(mail, bidder, bid)
<1>1. /\ mail' = Auction!WithItem(box, p, item) /\ Auction!Less(p, cut) /\ unpaid' = unpaid
      /\ house' = house + cut + taken
      /\ Auction!RemoveAuction(id) /\ lastId' = lastId /\ pending' = pending
  BY DEF Auction!HandleAuctionRemoveItem, Auction!BookReturn, Taken
<1>2. /\ bidder \in Players \cup {NoOne} /\ item \in Items /\ bid \in Nat /\ (bidder = NoOne => bid = 0)
      /\ IsPurse(mail) /\ money \in [Players -> Nat] /\ house \in Nat /\ forgiven \in Nat
      /\ unpaid \in Nat /\ IsPriced(AuctionsMap[id])
  BY DEF Stepping, AuctionInv, AuctionTypes, IsAuction, MoneyTypes, IsPriced
<1>3. /\ \A x \in DOMAIN AuctionsMap' : IsPriced(AuctionsMap'[x])
      /\ Holdings(AuctionsMap) \in Int /\ Holdings(AuctionsMap') \in Int
      /\ Holdings(AuctionsMap) = Holdings(AuctionsMap') + bid + taken
      /\ taken \in Nat
  <2>1. /\ \A x \in DOMAIN AuctionsMap' : IsPriced(AuctionsMap'[x])
        /\ Holdings(AuctionsMap) \in Int /\ Holdings(AuctionsMap') \in Int
        /\ Holdings(AuctionsMap) = Holdings(AuctionsMap') + Auction!Held(AuctionsMap[id])
    BY <1>1, RemovedHolding
  <2>2. taken \in Nat /\ Auction!Held(AuctionsMap[id]) = bid + taken
    BY <1>2, PriceHeld
  <2> HIDE DEF bid, taken
  <2> QED BY <1>2, <2>1, <2>2
<1> HIDE DEF bidder, bid, item, taken
<1>4. cut \in Nat
  BY <1>2, CutOfPrice
<1>5. IsPurse(box) /\ Purses(money, mail) \in Int /\ Purses(money, box) = Purses(money, mail) + bid
  <2>1. CASE bidder = NoOne
    <3>1. Purses(money, mail) \in Int
      <4>1. PICK q : q \in Players
        OBVIOUS
      <4>2. 0 \in Nat
        OBVIOUS
      <4> QED BY ONLY <1>2, <4>1, <4>2, PursesMail
    <3> QED BY <1>2, <2>1, <3>1
  <2>2. CASE bidder # NoOne
    <3>1. bidder \in Players /\ box = Auction!WithMoney(mail, bidder, bid)
      BY <1>2, <2>2
    <3> QED BY ONLY <1>2, <3>1, PursesMail
  <2> QED BY <2>1, <2>2
<1> HIDE DEF box, cut
<1>6. IsPurse(mail') /\ Purses(money', mail') = Purses(money', box)
  BY <1>1, <1>2, <1>5, PursesItem
<1>7. Paid(cut)
  BY <1>1, <1>2, <1>4, LessPaid
<1>8. house' \in Nat /\ house' = house + cut + taken /\ unpaid' = unpaid
  BY <1>1, <1>2, <1>3, <1>4
<1>9. MoneyTypes'
  BY <1>1, <1>2, <1>3, <1>6, <1>7, <1>8 DEF MoneyTypes, Paid, Stepping
<1>10. /\ Purses(money, box) \in Int /\ Purses(money', box) \in Int /\ forgiven' \in Nat
       /\ Purses(money', box) - forgiven' = Purses(money, box) - forgiven - cut
  BY <1>5, <1>7 DEF Paid
<1>11. Purses(money', mail') + Holdings(AuctionsMap') + house' - forgiven' - unpaid'
         = Purses(money, mail) + Holdings(AuctionsMap) + house - forgiven - unpaid
  BY ONLY <1>2, <1>3, <1>4, <1>5, <1>6, <1>8, <1>10
<1> QED BY <1>9, <1>11 DEF Worth

\* When the time of an auction is up, its bid becomes the owner's.
LEMMA ExpireMoney ==
  ASSUME Stepping, NEW id \in DOMAIN AuctionsMap, Auction!Expire(id)
  PROVE  MoneyTypes' /\ Worth' = Worth
<1> DEFINE auction == AuctionsMap[id]
           bid == auction.bid
           taken == Taken(auction)
           cut == Auction!GetAuctionCut(bid)
<1>1. /\ Auction!RemoveAuction(id) /\ lastId' = lastId /\ pending' = pending
      /\ money' = money /\ forgiven' = forgiven
  BY DEF Auction!Expire
<1>2. /\ auction.owner \in Players /\ auction.item \in Items /\ bid \in Nat /\ auction.deposit \in Nat
      /\ auction.bidder \in Players \cup {NoOne} /\ (auction.bidder = NoOne => bid = 0)
      /\ IsPurse(mail) /\ money \in [Players -> Nat] /\ house \in Nat /\ forgiven \in Nat
      /\ unpaid \in Nat /\ IsPriced(auction)
  BY DEF Stepping, AuctionInv, AuctionTypes, IsAuction, MoneyTypes, IsPriced
<1>3. /\ \A x \in DOMAIN AuctionsMap' : IsPriced(AuctionsMap'[x])
      /\ Holdings(AuctionsMap) \in Int /\ Holdings(AuctionsMap') \in Int
      /\ Holdings(AuctionsMap) = Holdings(AuctionsMap') + bid + taken
      /\ taken \in Nat /\ auction.deposit - taken \in Nat
  <2>1. /\ \A x \in DOMAIN AuctionsMap' : IsPriced(AuctionsMap'[x])
        /\ Holdings(AuctionsMap) \in Int /\ Holdings(AuctionsMap') \in Int
        /\ Holdings(AuctionsMap) = Holdings(AuctionsMap') + Auction!Held(AuctionsMap[id])
    BY <1>1, RemovedHolding
  <2>2. taken \in Nat /\ auction.deposit - taken \in Nat /\ Auction!Held(auction) = bid + taken
    BY <1>2, PriceHeld
  <2> HIDE DEF bid, taken
  <2> QED BY <1>2, <2>1, <2>2
<1>4. Purses(money, mail) \in Int
  BY <1>2, PursesMail
<1> HIDE DEF bid
<1>5. CASE auction.bidder = NoOne
  <2> DEFINE owner == auction.owner
             item == auction.item
  <2>1. mail' = Auction!WithItem(mail, owner, item) /\ house' = house + taken /\ bid = 0
        /\ unpaid' = unpaid
    <3>1. Auction!BookReturn(auction, 0) /\ mail' = Auction!WithItem(mail, owner, item) /\ bid = 0
      BY <1>2, <1>5 DEF Auction!Expire
    <3>2. house' = house + 0 + taken /\ unpaid' = unpaid
      BY <3>1 DEF Auction!BookReturn, Taken
    <3> HIDE DEF taken
    <3> QED BY <1>2, <1>3, <3>1, <3>2
  <2>2. owner \in Players /\ item \in Items
    BY <1>2
  <2> HIDE DEF owner, item
  <2>3. IsPurse(mail') /\ Purses(money, mail') = Purses(money, mail)
    BY ONLY <1>2, <2>1, <2>2, PursesItem
  <2> HIDE DEF taken
  <2>4. MoneyTypes'
    BY <1>1, <1>2, <1>3, <2>1, <2>3 DEF MoneyTypes, Stepping
  <2>5. Purses(money', mail') = Purses(money, mail) /\ forgiven' = forgiven
    BY <1>1, <2>3
  <2>6. Purses(money', mail') + Holdings(AuctionsMap') + house' - forgiven' - unpaid'
          = Purses(money, mail) + Holdings(AuctionsMap) + house - forgiven - unpaid
    <3> HIDE DEF auction
    <3> QED BY ONLY <1>2, <1>3, <1>4, <2>1, <2>5
  <2> QED BY <2>4, <2>6 DEF Worth
<1>6. CASE auction.bidder # NoOne
  <2>1. mail' = Auction!AfterSale(mail, auction) /\ Auction!BookSale(auction)
    BY <1>6 DEF Auction!Expire
  <2>2. IsWon(auction) /\ IsPurse(mail)
    BY <1>2, <1>6 DEF IsWon, bid
  <2> HIDE DEF auction
  <2>8. house' = house + cut /\ unpaid' = unpaid + (auction.deposit - taken)
    <3>1. house' = house + cut /\ unpaid' = unpaid + (IF auction.paid THEN 0 ELSE auction.deposit)
      BY <2>1 DEF Auction!BookSale, bid
    <3>2. (IF auction.paid THEN 0 ELSE auction.deposit) = auction.deposit - taken
      BY <1>2 DEF Taken
    <3> QED BY <3>1, <3>2
  <2> HIDE DEF taken, cut
  <2>3. /\ IsPurse(mail') /\ cut \in Nat
        /\ \A m \in [Players -> Nat] : Purses(m, mail') = Purses(m, mail) + auction.bid + auction.deposit - cut
    BY ONLY <2>1, <2>2, SaleMoney DEF cut, bid
  <2>4. Purses(money', mail') = Purses(money, mail) + bid + auction.deposit - cut
    BY <1>1, <1>2, <2>3 DEF bid
  <2>5. house' \in Nat /\ unpaid' \in Nat
    BY <1>2, <1>3, <2>3, <2>8
  <2>6. MoneyTypes'
    BY <1>1, <1>2, <1>3, <2>3, <2>5 DEF MoneyTypes, Stepping
  <2>7. Purses(money', mail') + Holdings(AuctionsMap') + house' - forgiven' - unpaid'
          = Purses(money, mail) + Holdings(AuctionsMap) + house - forgiven - unpaid
    <3>1. forgiven' = forgiven /\ cut \in Nat /\ bid \in Nat
      BY <1>1, <1>2, <2>3
    <3> QED BY ONLY <1>2, <1>3, <1>4, <2>4, <2>8, <3>1
  <2> QED BY <2>6, <2>7 DEF Worth
<1> QED BY <1>5, <1>6

\* Taking mail moves money between a player's pockets.
LEMMA MailMoney ==
  ASSUME Stepping, NEW p \in Players, Auction!TakeMail(p)
  PROVE  MoneyTypes' /\ Worth' = Worth
<1>1. /\ AuctionsMap' = AuctionsMap /\ lastId' = lastId /\ pending' = pending
      /\ house' = house /\ forgiven' = forgiven /\ unpaid' = unpaid
      /\ money' = [money EXCEPT ![p] = money[p] + mail[p].money]
      /\ mail' = [mail EXCEPT ![p] = [money |-> 0, items |-> {}]]
  BY DEF Auction!TakeMail
<1>2. money \in [Players -> Nat] /\ IsPurse(mail) /\ DOMAIN mail = Players
  BY DEF Stepping, MoneyTypes, IsPurse, IsBox
<1>3. /\ \A q \in Players : money'[q] = IF q = p THEN money[p] + mail[p].money ELSE money[q]
      /\ \A q \in Players : mail'[q] = IF q = p THEN [money |-> 0, items |-> {}] ELSE mail[q]
  BY <1>1, <1>2
<1>4. \A q \in Players : mail'[q].money = IF q = p THEN 0 ELSE mail[q].money
  BY <1>3
<1>5. money' \in [Players -> Nat]
  BY <1>1, <1>2 DEF IsPurse
<1>6. IsPurse(mail')
  <2>1. \A q \in Players : mail'[q].money \in Nat
    BY <1>2, <1>4 DEF IsPurse
  <2> QED BY <2>1 DEF Stepping, AuctionInv, AuctionTypes, IsPurse
<1>7. MoneyTypes'
  BY <1>1, <1>5, <1>6 DEF MoneyTypes, Stepping
<1>8. \A q \in Players : money'[q] + mail'[q].money = money[q] + mail[q].money
  <2>1. \A q \in Players : money[q] \in Nat /\ mail[q].money \in Nat
    BY <1>2 DEF IsPurse
  <2> QED BY <1>3, <1>4, <2>1
<1>9. Purses(money', mail') = Purses(money, mail)
  BY <1>8, PursesSame
<1> QED BY <1>1, <1>7, <1>9 DEF Worth

\* What a player spends elsewhere is booked.
LEMMA SpentMoney ==
  ASSUME Stepping, NEW p \in Players, Auction!Spend(p)
  PROVE  MoneyTypes' /\ Worth' = Worth
<1>1. /\ AuctionsMap' = AuctionsMap /\ lastId' = lastId /\ pending' = pending /\ mail' = mail
      /\ forgiven' = forgiven /\ money' = [money EXCEPT ![p] = 0] /\ house' = house + money[p]
      /\ unpaid' = unpaid
  BY DEF Auction!Spend
<1>2. /\ money \in [Players -> Nat] /\ money[p] \in Nat /\ IsPurse(mail) /\ house \in Nat /\ forgiven \in Nat
      /\ unpaid \in Nat /\ mail[p].money \in Nat /\ HasHoldings(AuctionsMap)
  BY MapIsHeld DEF Stepping, MoneyTypes, IsPurse
<1>3. money' \in [Players -> Nat] /\ house' \in Nat
  BY <1>1, <1>2
<1>4. MoneyTypes'
  BY <1>1, <1>2, <1>3 DEF MoneyTypes, Stepping
<1>5. Gains(money, mail, money', mail, p, -money[p])
  BY <1>1, <1>2, <1>3 DEF Gains
<1>6. Purses(money, mail) \in Int /\ Purses(money', mail) = Purses(money, mail) + (-money[p])
  BY ONLY <1>5, PursesChange
<1>7. Purses(money', mail') = Purses(money', mail) /\ Holdings(AuctionsMap') = Holdings(AuctionsMap)
  BY <1>1
<1>8. Holdings(AuctionsMap) \in Int
  BY <1>2, HoldingsAreInt
<1>9. Purses(money', mail') + Holdings(AuctionsMap') + house' - forgiven' - unpaid'
        = Purses(money, mail) + Holdings(AuctionsMap) + house - forgiven - unpaid
  <2>1. forgiven' = forgiven /\ unpaid' = unpaid /\ house' = house + money[p]
    BY <1>1
  <2> QED BY ONLY <1>2, <1>6, <1>7, <1>8, <2>1
<1> QED BY <1>4, <1>9 DEF Worth

\* At first all players have the same, and nothing is bidden.
LEMMA MoneyInit == Auction!Init => MoneyInv
<1> SUFFICES ASSUME Auction!Init PROVE MoneyInv
  OBVIOUS
<1>1. /\ money = [p \in Players |-> StartMoney] /\ mail = [p \in Players |-> [money |-> 0, items |-> {}]]
      /\ AuctionsMap = <<>> /\ lastId = 0 /\ pending = [p \in Players |-> Auction!NoPending]
      /\ house = 0 /\ forgiven = 0 /\ unpaid = 0
  BY DEF Auction!Init
<1>2. AuctionInv
  BY AuctionInit
<1>3. \A p \in Players : mail[p].money = 0 /\ money[p] = StartMoney
  BY <1>1
<1>4. IsPurse(mail)
  BY <1>2, <1>3 DEF AuctionInv, AuctionTypes, IsPurse
<1>5. DOMAIN AuctionsMap = {}
  BY <1>1
<1>6. IsPending(Auction!NoPending, 0)
  <2>1. <<>> \in Seq(1..0) /\ Len(<<>>) = 0 /\ IsInjective(<<>>)
    BY EmptySequence
  <2> QED BY <2>1 DEF IsPending, Auction!NoPending
<1>7. MoneyTypes
  BY <1>1, <1>4, <1>5, <1>6, AuctionConstants DEF MoneyTypes
<1>8. Holdings(AuctionsMap) = 0
  BY <1>5, SumEmpty DEF Holdings
<1>9. Purses(money, mail) = StartMoney * Cardinality(Players)
  <2> DEFINE f == Owned(money, mail)
  <2>1. \A p \in Players : f[p] = StartMoney
    BY <1>3, AuctionConstants DEF Owned
  <2>2. IsFiniteSet(Players) /\ StartMoney \in Int
    BY AuctionConstants
  <2> HIDE DEF f
  <2>3. SumFunctionOnSet(f, Players) = StartMoney * Cardinality(Players)
    BY ONLY <2>1, <2>2, SumConstant
  <2> QED BY <2>3 DEF Purses, f
<1>10. Worth = StartMoney * Cardinality(Players)
  <2>1. StartMoney * Cardinality(Players) \in Int
    BY AuctionConstants, FS_CardinalityType
  <2> QED BY <1>1, <1>8, <1>9, <2>1 DEF Worth
<1>11. NotedUnpaid
  <2>1. \A p \in Players : pending[p].ids = <<>>
    BY <1>1 DEF Auction!NoPending
  <2> QED BY <2>1, EmptySequence DEF NotedUnpaid
<1> QED BY <1>2, <1>7, <1>10, <1>11 DEF MoneyInv

\* What is noted stays his and unpaid as long as his auctions change otherwise.
LEMMA NotedKept ==
  ASSUME NotedUnpaid,
         \A p \in Players : Range(pending'[p].ids) \subseteq Range(pending[p].ids),
         DOMAIN AuctionsMap' \subseteq DOMAIN AuctionsMap,
         \A id \in DOMAIN AuctionsMap' :
           AuctionsMap'[id].owner = AuctionsMap[id].owner /\ AuctionsMap'[id].paid = AuctionsMap[id].paid
  PROVE  NotedUnpaid'
<1> SUFFICES ASSUME NEW p \in Players, NEW id \in Range(pending'[p].ids), id \in DOMAIN AuctionsMap'
             PROVE  AuctionsMap'[id].owner = p /\ AuctionsMap'[id].paid = FALSE
  BY DEF NotedUnpaid, IsNoted
<1>1. id \in Range(pending[p].ids) /\ id \in DOMAIN AuctionsMap
  OBVIOUS
<1>2. IsNoted(id, p)
  BY <1>1 DEF NotedUnpaid
<1>3. AuctionsMap[id].owner = p /\ AuctionsMap[id].paid = FALSE
  BY <1>1, <1>2 DEF IsNoted
<1> QED BY <1>3

\* What is put up is noted for its owner alone.
LEMMA NotedPutUp ==
  ASSUME AuctionInv, MoneyTypes, NotedUnpaid, NEW p \in Players, NEW item \in Items, NEW offer \in Offers,
         Auction!HandleAuctionSellItem(p, item, offer)
  PROVE  NotedUnpaid'
<1>1. /\ lastId' = lastId + 1
      /\ pending' = [pending EXCEPT ![p] = [pending[p] EXCEPT !.ids = Append(pending[p].ids, lastId + 1)]]
  BY DEF Auction!HandleAuctionSellItem, Auction!PendingAuctionAdd
<1> DEFINE auction == [item |-> item, owner |-> p, startbid |-> offer.startbid, buyout |-> offer.buyout,
                       bidder |-> NoOne, bid |-> 0, deposit |-> Deposits[1], expired |-> FALSE, paid |-> FALSE]
<1>2. AuctionsMap' = [id \in DOMAIN AuctionsMap \cup {lastId'} |->
                        IF id # lastId' THEN AuctionsMap[id] ELSE auction]
  BY DEF Auction!HandleAuctionSellItem
<1>3. auction.owner = p /\ auction.paid = FALSE
  OBVIOUS
<1> HIDE DEF auction
<1>4. lastId \in Nat /\ DOMAIN pending = Players
  BY DEF MoneyTypes
<1>5. DOMAIN AuctionsMap' = DOMAIN AuctionsMap \cup {lastId'}
  BY <1>2
<1> SUFFICES ASSUME NEW q \in Players, NEW id \in Range(pending'[q].ids), id \in DOMAIN AuctionsMap'
             PROVE  AuctionsMap'[id].owner = q /\ AuctionsMap'[id].paid = FALSE
  BY DEF NotedUnpaid, IsNoted
<1>6. \/ id \in Range(pending[q].ids)
      \/ q = p /\ id = lastId + 1
  <2> DEFINE s == pending[p].ids
  <2>1. IsPending(pending[p], lastId)
    BY DEF MoneyTypes
  <2>2. s \in Seq(1..lastId) /\ DOMAIN pending[p] = {"ids", "counted"}
    BY <2>1 DEF IsPending
  <2>3. CASE q = p
    <3>1. pending'[q].ids = Append(s, lastId + 1)
      BY <1>1, <1>4, <2>2, <2>3
    <3>2. s \in Seq(Nat) /\ lastId + 1 \in Nat
      BY <1>4, <2>2
    <3>3. Range(Append(s, lastId + 1)) = Range(s) \cup {lastId + 1}
      BY <3>2, RangeAppend
    <3> QED BY <2>3, <3>1, <3>3
  <2>4. CASE q # p
    BY <1>1, <1>4, <2>4
  <2> QED BY <2>3, <2>4
<1>7. CASE id \in Range(pending[q].ids)
  <2>1. IsPending(pending[q], lastId)
    BY DEF MoneyTypes
  <2>2. id \in 1..lastId
    BY <1>7, <2>1, RangeType DEF IsPending
  <2>3. id # lastId' /\ id \in DOMAIN AuctionsMap
    BY <1>1, <1>4, <1>5, <2>2
  <2>4. AuctionsMap'[id] = AuctionsMap[id]
    BY <1>2, <2>3
  <2>5. IsNoted(id, q)
    BY <1>7 DEF NotedUnpaid
  <2>6. AuctionsMap[id].owner = q /\ AuctionsMap[id].paid = FALSE
    BY <2>3, <2>5 DEF IsNoted
  <2> QED BY <2>4, <2>6
<1>8. CASE q = p /\ id = lastId + 1
  <2>1. AuctionsMap'[id] = auction
    BY <1>1, <1>2, <1>8
  <2> QED BY <1>3, <1>8, <2>1
<1> QED BY <1>6, <1>7, <1>8

\* A series that is paid for is noted no more, and no other has its auctions.
LEMMA NotedSettle ==
  ASSUME AuctionInv, MoneyTypes, NotedUnpaid, NEW p \in Players, Auction!UpdatePendingAuctions(p)
  PROVE  NotedUnpaid'
<1> DEFINE ids == pending[p].ids
<1>1. DOMAIN pending = Players /\ DOMAIN pending[p] = {"ids", "counted"}
  BY DEF MoneyTypes, IsPending
<1>2. \A id \in DOMAIN AuctionsMap : IsAuction(AuctionsMap[id])
  BY DEF AuctionInv, AuctionTypes
<1>3. ASSUME pending' = [pending EXCEPT ![p] = Auction!NoPending]
      PROVE  Range(pending'[p].ids) = {} /\ \A q \in Players : q # p => pending'[q] = pending[q]
  <2>1. pending'[p].ids = <<>>
    BY <1>1, <1>3 DEF Auction!NoPending
  <2> QED BY <1>1, <1>3, <2>1, EmptySequence
<1>4. CASE Auction!PendingAuctionProcess(p)
  <2>1. PICK total : /\ AuctionsMap' = Auction!WithDeposits(ids, total)
                     /\ pending' = [pending EXCEPT ![p] = Auction!NoPending]
    BY <1>4 DEF Auction!PendingAuctionProcess
  <2> DEFINE Shared(id) == [AuctionsMap[id] EXCEPT !.deposit = Auction!Share(ids, Auction!PlaceOf(ids, id), total), !.paid = TRUE]
  <2>8. AuctionsMap' = [id \in DOMAIN AuctionsMap |-> IF id \in Auction!ToSet(ids) THEN Shared(id) ELSE AuctionsMap[id]]
    BY <2>1, Zenon DEF Auction!WithDeposits
  <2>9. Auction!ToSet(ids) = Range(ids)
    BY DEF Auction!ToSet, Range
  <2> HIDE DEF Shared
  <2>2. DOMAIN AuctionsMap' = DOMAIN AuctionsMap
    BY <2>8
  <2>3. \A id \in DOMAIN AuctionsMap : id \notin Range(ids) => AuctionsMap'[id] = AuctionsMap[id]
    BY <2>8, <2>9
  <2> SUFFICES ASSUME NEW q \in Players, NEW id \in Range(pending'[q].ids), id \in DOMAIN AuctionsMap'
               PROVE  AuctionsMap'[id].owner = q /\ AuctionsMap'[id].paid = FALSE
    BY DEF NotedUnpaid, IsNoted
  <2>4. q # p /\ id \in Range(pending[q].ids) /\ id \in DOMAIN AuctionsMap
    BY <1>3, <2>1, <2>2
  <2>5. IsNoted(id, q)
    BY <2>4 DEF NotedUnpaid
  <2>6. AuctionsMap[id].owner = q /\ AuctionsMap[id].paid = FALSE
    BY <2>4, <2>5 DEF IsNoted
  <2>7. id \notin Range(ids)
    <3> SUFFICES ASSUME id \in Range(ids) PROVE FALSE
      OBVIOUS
    <3>1. IsNoted(id, p)
      BY DEF NotedUnpaid
    <3> QED BY <2>4, <2>6, <3>1 DEF IsNoted
  <2> QED BY <2>3, <2>4, <2>6, <2>7
<1>5. CASE Auction!Count(p) /\ AuctionsMap' = AuctionsMap
  <2>1. pending' = [pending EXCEPT ![p] = [pending[p] EXCEPT !.counted = Len(ids)]]
    BY <1>5 DEF Auction!Count
  <2>2. \A q \in Players : pending'[q].ids = pending[q].ids
    BY <1>1, <2>1
  <2> QED BY <1>5, <2>2, NotedKept
<1>6. CASE Auction!ExpirePending(p)
  <2>1. /\ DOMAIN AuctionsMap' = DOMAIN AuctionsMap
        /\ \A id \in DOMAIN AuctionsMap :
             \E over : AuctionsMap'[id] = [AuctionsMap[id] EXCEPT !.expired = over]
        /\ pending' = [pending EXCEPT ![p] = Auction!NoPending]
    BY <1>6 DEF Auction!ExpirePending
  <2>2. \A id \in DOMAIN AuctionsMap :
          AuctionsMap'[id].owner = AuctionsMap[id].owner /\ AuctionsMap'[id].paid = AuctionsMap[id].paid
    BY <1>2, <2>1 DEF IsAuction
  <2>3. \A q \in Players : Range(pending'[q].ids) \subseteq Range(pending[q].ids)
    BY <1>3, <2>1
  <2> QED BY <2>1, <2>2, <2>3, NotedKept
<1> QED BY <1>4, <1>5, <1>6 DEF Auction!UpdatePendingAuctions

\* Nor do the other steps pay for an auction or give it away.
LEMMA NotedOtherwise ==
  ASSUME AuctionInv, NotedUnpaid, pending' = pending,
         \/ AuctionsMap' = AuctionsMap
         \/ \E id \in DOMAIN AuctionsMap : Auction!RemoveAuction(id)
         \/ \E id \in DOMAIN AuctionsMap, p \in Players, price \in Nat : Auction!HandleAuctionPlaceBid(p, id, price)
  PROVE  NotedUnpaid'
<1>1. CASE AuctionsMap' = AuctionsMap
  BY <1>1, NotedKept
<1>2. ASSUME NEW id \in DOMAIN AuctionsMap, Auction!RemoveAuction(id) PROVE NotedUnpaid'
  <2>1. /\ DOMAIN AuctionsMap' \subseteq DOMAIN AuctionsMap
        /\ \A x \in DOMAIN AuctionsMap' : AuctionsMap'[x] = AuctionsMap[x]
    BY <1>2 DEF Auction!RemoveAuction
  <2> QED BY <2>1, NotedKept
<1>3. ASSUME NEW id \in DOMAIN AuctionsMap, NEW p \in Players, NEW price \in Nat,
             Auction!HandleAuctionPlaceBid(p, id, price)
      PROVE  NotedUnpaid'
  <2>1. \/ Auction!RemoveAuction(id)
        \/ \E paid : AuctionsMap' = [AuctionsMap EXCEPT ![id] = BidBy(AuctionsMap[id], p, paid)]
    BY <1>3, Zenon DEF Auction!HandleAuctionPlaceBid, BidBy
  <2>2. ASSUME NEW paid, AuctionsMap' = [AuctionsMap EXCEPT ![id] = BidBy(AuctionsMap[id], p, paid)]
        PROVE  NotedUnpaid'
    <3> DEFINE auction == AuctionsMap[id]
               after == [auction EXCEPT !.bidder = p, !.bid = paid]
    <3>1. IsAuction(auction)
      BY DEF AuctionInv, AuctionTypes
    <3> HIDE DEF auction
    <3>2. after.owner = auction.owner
      BY <3>1 DEF IsAuction
    <3>3. after.paid = auction.paid
      BY <3>1 DEF IsAuction
    <3>4. AuctionsMap' = [AuctionsMap EXCEPT ![id] = after]
      BY <2>2 DEF BidBy, auction
    <3> HIDE DEF after
    <3>5. /\ DOMAIN AuctionsMap' = DOMAIN AuctionsMap /\ AuctionsMap'[id] = after
          /\ \A x \in DOMAIN AuctionsMap : x # id => AuctionsMap'[x] = AuctionsMap[x]
      BY <3>4
    <3>6. \A x \in DOMAIN AuctionsMap :
            AuctionsMap'[x].owner = AuctionsMap[x].owner /\ AuctionsMap'[x].paid = AuctionsMap[x].paid
      BY <3>2, <3>3, <3>5 DEF auction
    <3> QED BY <3>5, <3>6, NotedKept
  <2> QED BY <1>2, <2>1, <2>2
<1> QED BY <1>1, <1>2, <1>3

\* No step makes or loses money.
LEMMA MoneyStep == MoneyInv /\ [Auction!Next]_Auction!vars => MoneyInv'
<1> SUFFICES ASSUME MoneyInv, [Auction!Next]_Auction!vars PROVE MoneyInv'
  OBVIOUS
<1>1. Stepping
  BY AuctionStep DEF MoneyInv, Stepping
<1>0. MoneyTypes /\ NotedUnpaid /\ AuctionInv
  BY DEF MoneyInv
<1>2. ASSUME MoneyTypes', NotedUnpaid', Worth' = Worth PROVE MoneyInv'
  BY <1>1, <1>2 DEF MoneyInv, Stepping
<1>3. CASE money' = money /\ mail' = mail /\ AuctionsMap' = AuctionsMap /\ lastId' = lastId
           /\ pending' = pending /\ house' = house /\ forgiven' = forgiven /\ unpaid' = unpaid
  BY <1>0, <1>2, <1>3, NotedOtherwise DEF MoneyTypes, Worth
<1>4. ASSUME NEW p \in Players, Auction!Connect(p) PROVE MoneyInv'
  BY <1>3, <1>4 DEF Auction!Connect, Auction!moneyVars
<1>5. CASE UNCHANGED Auction!vars
  BY <1>3, <1>5 DEF Auction!vars, Auction!moneyVars
<1>6. \A p \in Players : \A price \in 1..money[p] : price \in Nat
  BY DEF MoneyInv, MoneyTypes
<1>7. ASSUME NEW p \in Players, NEW id \in DOMAIN AuctionsMap, NEW price \in 1..money[p],
             Auction!HandleAuctionPlaceBid(p, id, price)
      PROVE  MoneyInv'
  <2>1. price \in Nat /\ pending' = pending
    BY <1>6, <1>7 DEF Auction!HandleAuctionPlaceBid
  <2>2. MoneyTypes' /\ Worth' = Worth
    BY <1>1, <1>7, <2>1, BidMoney
  <2>3. NotedUnpaid'
    BY <1>0, <1>7, <2>1, NotedOtherwise
  <2> QED BY <1>2, <2>2, <2>3
<1>8. ASSUME NEW p \in Players, NEW item \in Items, NEW offer \in Offers,
             Auction!HandleAuctionSellItem(p, item, offer)
      PROVE  MoneyInv'
  BY <1>0, <1>1, <1>2, <1>8, SellMoney, NotedPutUp
<1>9. ASSUME NEW p \in Players, NEW id \in DOMAIN AuctionsMap, Auction!HandleAuctionRemoveItem(p, id)
      PROVE  MoneyInv'
  <2>1. Auction!RemoveAuction(id) /\ pending' = pending
    BY <1>9 DEF Auction!HandleAuctionRemoveItem
  <2> QED BY <1>0, <1>1, <1>2, <1>9, <2>1, CancelMoney, NotedOtherwise
<1>10. ASSUME NEW p \in Players, Auction!TakeMail(p) \/ Auction!Spend(p) PROVE MoneyInv'
  <2>1. pending' = pending /\ AuctionsMap' = AuctionsMap
    BY <1>10 DEF Auction!TakeMail, Auction!Spend
  <2>2. NotedUnpaid'
    BY <1>0, <2>1, NotedOtherwise
  <2> QED BY <1>1, <1>2, <1>10, <2>2, MailMoney, SpentMoney
<1>12. ASSUME NEW p \in Players, Auction!UpdatePendingAuctions(p) PROVE MoneyInv'
  BY <1>0, <1>1, <1>2, <1>12, SettleMoney, NotedSettle
<1>11. ASSUME NEW id \in DOMAIN AuctionsMap, Auction!Expire(id) PROVE MoneyInv'
  <2>1. Auction!RemoveAuction(id) /\ pending' = pending
    BY <1>11 DEF Auction!Expire
  <2> QED BY <1>0, <1>1, <1>2, <1>11, <2>1, ExpireMoney, NotedOtherwise
<1> QED BY <1>4, <1>5, <1>7, <1>8, <1>9, <1>10, <1>11, <1>12 DEF Auction!Next

\* AuctionHouseMgr: for any number of players and any prices, every bid and every
\* deposit that was taken is held, paid back once or kept, and no item is in two
\* places: what players, mails and auctions hold and the house got is what there
\* was at first, and more by exactly what players could not pay and by the
\* deposits that were paid back without ever having been taken.
THEOREM MoneyAndItemsAreConserved == Auction!Spec => []Conserved
<1>1. MoneyInv => Auction!Balanced
  <2> SUFFICES ASSUME MoneyInv PROVE Auction!Balanced
    OBVIOUS
  <2> DEFINE owned == Owned(money, mail)
             holdings == HeldOf(AuctionsMap)
  <2>1. DOMAIN owned = Players /\ DOMAIN holdings = DOMAIN AuctionsMap
    BY DEF Owned, HeldOf
  <2>2. Auction!SumFunction(owned) = Purses(money, mail) /\ Auction!SumFunction(holdings) = Holdings(AuctionsMap)
    BY <2>1, AuctionSum DEF Purses, Holdings
  <2>3. Auction!SumFunction(owned) + Auction!SumFunction(holdings) + house = StartMoney * Cardinality(Players) + forgiven + unpaid
    <3>1. /\ Purses(money, mail) + Holdings(AuctionsMap) + house - forgiven - unpaid = StartMoney * Cardinality(Players)
          /\ house \in Int /\ forgiven \in Int /\ unpaid \in Int
      BY DEF MoneyInv, MoneyTypes, Worth
    <3>2. Holdings(AuctionsMap) \in Int
      BY MapIsHeld, HoldingsAreInt DEF MoneyInv
    <3>3. Purses(money, mail) \in Int
      <4> DEFINE f == Owned(money, mail)
      <4>1. \A p \in Players : f[p] \in Int
        BY DEF MoneyInv, MoneyTypes, IsPurse, Owned
      <4>2. IsFiniteSet(Players)
        BY AuctionConstants
      <4> HIDE DEF f
      <4>3. SumFunctionOnSet(f, Players) \in Int
        BY ONLY <4>1, <4>2, SumRemove
      <4> QED BY <4>3 DEF Purses, f
    <3> HIDE DEF owned, holdings
    <3>4. StartMoney * Cardinality(Players) \in Int
      BY AuctionConstants, FS_CardinalityType
    <3> QED BY <2>2, <3>1, <3>2, <3>3, <3>4
  <2> QED BY <2>3, AuctionCardinality DEF Auction!Balanced, Owned, HeldOf
<1>2. Auction!Spec => []MoneyInv
  BY MoneyInit, MoneyStep, PTL DEF Auction!Spec
<1>3. Auction!ItemInOnePlace /\ Auction!Balanced => Conserved
  BY DEF Conserved, Auction!Conserved
<1> QED BY <1>1, <1>2, <1>3, ItemsAreInOnePlace, PTL

-----------------------------------------------------------------------------
(* The types of the auction house *)

IsMail(box) == box = [p \in DOMAIN box |-> box[p]]
AwakeTypes == awake \in [Players -> BOOLEAN] /\ IsMail(mail)

\* What is put into mails leaves a function.
LEMMA MailedIsMail ==
  /\ \A box, p, amount : IsMail(Auction!WithMoney(box, p, amount))
  /\ \A box, p, item : IsMail(Auction!WithItem(box, p, item))
BY DEF IsMail, Auction!WithMoney, Auction!WithItem

\* Players come and go, and get mails.
LEMMA AwakeStep == AwakeTypes /\ [Auction!Next]_Auction!vars => AwakeTypes'
<1> SUFFICES ASSUME AwakeTypes, [Auction!Next]_Auction!vars PROVE AwakeTypes'
  OBVIOUS
<1>m. IsMail(mail) /\ awake \in [Players -> BOOLEAN]
  BY DEF AwakeTypes
<1>u. awake' = awake /\ IsMail(mail') => AwakeTypes'
  BY <1>m DEF AwakeTypes
<1>1. ASSUME NEW p \in Players, Auction!Connect(p) PROVE AwakeTypes'
  <2>1. awake' = [awake EXCEPT ![p] = ~awake[p]] /\ mail' = mail
    BY <1>1, Zenon DEF Auction!Connect
  <2>2. (~awake[p]) \in BOOLEAN
    OBVIOUS
  <2> QED BY <1>m, <2>1, <2>2 DEF AwakeTypes
<1>2. ASSUME NEW p \in Players,
             \/ Auction!UpdatePendingAuctions(p) \/ Auction!Spend(p)
             \/ \E item \in Items, offer \in Offers : Auction!HandleAuctionSellItem(p, item, offer)
      PROVE  AwakeTypes'
  <2>1. awake' = awake /\ mail' = mail
    BY <1>2 DEF Auction!UpdatePendingAuctions, Auction!Spend, Auction!HandleAuctionSellItem
  <2> QED BY <1>m, <1>u, <2>1
<1>3. ASSUME NEW p \in Players, Auction!TakeMail(p) PROVE AwakeTypes'
  <2>1. awake' = awake /\ mail' = [mail EXCEPT ![p] = [money |-> 0, items |-> {}]]
    BY <1>3 DEF Auction!TakeMail
  <2>2. IsMail(mail')
    BY <2>1 DEF IsMail
  <2> QED BY <1>u, <2>1, <2>2
<1>4. ASSUME NEW id \in DOMAIN AuctionsMap, NEW p \in Players, Auction!HandleAuctionRemoveItem(p, id)
      PROVE  AwakeTypes'
  <2>1. awake' = awake /\ \E box : mail' = Auction!WithItem(box, p, AuctionsMap[id].item)
    BY <1>4, Zenon DEF Auction!HandleAuctionRemoveItem
  <2> QED BY <1>u, <2>1, MailedIsMail
<1>5. ASSUME NEW id \in DOMAIN AuctionsMap, NEW p \in Players, NEW price, Auction!HandleAuctionPlaceBid(p, id, price)
      PROVE  AwakeTypes'
  <2>1. awake' = awake
    BY <1>5 DEF Auction!HandleAuctionPlaceBid
  <2>2. \/ \E box, buyer, item : mail' = Auction!WithItem(box, buyer, item)
        \/ \E auction, paid : mail' = Auction!Outbid(auction, p, paid)
    BY <1>5, Zenon DEF Auction!HandleAuctionPlaceBid, Auction!AfterSale
  <2>3. \A auction, paid : IsMail(Auction!Outbid(auction, p, paid))
    BY <1>m, MailedIsMail DEF Auction!Outbid
  <2> QED BY <1>u, <2>1, <2>2, <2>3, MailedIsMail
<1>6. ASSUME NEW id \in DOMAIN AuctionsMap, Auction!Expire(id) PROVE AwakeTypes'
  <2>1. awake' = awake /\ \E box, buyer, item : mail' = Auction!WithItem(box, buyer, item)
    BY <1>6, Zenon DEF Auction!Expire, Auction!AfterSale
  <2> QED BY <1>u, <2>1, MailedIsMail
<1>7. CASE UNCHANGED Auction!vars
  BY <1>m, <1>u, <1>7 DEF Auction!vars
<1> QED BY <1>1, <1>2, <1>3, <1>4, <1>5, <1>6, <1>7 DEF Auction!Next

\* AuctionHouseMgr: its variables have their types for any number of players,
\* items and auctions.
LEMMA AuctionTypesAre == Auction!Spec => []Auction!TypeOK
<1>1. MoneyInv /\ AwakeTypes => Auction!TypeOK
  <2> SUFFICES ASSUME MoneyInv, AwakeTypes PROVE Auction!TypeOK
    OBVIOUS
  <2>1. mAitems \subseteq Items
    <3>1. mAitems = {AuctionsMap[id].item : id \in DOMAIN AuctionsMap}
      BY DEF MoneyInv, AuctionInv, OneAuction
    <3>2. \A id \in DOMAIN AuctionsMap : AuctionsMap[id].item \in Items
      BY DEF MoneyInv, AuctionInv, AuctionTypes, IsAuction
    <3> QED BY <3>1, <3>2
  <2>2. mail \in [Players -> [money : Nat, items : SUBSET Items]]
    <3>1. mail = [p \in Players |-> mail[p]]
      BY DEF AwakeTypes, IsMail, MoneyInv, MoneyTypes, IsPurse, IsBox
    <3>2. ASSUME NEW p \in Players PROVE mail[p] \in [money : Nat, items : SUBSET Items]
      <4>1. mail[p] = [money |-> mail[p].money, items |-> mail[p].items] /\ mail[p].items \in SUBSET Items
        BY DEF MoneyInv, AuctionInv, AuctionTypes, IsBox
      <4>2. mail[p].money \in Nat
        BY DEF MoneyInv, MoneyTypes, IsPurse
      <4> QED BY <4>1, <4>2
    <3> QED BY <3>1, <3>2
  <2>3. lastId \in 0..MaxAuctions /\ DOMAIN AuctionsMap \subseteq 1..lastId
    BY DEF MoneyInv, MoneyTypes, AuctionInv, AuctionTypes
  <2>4. \A p \in Players : pending[p].counted <= Len(pending[p].ids)
    BY DEF MoneyInv, MoneyTypes, IsPending
  <2>5. money \in [Players -> Nat] /\ bags \in [Players -> SUBSET Items]
    BY DEF MoneyInv, MoneyTypes, AuctionInv, AuctionTypes
  <2>6. {house, forgiven, unpaid} \subseteq Nat
    BY DEF MoneyInv, MoneyTypes
  <2> QED BY <2>1, <2>2, <2>3, <2>4, <2>5, <2>6 DEF Auction!TypeOK, AwakeTypes
<1>2. Auction!Init => AwakeTypes
  <2>1. Auction!Init => awake = [p \in Players |-> TRUE] /\ mail = [p \in Players |-> [money |-> 0, items |-> {}]]
    BY Zenon DEF Auction!Init
  <2> QED BY <2>1 DEF AwakeTypes, IsMail
<1> QED BY <1>1, <1>2, MoneyInit, MoneyStep, AwakeStep, PTL DEF Auction!Spec

-----------------------------------------------------------------------------
(* The deposit of a series. *)

\* AuctionHouseMgr::UpdatePendingAuctions: for any series of auctions and any
\* deposit, the shares noted with the auctions are the deposit that was taken.
THEOREM DepositsOfASeries == Auction!Spec => Auction!DepositsAddUp
<1> DEFINE Added ==
      \A p \in Players :
        LET ids == Auction!ToSet(pending[p].ids) IN
        awake[p] /\ ids # {} /\ pending'[p].ids = <<>> /\ ids \subseteq DOMAIN AuctionsMap
          => Auction!SumFunction([id \in ids |-> AuctionsMap'[id].deposit]) = Deposits[Auction!Cardinality(ids)]
<1>1. MoneyInv /\ [Auction!Next]_Auction!vars => Added
  <2> SUFFICES ASSUME MoneyInv, [Auction!Next]_Auction!vars, NEW p \in Players, awake[p],
                      Auction!ToSet(pending[p].ids) # {}, pending'[p].ids = <<>>,
                      Auction!ToSet(pending[p].ids) \subseteq DOMAIN AuctionsMap
               PROVE  Auction!SumFunction([id \in Auction!ToSet(pending[p].ids) |-> AuctionsMap'[id].deposit])
                        = Deposits[Auction!Cardinality(Auction!ToSet(pending[p].ids))]
    OBVIOUS
  <2> DEFINE s == pending[p].ids
             n == Len(s)
             f == [id \in Range(s) |-> AuctionsMap'[id].deposit]
  <2>1. Auction!ToSet(s) = Range(s)
    BY DEF Auction!ToSet, Range
  <2>2. IsPending(pending[p], lastId) /\ DOMAIN pending = Players /\ lastId \in 0..MaxAuctions
    BY DEF MoneyInv, MoneyTypes
  <2>3. s \in Seq(1..lastId) /\ IsInjective(s) /\ s # <<>>
    BY <2>1, <2>2, EmptySequence DEF IsPending
  <2>4. IsFiniteSet(Range(s)) /\ Cardinality(Range(s)) = n /\ n \in Nat /\ n >= 1
    BY <2>3, LengthIsCardinality
  <2>5. Deposits[n] \in Nat
    BY <2>2, <2>3, PendingLength
  <2>6. Auction!UpdatePendingAuctions(p)
    <3>1. pending' # pending
      BY <2>3
    <3>2. ASSUME NEW q \in Players, NEW item \in Items, NEW offer \in Offers,
                 Auction!HandleAuctionSellItem(q, item, offer)
          PROVE  FALSE
      <4>1. pending' = [pending EXCEPT ![q] = [pending[q] EXCEPT !.ids = Append(pending[q].ids, lastId')]]
        BY <3>2 DEF Auction!HandleAuctionSellItem, Auction!PendingAuctionAdd
      <4>2. CASE q = p
        <5>1. pending'[p].ids = Append(s, lastId')
          BY <2>2, <4>1, <4>2 DEF IsPending
        <5>2. lastId' \in Nat
          BY <2>2, <3>2 DEF Auction!HandleAuctionSellItem
        <5>3. s \in Seq(Nat)
          BY <2>2, <2>3
        <5> HIDE DEF s
        <5>4. Len(Append(s, lastId')) = Len(s) + 1 /\ Len(s) \in Nat
          BY <5>2, <5>3
        <5>5. Len(pending'[p].ids) = 0
          OBVIOUS
        <5> QED BY <5>1, <5>4, <5>5
      <4>3. CASE q # p
        BY <2>2, <2>3, <4>1, <4>3
      <4> QED BY <4>2, <4>3
    <3>3. ASSUME NEW q \in Players, q # p, Auction!UpdatePendingAuctions(q) PROVE FALSE
      <4>1. \E new : pending' = [pending EXCEPT ![q] = new]
        BY <3>3 DEF Auction!UpdatePendingAuctions, Auction!PendingAuctionProcess, Auction!Count, Auction!ExpirePending
      <4> QED BY <2>2, <2>3, <3>3, <4>1
    <3>4. ASSUME NEW q \in Players, Auction!TakeMail(q) \/ Auction!Spend(q) \/ Auction!Connect(q) PROVE FALSE
      BY <3>1, <3>4 DEF Auction!TakeMail, Auction!Spend, Auction!Connect
    <3>5. ASSUME NEW id \in DOMAIN AuctionsMap, Auction!Expire(id) PROVE FALSE
      BY <3>1, <3>5 DEF Auction!Expire
    <3>6. ASSUME NEW q \in Players, NEW id \in DOMAIN AuctionsMap, NEW price,
                 Auction!HandleAuctionRemoveItem(q, id) \/ Auction!HandleAuctionPlaceBid(q, id, price)
          PROVE  FALSE
      BY <3>1, <3>6 DEF Auction!HandleAuctionRemoveItem, Auction!HandleAuctionPlaceBid
    <3>7. CASE UNCHANGED Auction!vars
      BY <3>1, <3>7 DEF Auction!vars
    <3> QED BY <3>2, <3>3, <3>4, <3>5, <3>6, <3>7 DEF Auction!Next
  <2>7. Auction!PendingAuctionProcess(p)
    <3>1. ASSUME Auction!Count(p) PROVE FALSE
      <4>1. pending'[p].ids = s
        BY <2>2, <3>1 DEF Auction!Count, IsPending
      <4> QED BY <2>3, <4>1
    <3> QED BY <2>6, <3>1 DEF Auction!UpdatePendingAuctions
  <2>8. AuctionsMap' = Auction!WithDeposits(s, Deposits[n])
    <3>1. s[1] \in DOMAIN AuctionsMap
      BY <2>1, <2>3, <2>4 DEF Range
    <3> QED BY <2>7, <3>1 DEF Auction!PendingAuctionProcess, Auction!TotalDeposit
  <2>9. \A k \in 1..n : f[s[k]] = Auction!Share(s, k, Deposits[n])
    <3> SUFFICES ASSUME NEW k \in 1..n PROVE f[s[k]] = Auction!Share(s, k, Deposits[n])
      OBVIOUS
    <3>1. s[k] \in Range(s) /\ s[k] \in DOMAIN AuctionsMap
      BY <2>1, <2>3 DEF Range
    <3>2. (CHOOSE j \in 1..n : s[j] = s[k]) = k
      BY <2>3 DEF IsInjective
    <3> DEFINE share == Auction!Share(s, k, Deposits[n])
               auction == AuctionsMap[s[k]]
    <3>3. AuctionsMap'[s[k]] = [auction EXCEPT !.deposit = share, !.paid = TRUE]
      <4> DEFINE Shared(id) == [AuctionsMap[id] EXCEPT !.deposit = Auction!Share(s, Auction!PlaceOf(s, id), Deposits[n]), !.paid = TRUE]
      <4>1. AuctionsMap' = [id \in DOMAIN AuctionsMap |-> IF id \in Auction!ToSet(s) THEN Shared(id) ELSE AuctionsMap[id]]
        BY <2>8, Zenon DEF Auction!WithDeposits
      <4>2. Shared(s[k]) = [auction EXCEPT !.deposit = share, !.paid = TRUE]
        <5>1. Auction!PlaceOf(s, s[k]) = k
          BY <3>2 DEF Auction!PlaceOf
        <5> QED BY <5>1, Zenon
      <4> HIDE DEF Shared, share, auction
      <4>3. AuctionsMap'[s[k]] = Shared(s[k])
        BY <2>1, <3>1, <4>1
      <4> QED BY <4>2, <4>3
    <3>4. IsAuction(auction)
      BY <3>1 DEF MoneyInv, AuctionInv, AuctionTypes
    <3> HIDE DEF share, auction
    <3>5. AuctionsMap'[s[k]].deposit = share
      BY <3>3, <3>4 DEF IsAuction
    <3> QED BY <3>1, <3>5 DEF share
  <2> HIDE DEF f
  <2>10. IsShared(f, s, Deposits[n])
    BY <2>9 DEF IsShared, Auction!Share
  <2>11. SumFunctionOnSet(f, Range(s)) = Deposits[n]
    BY <2>3, <2>5, <2>10, SharesAddUp
  <2>12. Auction!SumFunction(f) = SumFunctionOnSet(f, Range(s))
    <3>1. DOMAIN f = Range(s)
      BY DEF f
    <3> QED BY <3>1, AuctionSum
  <2> QED BY <2>1, <2>4, <2>11, <2>12, AuctionCardinality DEF f
<1>2. Auction!Spec => []MoneyInv
  BY MoneyInit, MoneyStep, PTL DEF Auction!Spec
<1>3. MoneyInv /\ [Auction!Next]_Auction!vars => [Added]_Auction!vars
  BY <1>1
<1> QED BY <1>2, <1>3, PTL DEF Auction!Spec, Auction!DepositsAddUp
=============================================================================
