------------------------------- MODULE Trade -------------------------------
(* Trades between two players: the handlers of TradeHandler.cpp, the two
   TradeData objects (TradeData.cpp) and Player::TradeCancel.  Every trade
   opcode is PROCESS_THREADUNSAFE, so one handler is one step of the world's
   thread; between two of them the players earn and spend, loot and lose items.

   Abstractions.  An item is an identity and a bag is a number of places
   (CanStoreItem, CanStoreItems: a free place for each item).  The conditions
   that only refuse a request and change nothing (alive, stunned, faction,
   level, distance when opening the window) make a handler a stutter.         *)
EXTENDS Integers, FiniteSets

CONSTANTS Players, Items,
          NSlots,     \* TRADE_SLOT_TRADED_COUNT
          MaxMoney,   \* MAX_MONEY_AMOUNT
          Places,     \* of each player's bags
          Forbidden,  \* <<item, player>>: Item::IsBindedNotWith(player), fixed when looted
          NoItem, NoTrade

Traded    == 1 .. NSlots
NonTraded == NSlots + 1            \* TRADE_SLOT_NONTRADED: shown, enchanted, never given
Slots     == Traded \cup {NonTraded}

VARIABLES
    online,      \* players in the world
    trade,       \* Player::m_trade: the TradeData of each player
    inventory,   \* the items each player has
    gold,
    locked       \* items CanBeTraded refuses for now: a filled bag, one being looted, one bound

vars == <<online, trade, inventory, gold, locked>>

TradeData == [trader: Players, items: [Slots -> Items \cup {NoItem}],
              money: 0 .. MaxMoney, spell: BOOLEAN, accepted: BOOLEAN]

TradeAssumption ==
    /\ NoTrade \notin TradeData /\ NoItem \notin Items
    /\ {NSlots, Places} \subseteq Nat /\ MaxMoney \in Nat \ {0}

TypeOK ==
    /\ online \subseteq Players
    /\ trade \in [Players -> TradeData \cup {NoTrade}]
    /\ inventory \in [Players -> SUBSET Items]
    /\ gold \in [Players -> 0 .. MaxMoney - 1]
    /\ locked \subseteq Items
    /\ \A p \in Players : Cardinality(inventory[p]) <= Places

Trading(p) == trade[p] # NoTrade
Partner(p) == trade[p].trader

\* TradeData::GetItem: the offered item, if its owner still has it.
GetItem(p, s) ==
    IF trade[p].items[s] \in inventory[p] THEN trade[p].items[s] ELSE NoItem

Given(p) == {GetItem(p, s) : s \in Traded} \ {NoItem}

Init ==
    /\ online = {}
    /\ trade = [p \in Players |-> NoTrade]
    /\ inventory = [p \in Players |-> {}]
    /\ gold = [p \in Players |-> 0]
    /\ locked = {}

-----------------------------------------------------------------------------
(* The window *)

\* Mutant: the other one may be trading.
InitiateTradeBusy(p, q) ==
    /\ {p, q} \subseteq online /\ p # q /\ ~Trading(p)
    /\ LET new(r) == [trader |-> r, items |-> [s \in Slots |-> NoItem],
                      money |-> 0, spell |-> FALSE, accepted |-> FALSE]
       IN  trade' = [trade EXCEPT ![p] = new(q), ![q] = new(p)]
    /\ UNCHANGED <<online, inventory, gold, locked>>

\* HandleInitiateTradeOpcode: neither is trading already.
InitiateTrade(p, q) ==
    /\ {p, q} \subseteq online /\ p # q /\ ~Trading(p) /\ ~Trading(q)
    /\ LET new(r) == [trader |-> r, items |-> [s \in Slots |-> NoItem],
                      money |-> 0, spell |-> FALSE, accepted |-> FALSE]
       IN  trade' = [trade EXCEPT ![p] = new(q), ![q] = new(p)]
    /\ UNCHANGED <<online, inventory, gold, locked>>

\* Player::TradeCancel: both TradeData are deleted.
TradeCancelled(p) ==
    [r \in Players |-> IF Trading(p) /\ r \in {p, Partner(p)} THEN NoTrade ELSE trade[r]]

CancelTrade(p) ==
    /\ Trading(p)
    /\ trade' = TradeCancelled(p)
    /\ UNCHANGED <<online, inventory, gold, locked>>

Login(p) ==
    /\ p \notin online
    /\ online' = online \cup {p}
    /\ UNCHANGED <<trade, inventory, gold, locked>>

\* Player::~Player cancels the trade.
Logout(p) ==
    /\ p \in online
    /\ online' = online \ {p}
    /\ trade' = TradeCancelled(p)
    /\ UNCHANGED <<inventory, gold, locked>>

-----------------------------------------------------------------------------
(* The offer.  SetItem, SetMoney and SetSpell each withdraw both acceptances. *)

\* Mutant: only the own acceptance is withdrawn.
WithdrawnMineOnly(t, p) == [t EXCEPT ![p].accepted = FALSE]

\* SetAccepted(false) on both TradeData.
Withdrawn(t, p) == [t EXCEPT ![p].accepted = FALSE, ![t[p].trader].accepted = FALSE]

\* TradeData::SetItem: a new item in a slot ends the spells that were about it.
WithItem(p, s, i) ==
    LET q == Partner(p)
    IN  Withdrawn([trade EXCEPT ![p].items[s] = i, ![p].spell = FALSE,
                                ![q].spell = @ /\ s # NonTraded], p)

\* HandleSetTradeItemOpcode: an item of the player in one slot only, which may
\* be given to the partner unless it is only shown.
SetTradeItem(p, s, i) ==
    /\ Trading(p) /\ i \in inventory[p]
    /\ s # NonTraded => i \notin locked
    /\ \A s2 \in Slots : trade[p].items[s2] # i
    /\ s # NonTraded => <<i, Partner(p)>> \notin Forbidden
    /\ trade' = WithItem(p, s, i)
    /\ UNCHANGED <<online, inventory, gold, locked>>

\* HandleClearTradeItemOpcode
ClearTradeItem(p, s) ==
    /\ Trading(p) /\ trade[p].items[s] # NoItem
    /\ trade' = WithItem(p, s, NoItem)
    /\ UNCHANGED <<online, inventory, gold, locked>>

\* HandleSetTradeGoldOpcode, TradeData::SetMoney
SetTradeGold(p, money) ==
    /\ Trading(p) /\ trade[p].money # money
    /\ gold[p] >= money
    /\ trade' = Withdrawn([trade EXCEPT ![p].money = money], p)
    /\ UNCHANGED <<online, inventory, gold, locked>>

\* Spell::cast at the partner's shown item stores the spell in the TradeData;
\* CheckCast wants that item and no spell stored before.
SetSpell(p) ==
    /\ Trading(p) /\ ~trade[p].spell
    /\ GetItem(Partner(p), NonTraded) # NoItem
    /\ trade' = Withdrawn([trade EXCEPT ![p].spell = TRUE], p)
    /\ UNCHANGED <<online, inventory, gold, locked>>

\* HandleUnacceptTradeOpcode
UnacceptTrade(p) ==
    /\ Trading(p)
    /\ trade' = [trade EXCEPT ![p].accepted = FALSE]
    /\ UNCHANGED <<online, inventory, gold, locked>>

-----------------------------------------------------------------------------
(* HandleAcceptTradeOpcode *)

CannotPay(p)    == gold[p] < trade[p].money
CannotHold(p)   == gold[p] >= MaxMoney - trade[Partner(p)].money

\* Whose acceptance the checks of distance and money withdraw; nobody's: they pass.
Refused(p, near) ==
    LET q == Partner(p)
    IN  IF ~near \/ CannotPay(p) THEN {p}
        ELSE IF CannotPay(q)  THEN {q}
        ELSE IF CannotHold(p) THEN {p}
        ELSE IF CannotHold(q) THEN {q}
        ELSE {}

\* The partner's items are not tested against Forbidden: "dont mark as invalid
\* when his item isnt good".
HasIllegalItem(p) ==
    \/ Given(p) \cap locked # {} \/ Given(Partner(p)) \cap locked # {}
    \/ \E i \in Given(p) : <<i, Partner(p)>> \in Forbidden

\* CanStoreItems: items flagged 'in-trade' (the given ones) count as free places.
Fits(p) ==
    Cardinality(inventory[p] \ Given(p)) + Cardinality(Given(Partner(p))) <= Places

\* Acceptance as the handler leaves it when it stops at a check.
Accepted(p, out) ==
    [r \in Players |-> IF ~Trading(r) THEN NoTrade
                       ELSE [trade[r] EXCEPT !.accepted = (@ \/ r = p) /\ r \notin out]]

\* ModifyMoney of an amount taken, of an amount given.
Less(g, amount) == IF g > amount THEN g - amount ELSE 0
More(g, amount) == IF g < MaxMoney - amount THEN g + amount ELSE g

\* moveItems for one slot: both items are stored, or both are handed back if
\* there is room for them.
Store(inv, r, i) == IF i = NoItem THEN inv ELSE [inv EXCEPT ![r] = @ \cup {i}]
HasRoom(inv, r, i) == i = NoItem \/ Cardinality(inv[r]) < Places

MoveSlot(inv, p, q, mine, his) ==
    LET backTo(w, r, i) == IF HasRoom(w, r, i) THEN Store(w, r, i) ELSE w
    IN  IF HasRoom(inv, q, mine) /\ HasRoom(inv, p, his)
        THEN Store(Store(inv, q, mine), p, his)
        ELSE backTo(backTo(inv, p, mine), q, his)

\* All given items are taken out first, then stored slot by slot.
Exchanged(p) ==
    LET q == Partner(p)
        moved[n \in 0 .. NSlots] ==
            IF n = 0 THEN [inventory EXCEPT ![p] = @ \ Given(p), ![q] = @ \ Given(q)]
            ELSE MoveSlot(moved[n - 1], p, q, GetItem(p, n), GetItem(q, n))
    IN  moved[NSlots]

\* A check of distance or money fails, or an item may not be given: in that
\* case the player's own acceptance stays.
AcceptStopped(p) ==
    /\ Trading(p)
    /\ \E near \in BOOLEAN :
          /\ Refused(p, near) # {} \/ HasIllegalItem(p) \/ ~trade[Partner(p)].accepted
          /\ trade' = Accepted(p, Refused(p, near))
    /\ UNCHANGED <<online, inventory, gold, locked>>

BothAccept(p) ==
    /\ Trading(p) /\ trade[Partner(p)].accepted
    /\ Refused(p, TRUE) = {} /\ ~HasIllegalItem(p)

\* A spell that cannot be cast now, or whose target has gone, is dropped.
SpellRefused(p) ==
    /\ BothAccept(p)
    /\ \E r \in {p, Partner(p)} :
          /\ trade[r].spell
          /\ trade' = Withdrawn([trade EXCEPT ![r].spell = FALSE], p)
    /\ UNCHANGED <<online, inventory, gold, locked>>

SpellsCastable(p) ==
    \A r \in {p, Partner(p)} : trade[r].spell => GetItem(Partner(r), NonTraded) # NoItem

NoRoom(p) ==
    /\ BothAccept(p) /\ SpellsCastable(p)
    /\ ~Fits(p) \/ ~Fits(Partner(p))
    /\ trade' = Accepted(p, {p, Partner(p)})
    /\ UNCHANGED <<online, inventory, gold, locked>>

CompleteTrade(p) ==
    /\ BothAccept(p) /\ SpellsCastable(p)
    /\ Fits(p) /\ Fits(Partner(p))
    /\ inventory' = Exchanged(p)
    /\ LET q == Partner(p)
           after(r, out, in) == More(Less(gold[r], out), in)
       IN  gold' = [gold EXCEPT ![p] = after(p, trade[p].money, trade[q].money),
                                ![q] = after(q, trade[q].money, trade[p].money)]
    /\ trade' = TradeCancelled(p)
    /\ UNCHANGED <<online, locked>>

-----------------------------------------------------------------------------
(* What the players do besides trading *)

\* Earned, bought, repaired: ModifyMoney.
GoldChanges(p) ==
    /\ p \in online
    /\ gold' = [gold EXCEPT ![p] = More(@, 1)] \/ gold' = [gold EXCEPT ![p] = Less(@, 1)]
    /\ UNCHANGED <<online, trade, inventory, locked>>

\* Sold, destroyed, mailed: MoveItemFromInventory and DestroyItem do not tell the trade.
ItemLeaves(p, i) ==
    /\ p \in online /\ i \in inventory[p]
    /\ inventory' = [inventory EXCEPT ![p] = @ \ {i}]
    /\ UNCHANGED <<online, trade, gold, locked>>

ItemLooted(p, i) ==
    /\ p \in online /\ \A r \in Players : i \notin inventory[r]
    /\ Cardinality(inventory[p]) < Places
    /\ inventory' = [inventory EXCEPT ![p] = @ \cup {i}]
    /\ UNCHANGED <<online, trade, gold, locked>>

\* Item::SetCount of an offered stack sets the slot again: TradeData::SetItem
\* with update.
StackChanges(p, i) ==
    /\ Trading(p) /\ i \in inventory[p]
    /\ \E s \in Slots : trade[p].items[s] = i /\ trade' = WithItem(p, s, i)
    /\ UNCHANGED <<online, inventory, gold, locked>>

LockChanges(i) ==
    /\ locked' = IF i \in locked THEN locked \ {i} ELSE locked \cup {i}
    /\ UNCHANGED <<online, trade, inventory, gold>>

Next ==
    \/ \E p \in Players :
          \/ \E q \in Players : InitiateTrade(p, q)
          \/ CancelTrade(p) \/ Login(p) \/ Logout(p)
          \/ \E s \in Slots, i \in Items : SetTradeItem(p, s, i)
          \/ \E s \in Slots : ClearTradeItem(p, s)
          \/ \E money \in 0 .. MaxMoney : SetTradeGold(p, money)
          \/ SetSpell(p) \/ UnacceptTrade(p)
          \/ AcceptStopped(p) \/ SpellRefused(p) \/ NoRoom(p) \/ CompleteTrade(p)
          \/ GoldChanges(p)
          \/ \E i \in Items : ItemLeaves(p, i) \/ ItemLooted(p, i) \/ StackChanges(p, i)
    \/ \E i \in Items : LockChanges(i)

Spec == Init /\ [][Next]_vars

-----------------------------------------------------------------------------
(* Properties *)

\* The two TradeData of a trade point at each other and at players in the
\* world: no handler follows the pointer of a player who left or trades with
\* somebody else.
Mirrored ==
    \A p \in Players : Trading(p) =>
        /\ {p, Partner(p)} \subseteq online
        /\ Trading(Partner(p)) /\ Partner(Partner(p)) = p /\ Partner(p) # p

\* While a player's acceptance stands, nobody writes the slots, the gold or the
\* spell of either side: whatever writes them withdraws the acceptance.  An item
\* that leaves its owner's bags stays in its slot and withdraws nothing.
AcceptedOfferStands ==
    [][\A p \in Players :
          /\ Trading(p) /\ trade'[p] # NoTrade
          /\ trade[p].accepted /\ trade'[p].accepted
          => \A r \in {p, Partner(p)} :
                <<trade'[r].items, trade'[r].money, trade'[r].spell>>
                  = <<trade[r].items, trade[r].money, trade[r].spell>>]_vars

Exchange(p) == Trading(p) /\ trade'[p] = NoTrade /\ <<inventory, gold>>' # <<inventory, gold>>

\* The items in the slots to be exchanged, whether their owner still has them or not.
InSlots(p) == {trade[p].items[s] : s \in Traded} \ {NoItem}

\* A trade that moves anything was accepted by the partner, takes the gold of
\* both offers, and moves each item of the slots that is still in its owner's
\* bags: nothing is lost for want of room in moveItems, no gold is lost to the
\* ceiling or made by the floor of ModifyMoney.  What has left the bags behind
\* the other one's acceptance is not given, and the gold for it is still paid.
FairExchange ==
    [][\A p \in Players : Exchange(p) =>
          LET q == Partner(p)
          IN  /\ trade[p].accepted \/ trade[q].accepted
              /\ gold'[p] = gold[p] - trade[p].money + trade[q].money
              /\ inventory'[p] = (inventory[p] \ InSlots(p)) \cup (InSlots(q) \cap inventory[q])]_vars

\* No trade hands over an item that may not be traded at that moment, or not
\* to that player, although only the accepting player's items are tested again.
OnlyLegalTransfers ==
    [][\A p \in Players : Exchange(p) =>
          \A i \in inventory'[p] \ inventory[p] :
              i \notin locked /\ <<i, p>> \notin Forbidden]_vars

\* The three: what is exchanged is what the accepted slots hold and their
\* owners still have, for the accepted gold, if it may be given.
FairTrade == AcceptedOfferStands /\ FairExchange /\ OnlyLegalTransfers
=============================================================================
