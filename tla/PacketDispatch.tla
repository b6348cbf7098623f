--------------------------- MODULE PacketDispatch ---------------------------
(* The packets of one session: the queue its socket fills, the loop of
   WorldSession::Update that empties it in the world's thread (with a
   WorldSessionFilter) or in the thread of the player's map (with a
   MapSessionFilter), and the states of the player that the opcodes' statuses
   refer to.  The operations are parameterised by the thread that runs them;
   WorldUpdate says when each thread does.

   A packet is the number it arrived with and its kind.  Of every status and
   processing place of the opcode table that reaches a handler there is one
   kind, with the effect of its handler on the state kept here.              *)
EXTENDS Naturals, Sequences

CONSTANTS World,        \* the world's thread
          MapThreads,
          Kinds,        \* the kinds the client sends, a subset of AllKinds
          MaxPackets,   \* bound: packets that arrive
          Cap,          \* MAX_PROCESSED_PACKETS_IN_SAME_WORLDSESSION_UPDATE
          Places,       \* maps with players
          NoPlace, NoPacket, NoUpdate

Threads == {World} \cup MapThreads

\* Opcodes.cpp, one opcode of each sort: CMSG_CHAR_ENUM, CMSG_PLAYER_LOGIN,
\* CMSG_CANCEL_TRADE, CMSG_INITIATE_TRADE, CMSG_LOGOUT_REQUEST,
\* MSG_MOVE_HEARTBEAT, CMSG_AREATRIGGER, MSG_MOVE_WORLDPORT_ACK.
LoggedIn == {"trade", "logout", "move", "area"}                  \* STATUS_LOGGEDIN
Authed   == {"enum", "login"}                                    \* STATUS_AUTHED
AllKinds == LoggedIn \cup Authed \cup {"cancel", "ack"}
InPlace  == {"area"}                                             \* PROCESS_INPLACE
Safe     == {"move"}                                             \* PROCESS_THREADSAFE
Unsafe   == AllKinds \ (InPlace \cup Safe)                       \* PROCESS_THREADUNSAFE

VARIABLES
    recv,       \* _recvQueue
    arrived,    \* packets received so far
    socket,     \* m_Socket: open, closed, or reset to nullptr
    inQueue,    \* m_inQueue: waiting in the login queue
    player,     \* _player: none, loading (m_playerLoading), inworld, away (being teleported far)
    place,      \* the map of a player in the world
    recently,   \* m_playerRecentlyLogout
    leaving,    \* _logoutTime is set
    update,     \* of each thread in WorldSession::Update: requeuePackets, processedPackets
    handled     \* history: the packet handled last, and by which thread

sessionVars == <<recv, arrived, socket, inQueue, player, place, recently, leaving, update, handled>>

Packet == [n : 1 .. MaxPackets, kind : AllKinds]
PacketUpdate == [requeue : Seq(Packet), processed : 0 .. Cap + 1]
PacketHandled == [n : 1 .. MaxPackets, kind : AllKinds, by : Threads]

ASSUME PacketAssumption ==
    /\ World \notin MapThreads /\ Kinds \subseteq AllKinds
    /\ MaxPackets \in Nat /\ Cap \in Nat
    /\ NoPlace \notin Places /\ NoUpdate \notin PacketUpdate /\ NoPacket \notin PacketHandled

SessionTypeOK ==
    /\ recv \in Seq(Packet)
    /\ arrived \in 0 .. MaxPackets
    /\ socket \in {"open", "closed", "gone"}
    /\ inQueue \in BOOLEAN /\ recently \in BOOLEAN /\ leaving \in BOOLEAN
    /\ player \in {"none", "loading", "inworld", "away"}
    /\ place \in Places \cup {NoPlace}
    /\ place # NoPlace <=> player = "inworld"
    /\ update \in [Threads -> PacketUpdate \cup {NoUpdate}]
    /\ handled \in PacketHandled \cup {NoPacket}

SessionInit ==
    /\ recv = <<>> /\ arrived = 0
    /\ socket = "open"
    /\ inQueue \in BOOLEAN
    /\ player = "none" /\ place = NoPlace
    /\ recently = FALSE /\ leaving = FALSE
    /\ update = [t \in Threads |-> NoUpdate]
    /\ handled = NoPacket

HasPlayer == player \in {"inworld", "away"}      \* _player # nullptr

-----------------------------------------------------------------------------
(* The network's thread *)

\* WorldSession::QueuePacket
Receive(kind) ==
    /\ socket = "open" /\ arrived < MaxPackets
    /\ arrived' = arrived + 1
    /\ recv' = Append(recv, [n |-> arrived + 1, kind |-> kind])
    /\ UNCHANGED <<socket, inQueue, player, place, recently, leaving, update, handled>>

SocketCloses ==
    /\ socket = "open"
    /\ socket' = "closed"
    /\ UNCHANGED <<recv, arrived, inQueue, player, place, recently, leaving, update, handled>>

-----------------------------------------------------------------------------
(* WorldSession::Update *)

BeginUpdate(t) ==
    /\ update[t] = NoUpdate /\ socket # "gone"
    /\ update' = [update EXCEPT ![t] = [requeue |-> <<>>, processed |-> 0]]
    /\ UNCHANGED <<recv, arrived, socket, inQueue, player, place, recently, leaving, handled>>

ProcessOwnPackets(t, kind) ==
    kind \in InPlace \/ (t = World /\ kind \in Unsafe) \/ (t # World /\ kind \in Safe)

\* WorldSessionFilter::Process and MapSessionFilter::Process
Process(t, kind) ==
    \/ kind \in InPlace
    \/ t = World /\ kind \in Unsafe
    \/ t = World /\ player # "inworld"
    \/ t # World /\ kind \in Safe /\ player = "inworld"

\* The loop takes another packet.
TakesMore(t) ==
    /\ update[t] # NoUpdate
    /\ update[t].processed <= Cap
    /\ recv # <<>> /\ Process(t, Head(recv).kind)

\* Whether the switch over the statuses puts the packet back, or calls the handler.
Requeues(kind) == kind \in LoggedIn /\ ~HasPlayer /\ ~recently

Calls(kind) ==
    \/ kind \in LoggedIn /\ player = "inworld"
    \/ kind = "cancel" /\ (HasPlayer \/ recently)
    \/ kind = "ack" /\ player = "away"
    \/ kind \in Authed /\ ~inQueue

Appear(m) == player' = "inworld" /\ place' = m

\* LogoutPlayer: a player on its way to another map arrives there first.
LoggedOut == player' = "none" /\ place' = NoPlace /\ recently' = TRUE /\ leaving' = FALSE

\* What the handlers change of the state kept here.
Effect(kind) ==
    CASE kind = "login" /\ player = "none" ->          \* or the character is not the account's
            \/ player' = "loading" /\ UNCHANGED <<socket, place, recently, leaving>>
            \/ socket' = "closed" /\ player' = "loading" /\ UNCHANGED <<place, recently, leaving>>
      [] kind = "login" /\ player # "none" ->          \* KickPlayer
            socket' = "closed" /\ UNCHANGED <<player, place, recently, leaving>>
      [] kind = "enum" -> recently' = FALSE /\ UNCHANGED <<socket, player, place, leaving>>
      [] kind = "ack" -> \E m \in Places : Appear(m) /\ UNCHANGED <<socket, recently, leaving>>
      [] kind = "area" ->                              \* possibly a far teleport
            \/ UNCHANGED <<socket, player, place, recently, leaving>>
            \/ player' = "away" /\ place' = NoPlace /\ UNCHANGED <<socket, recently, leaving>>
      [] kind = "logout" ->                            \* at once, or in 20 seconds
            \/ LoggedOut /\ UNCHANGED socket
            \/ leaving' = TRUE /\ UNCHANGED <<socket, player, place, recently>>
      [] OTHER -> UNCHANGED <<socket, player, place, recently, leaving>>

\* One turn of the loop.
HandlePacket(t) ==
    /\ TakesMore(t)
    /\ LET p == Head(recv)
       IN  /\ recv' = Tail(recv)
           /\ update' = [update EXCEPT ![t].processed = @ + 1,
                             ![t].requeue = IF Requeues(p.kind) THEN Append(@, p) ELSE @]
           /\ IF Calls(p.kind)
              THEN Effect(p.kind) /\ handled' = [n |-> p.n, kind |-> p.kind, by |-> t]
              ELSE UNCHANGED <<socket, player, place, recently, leaving, handled>>
    /\ UNCHANGED <<arrived, inQueue>>

ReaddedAtBack(t) == recv \o update[t].requeue

\* LockedQueue::readd
Readded(t) == update[t].requeue \o recv

\* The rest of Update, on the session's state as one record.
State == [socket |-> socket, player |-> player, place |-> place,
          recently |-> recently, leaving |-> leaving]

\* ProcessQueryCallbacks: the character was loaded, or could not be (a kick).
AfterCallbacks(s) ==
    {s} \cup (IF s.player # "loading" THEN {}
              ELSE {[s EXCEPT !.player = "inworld", !.place = m] : m \in Places}
                     \cup {[s EXCEPT !.player = "none", !.socket = "closed"]})

\* ShouldLogOut: the 20 seconds may have passed.
AfterLogout(s) ==
    {s} \cup (IF s.leaving
              THEN {[s EXCEPT !.player = "none", !.place = NoPlace, !.recently = TRUE, !.leaving = FALSE]}
              ELSE {})

\* m_Socket is reset when it is closed and no player is left, or expireTime has
\* run out; the session is then deleted, which logs the player out.
AfterCleanup(s) ==
    LET gone == [s EXCEPT !.socket = "gone", !.player = "none", !.place = NoPlace]
    IN  IF s.socket # "closed" THEN {s}
        ELSE {gone} \cup (IF s.player \in {"inworld", "away"} THEN {s} ELSE {})

\* ProcessLogout holds for the world's thread only.
Finished(t) ==
    UNION {IF t = World THEN UNION {AfterCleanup(l) : l \in AfterLogout(c)} ELSE {c}
              : c \in AfterCallbacks(State)}

\* After the loop: the packets put back, the callbacks, the logout and the cleanup.
EndUpdate(t) ==
    /\ update[t] # NoUpdate /\ ~TakesMore(t)
    /\ recv' = Readded(t)
    /\ update' = [update EXCEPT ![t] = NoUpdate]
    /\ \E s \in Finished(t) :
          /\ socket' = s.socket /\ player' = s.player /\ place' = s.place
          /\ recently' = s.recently /\ leaving' = s.leaving
    /\ UNCHANGED <<arrived, inQueue, handled>>

\* World::RemoveQueuedPlayer lets the session pass.
PassesQueue ==
    /\ inQueue
    /\ inQueue' = FALSE
    /\ UNCHANGED <<recv, arrived, socket, player, place, recently, leaving, update, handled>>

-----------------------------------------------------------------------------
(* Properties *)

\* Packets for the player in the world are handled in the order they arrived,
\* however often they were put back before the character was loaded.
InOrder ==
    [][/\ handled # NoPacket /\ handled' # handled
       /\ handled.kind \in LoggedIn /\ handled'.kind \in LoggedIn
       => handled'.n > handled.n]_sessionVars
=============================================================================
