----------------------------- MODULE WorldSocket -----------------------------
(* A client's connection to the world server: the ban of its address is
   looked up, then it authenticates, then the permissions of its session are
   loaded and the session is handed to the world.  The answers of the database
   are taken by the network thread in Update; while the account is looked up,
   nothing is read.  The world's thread sends, kicks, and deletes a session
   once its socket is no longer open.                                         *)
EXTENDS Sockets

CONSTANTS MaxPackets \* bound: packets sent to one client

VARIABLES
  accepted, \* connections the acceptor has taken so far
  pointer,  \* is _worldSession set?
  session,  \* what became of the session created for the socket
  early     \* sockets rejected while the challenge was still being written

sessionVars == <<pointer, session, early>>
vars == <<newSockets, sockets, connections, closed, closing, writing, closer, bufferQueue,
          writeQueue, reading, updating, enqueued, sent, broken, accepted, query, ready, pointer, session, early>>

Init ==
  /\ SocketsInit
  /\ accepted = {} /\ early = {}
  /\ pointer = [s \in Socks |-> FALSE]
  /\ session = [s \in Socks |-> "none"]

ChallengeSize == BufferSize
ErrorSize == 1

-----------------------------------------------------------------------------
(* The acceptor and the database *)

\* Start asks for the ban, then the socket goes to the network thread.
OnSocketOpen(s) ==
  /\ s \notin accepted /\ accepted' = accepted \cup {s}
  /\ query' = [query EXCEPT ![s] = "ip"]
  /\ AddSocket(s)
  /\ UNCHANGED <<stateVars, outVars, writeVars, reading, updating, broken, ready, sessionVars>>

Answer(s) ==
  /\ query[s] # "none" /\ ~ready[s]
  /\ ready' = [ready EXCEPT ![s] = TRUE]
  /\ UNCHANGED <<threadVars, stateVars, outVars, writeVars, reading, updating, broken, accepted, query, sessionVars>>

-----------------------------------------------------------------------------
(* The network thread: results *)

\* Mutant: no response goes before the delayed close.
RejectSilently(s) ==
  /\ DelayedCloseSocket(s)
  /\ query' = [query EXCEPT ![s] = "none"]
  /\ UNCHANGED <<outVars, reading, sessionVars>>

\* An error response and a delayed close.
Reject(s) ==
  /\ Sent(s, ErrorSize) /\ DelayedCloseSocket(s)
  /\ query' = [query EXCEPT ![s] = "none"]
  /\ early' = IF writeQueue[s] = <<>> THEN early ELSE early \cup {s}
  /\ UNCHANGED <<reading, pointer, session>>

CheckIpCallback(s) ==
  \/ Reject(s)
  \/ /\ AsyncRead(s) /\ Sent(s, ChallengeSize)
     /\ query' = [query EXCEPT ![s] = "none"]
     /\ UNCHANGED <<closing, sessionVars>>

NewSession(s) ==
  /\ pointer' = [pointer EXCEPT ![s] = TRUE]
  /\ session' = [session EXCEPT ![s] = "created"]
  /\ query' = [query EXCEPT ![s] = "permissions"]
  /\ AsyncRead(s) /\ UNCHANGED <<closing, outVars, early>>

HandleAuthSessionCallback(s) == Reject(s) \/ NewSession(s)

LoadSessionPermissionsCallback(s) ==
  /\ session' = [session EXCEPT ![s] = "world"]
  /\ query' = [query EXCEPT ![s] = "none"]
  /\ UNCHANGED <<closing, outVars, reading, pointer, early>>

ProcessReadyQueries ==
  /\ NetworkFree("queries")
  /\ LET s == updating.sock IN
     IF ready[s]
     THEN /\ ready' = [ready EXCEPT ![s] = FALSE]
          /\ \/ query[s] = "ip" /\ CheckIpCallback(s)
             \/ query[s] = "account" /\ HandleAuthSessionCallback(s)
             \/ query[s] = "permissions" /\ LoadSessionPermissionsCallback(s)
     ELSE UNCHANGED <<closing, outVars, reading, query, ready, sessionVars>>
  /\ updating' = [sock |-> NoSock, step |-> "idle"]
  /\ UNCHANGED <<threadVars, closed, closer, writeVars, broken, accepted>>

-----------------------------------------------------------------------------
(* The network thread: reads *)

ReadError(s) ==
  /\ NetworkFree("idle") /\ reading[s] /\ broken[s]
  /\ reading' = [reading EXCEPT ![s] = FALSE]
  /\ CloseSocket(s, "network")
  /\ UNCHANGED <<threadVars, closing, outVars, writeVars, updating, broken, accepted, queryVars, sessionVars>>

\* The client asks for its session, at any time after reading has begun: the
\* challenge may still be queued, or be written in part.
HandleAuthSession(s) ==
  /\ session[s] = "none"
  /\ query' = [query EXCEPT ![s] = "account"]
  /\ reading' = [reading EXCEPT ![s] = FALSE]
  /\ UNCHANGED <<closed, closer>>

\* A packet for the session.  The socket is closed if there is none, by a second
\* request for one, and by what cannot be read.
QueueForSession(s) ==
  /\ \/ pointer[s] /\ AsyncRead(s) /\ UNCHANGED <<closed, closer>>
     \/ CloseSocket(s, "network") /\ reading' = [reading EXCEPT ![s] = FALSE]
  /\ UNCHANGED query

ReadHandler(s) ==
  /\ NetworkFree("idle") /\ reading[s] /\ ~broken[s]
  /\ IF IsOpen(s)
     THEN HandleAuthSession(s) \/ QueueForSession(s)
     ELSE reading' = [reading EXCEPT ![s] = FALSE] /\ UNCHANGED <<query, closed, closer>>
  /\ UNCHANGED <<threadVars, closing, outVars, writeVars, updating, broken, accepted, ready, sessionVars>>

OnClose(s, thread) ==
  /\ closer[s] = thread
  /\ closer' = [closer EXCEPT ![s] = "nobody"]
  /\ pointer' = [pointer EXCEPT ![s] = FALSE]
  /\ UNCHANGED <<threadVars, closed, closing, outVars, writeVars, reading, updating, broken, queryVars, accepted, session, early>>

-----------------------------------------------------------------------------
(* The world's thread *)

WorldFree(s) == session[s] = "world" /\ \A t \in Socks : closer[t] # "world"

SendPacket(s) ==
  /\ WorldFree(s) /\ Len(enqueued[s]) < MaxPackets
  /\ \E size \in {1, BufferSize + 1} : Sent(s, size)
  /\ UNCHANGED <<threadVars, stateVars, writeVars, reading, updating, broken, queryVars, accepted, sessionVars>>

\* Mutant: what is queued is to be written first.
KickDelayed(s) ==
  /\ WorldFree(s) /\ DelayedCloseSocket(s)
  /\ UNCHANGED <<threadVars, closed, closer, outVars, writeVars, reading, updating, broken, queryVars, accepted, sessionVars>>

KickPlayer(s) ==
  /\ WorldFree(s) /\ CloseSocket(s, "world")
  /\ UNCHANGED <<threadVars, closing, outVars, writeVars, reading, updating, broken, queryVars, accepted, sessionVars>>

\* Update finds the socket not open; the session's pointer to it goes, and
\* with it the session.
DeleteSession(s) ==
  /\ WorldFree(s) /\ ~IsOpen(s)
  /\ session' = [session EXCEPT ![s] = "deleted"]
  /\ UNCHANGED <<threadVars, stateVars, outVars, writeVars, reading, updating, broken, queryVars, accepted, pointer, early>>

-----------------------------------------------------------------------------

UpdateSocket(s) == Update(s) /\ UNCHANGED <<accepted, sessionVars>>
NetworkThread(s) ==
  \/ /\ AddNewSockets \/ UpdateWrites \/ WriteHandler(s)
     /\ UNCHANGED <<accepted, sessionVars>>
  \/ ProcessReadyQueries \/ OnClose(s, "network")

Next ==
  \E s \in Socks :
    \/ OnSocketOpen(s) \/ Answer(s)
    \/ UpdateSocket(s) \/ NetworkThread(s) \/ ReadError(s) \/ ReadHandler(s)
    \/ (Break(s) /\ UNCHANGED <<accepted, sessionVars>>)
    \/ OnClose(s, "world") \/ SendPacket(s) \/ KickPlayer(s) \/ DeleteSession(s)

Spec == Init /\ [][Next]_vars

\* The database answers, the io_service runs every handler that is due, and
\* the world's thread updates its sessions.  Clients need do nothing.
Fairness ==
  \A s \in Socks :
    /\ WF_vars(Answer(s))
    /\ WF_vars(UpdateSocket(s)) /\ WF_vars(NetworkThread(s)) /\ WF_vars(ReadError(s))
    /\ WF_vars(OnClose(s, "world")) /\ WF_vars(DeleteSession(s))

FairSpec == Spec /\ Fairness

-----------------------------------------------------------------------------
(* Properties *)

TypeOK ==
  /\ newSockets \subseteq accepted /\ sockets \subseteq accepted /\ accepted \subseteq Socks
  /\ early \subseteq Socks
  /\ connections \in 0..Cardinality(Socks)
  /\ {closed, closing, writing, reading, broken, ready, pointer} \subseteq [Socks -> BOOLEAN]
  /\ closer \in [Socks -> {"nobody", "network", "world"}]
  /\ query \in [Socks -> {"none", "ip", "account", "permissions"}]
  /\ session \in [Socks -> {"none", "created", "world", "deleted"}]
  /\ updating \in [sock : Socks \cup {NoSock}, step : {"idle", "write", "queries"}]

\* SelectThreadWithMinConnections compares true numbers: a thread counts the
\* sockets it has and those it is to have, also after closing some.
ConnectionsCounted == connections = Cardinality(newSockets) + Cardinality(sockets)

\* The client sees a prefix of what was sent, in order and without holes,
\* through packing, partial writes and writes that had to wait.
StreamIsPrefix == \A s \in Socks : IsPrefix(sent[s], Bytes(enqueued[s]))

\* "Marks the socket for closing after write buffer becomes empty": a client
\* that is rejected and still there has been told before its socket closes, if
\* nothing was being written when it was rejected.  If the challenge was, its
\* last byte may leave the write queue empty before the error response is put
\* into it: the socket closes behind the challenge, all of which has gone, and
\* the response alone is lost.
ToldBeforeClosing ==
  \A s \in Socks : closing[s] /\ closed[s] =>
    \/ broken[s]
    \/ sent[s] = Bytes(enqueued[s])
    \/ s \in early /\ sent[s] = Bytes(Front(enqueued[s]))

\* The three: nothing a socket has to do is lost or done twice.
SocketsSound == ConnectionsCounted /\ StreamIsPrefix /\ ToldBeforeClosing

\* What the network thread reaches through _worldSession is not deleted: the
\* pointer is cleared before the world's thread may delete the session, or by
\* the network thread itself before it reads again.
SessionAlive ==
  \A s \in Socks : pointer[s] => session[s] \in {"created", "world"} \/ closer[s] = "network"

\* LoadSessionPermissionsCallback uses _worldSession without a test.
SessionThere ==
  LET s == updating.sock IN
  updating.step = "queries" /\ NetworkFree("queries") /\ ready[s] /\ query[s] = "permissions" => pointer[s]

\* Both: _worldSession is there where it is used, and so is what it points to.
SessionReachable == SessionAlive /\ SessionThere

\* A socket whose peer has left is closed and forgotten.  A write error does not
\* close it, so a read must be pending, or an answer after which one will be.
BrokenForgotten == \A s \in Socks : []<>(broken[s] => s \notin sockets)

\* "1 min after socket loss, session is deleted": also one that was lost while
\* the permissions were loaded, after which nobody has the session any more.
LostSessionDeleted ==
  \A s \in Socks : session[s] # "none" /\ closed[s] ~> session[s] = "deleted"

\* A socket marked for closing does close.
ClosingEnds == \A s \in Socks : []<>(closing[s] => closed[s])

\* Both: no socket stays for ever.
SocketsGo == BrokenForgotten /\ ClosingEnds
=============================================================================
