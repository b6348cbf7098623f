------------------------------- MODULE Sockets -------------------------------
(* What a NetworkThread does with its sockets: it takes over those the
   acceptor hands it, packs what other threads sent into buffers, writes the
   buffers as far as the kernel takes them, and drops a socket once it is
   closed.  Closing is an exchange of _closed and then OnClose; any thread may
   do it.  A byte is the number of the packet it belongs to.  What WorldSocket
   adds to Socket is in the module of that name, which holds Init and Next.   *)
EXTENDS Naturals, Sequences, SequencesExt, FiniteSets

CONSTANTS
  Socks,      \* sockets the acceptor may hand to this thread
  BufferSize, \* _sendBufferSize, 4096 in the code
  NoSock

\* A buffer has room: WorldSocketMgr starts with a positive size only.
SocketAssumption == IsFiniteSet(Socks) /\ BufferSize \in Nat \ {0}

VARIABLES
  newSockets, sockets, connections, \* of the NetworkThread
  closed, closing, writing,         \* _closed, _closing, _isWritingAsync
  closer,      \* the thread between the exchange and OnClose, if any
  bufferQueue, \* packets sent by other threads, in order
  writeQueue,  \* buffers the network thread writes
  reading,     \* is an async_read_some pending?
  updating,    \* the socket the network thread is in Update of, and where
  query,       \* the query each socket waits for, or "none"
  ready,       \* is its result there?
  enqueued,    \* all packets ever put into bufferQueue
  sent,        \* bytes the kernel has taken
  broken       \* connections the peer has left: all I/O fails from then on

threadVars == <<newSockets, sockets, connections>>
stateVars == <<closed, closing, closer>>
outVars == <<bufferQueue, enqueued>>
writeVars == <<writeQueue, writing, sent>>
queryVars == <<query, ready>>

SocketsInit ==
  /\ newSockets = {} /\ sockets = {} /\ connections = 0
  /\ closed = [s \in Socks |-> FALSE] /\ closing = closed
  /\ writing = closed /\ reading = closed /\ broken = closed
  /\ closer = [s \in Socks |-> "nobody"]
  /\ bufferQueue = [s \in Socks |-> <<>>] /\ writeQueue = bufferQueue
  /\ enqueued = bufferQueue /\ sent = bufferQueue
  /\ query = [s \in Socks |-> "none"] /\ ready = closed
  /\ updating = [sock |-> NoSock, step |-> "idle"]

IsOpen(s) == ~closed[s] /\ ~closing[s]

\* The network thread runs one handler at a time.
NetworkFree(step) ==
  /\ updating.step = step
  /\ \A s \in Socks : closer[s] # "network"

-----------------------------------------------------------------------------
(* Closing *)

\* Only the first to close a socket runs its OnClose.
CloseSocket(s, thread) ==
  /\ closed' = [closed EXCEPT ![s] = TRUE]
  /\ closer' = IF closed[s] THEN closer ELSE [closer EXCEPT ![s] = thread]

DelayedCloseSocket(s) == closing' = [closing EXCEPT ![s] = TRUE]

-----------------------------------------------------------------------------
(* Sending *)

Bytes(packets) == FlattenSeq([j \in 1..Len(packets) |-> [b \in 1..packets[j].size |-> packets[j].n]])

\* Nothing is sent to a socket that is closed or about to be.  At most one
\* packet in a step.
Sent(s, size) ==
  LET packet == [n |-> Len(enqueued[s]) + 1, size |-> size]
  IN IF IsOpen(s)
     THEN /\ bufferQueue' = [bufferQueue EXCEPT ![s] = Append(@, packet)]
          /\ enqueued' = [enqueued EXCEPT ![s] = Append(@, packet)]
     ELSE UNCHANGED outVars

\* One packet more: a buffer without room for it goes first, empty or not, and
\* one larger than any buffer follows in a buffer of its own.
Pack(acc, packet) ==
  LET full == Len(acc.buffer) + packet.size > BufferSize
      queue == IF full THEN Append(acc.queue, acc.buffer) ELSE acc.queue
      buffer == IF full THEN <<>> ELSE acc.buffer
  IN IF packet.size > BufferSize
     THEN [queue |-> Append(queue, Bytes(<<packet>>)), buffer |-> buffer]
     ELSE [queue |-> queue, buffer |-> buffer \o Bytes(<<packet>>)]

Packed(s) ==
  LET all == FoldLeft(Pack, [queue |-> writeQueue[s], buffer |-> <<>>], bufferQueue[s])
  IN IF all.buffer = <<>> THEN all.queue ELSE Append(all.queue, all.buffer)

\* The front buffer is done with, written or not; a socket marked for closing
\* closes behind the last one.
Pop(s) ==
  /\ writeQueue' = [writeQueue EXCEPT ![s] = Tail(@)]
  /\ IF closing[s] /\ Len(writeQueue[s]) = 1
     THEN CloseSocket(s, "network") ELSE UNCHANGED <<closed, closer>>

\* After an error, or when an empty buffer was written.
Dropped(s) ==
  /\ broken[s] \/ closed[s] \/ Head(writeQueue[s]) = <<>>
  /\ Pop(s) /\ UNCHANGED sent /\ writing' = [writing EXCEPT ![s] = FALSE]

\* Mutant: the part is written again.
TakenUnmarked(s, k) ==
  /\ sent' = [sent EXCEPT ![s] = @ \o SubSeq(Head(writeQueue[s]), 1, k)]
  /\ UNCHANGED writeQueue

\* The kernel takes nothing, or a part.
Taken(s, k) ==
  /\ sent' = [sent EXCEPT ![s] = @ \o SubSeq(Head(writeQueue[s]), 1, k)]
  /\ writeQueue' = [writeQueue EXCEPT ![s][1] = SubSeq(@, k + 1, Len(@))]

Partly(s) ==
  /\ ~broken[s] /\ ~closed[s]
  /\ \E k \in 0..(Len(Head(writeQueue[s])) - 1) : Taken(s, k)
  /\ writing' = [writing EXCEPT ![s] = TRUE] /\ UNCHANGED <<closed, closer>>

Whole(s) ==
  /\ ~broken[s] /\ ~closed[s] /\ Head(writeQueue[s]) # <<>>
  /\ sent' = [sent EXCEPT ![s] = @ \o Head(writeQueue[s])]
  /\ Pop(s) /\ writing' = [writing EXCEPT ![s] = FALSE]

\* HandleQueue, which asks to be called again only after a whole buffer.
HandleQueue(s, again) ==
  \/ /\ writeQueue[s] = <<>> /\ ~again
     /\ writing' = [writing EXCEPT ![s] = FALSE]
     /\ UNCHANGED <<writeQueue, sent, closed, closer>>
  \/ /\ writeQueue[s] # <<>>
     /\ \/ (Dropped(s) \/ Partly(s)) /\ ~again
        \/ Whole(s) /\ again = (Len(writeQueue[s]) > 1)

\* The kernel has room again.
WriteHandler(s) ==
  /\ NetworkFree("idle") /\ writing[s]
  /\ \E again \in BOOLEAN : HandleQueue(s, again)
  /\ UNCHANGED <<threadVars, closing, outVars, reading, updating, broken, queryVars>>

-----------------------------------------------------------------------------
(* The loop of the network thread *)

AddSocket(s) ==
  /\ newSockets' = newSockets \cup {s} /\ connections' = connections + 1
  /\ UNCHANGED sockets

AddNewSockets ==
  /\ NetworkFree("idle") /\ newSockets # {}
  /\ sockets' = sockets \cup {s \in newSockets : IsOpen(s)}
  /\ connections' = connections - Cardinality({s \in newSockets : ~IsOpen(s)})
  /\ newSockets' = {}
  /\ UNCHANGED <<stateVars, outVars, writeVars, reading, updating, broken, queryVars>>

\* Mutant: it is counted off and kept.
ForgetKept(s) == connections' = connections - 1 /\ UNCHANGED sockets

Forget(s) == sockets' = sockets \ {s} /\ connections' = connections - 1

\* Nothing to write, or a write is pending already.
WritesLater(s) == writing[s] \/ (Packed(s) = <<>> /\ ~closing[s])

\* Called every 10 ms.  A turn that would change nothing is left out.
Update(s) ==
  /\ NetworkFree("idle") /\ s \in sockets
  /\ closed[s] \/ ready[s] \/ bufferQueue[s] # <<>>
     \/ (~writing[s] /\ (closing[s] \/ writeQueue[s] # <<>>))
  /\ bufferQueue' = [bufferQueue EXCEPT ![s] = <<>>]
  /\ writeQueue' = [writeQueue EXCEPT ![s] = Packed(s)]
  /\ IF closed[s]
     THEN Forget(s) /\ UNCHANGED updating
     ELSE /\ updating' = [sock |-> s, step |-> IF WritesLater(s) THEN "queries" ELSE "write"]
          /\ UNCHANGED <<sockets, connections>>
  /\ UNCHANGED <<newSockets, stateVars, enqueued, writing, sent, reading, broken, queryVars>>

UpdateWrites ==
  /\ NetworkFree("write")
  /\ \E again \in BOOLEAN :
       /\ HandleQueue(updating.sock, again)
       /\ updating' = [updating EXCEPT !.step = IF again THEN "write" ELSE "queries"]
  /\ UNCHANGED <<threadVars, closing, outVars, reading, broken, queryVars>>

\* The peer leaves, or the connection to it is lost.
Break(s) ==
  /\ s \in sockets /\ ~broken[s] /\ broken' = [broken EXCEPT ![s] = TRUE]
  /\ UNCHANGED <<threadVars, stateVars, outVars, writeVars, reading, updating, queryVars>>

\* AsyncRead, in the terms of the state the step leaves.
AsyncRead(s) == reading' = [reading EXCEPT ![s] = IsOpen(s)]
=============================================================================
