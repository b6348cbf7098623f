----------------------------- MODULE AuthSession -----------------------------
(* The authentication server's side of a login.  A connection handles one
   command at a time: its status says which comes next, and while a query runs
   none may.  Several clients may use one account, each over one connection at a
   time; its session key, which the world server will ask for, is in the
   database.  The server's thread runs commands and callbacks one by one.  The
   arithmetic of SRP6 is abstracted to whether the password was right and to the
   key that comes out of it, a new one each time.                             *)
EXTENDS Naturals, Sequences

CONSTANTS
  Clients,   \* of one account
  MaxLogons, \* bound: keys made
  NoKey

Keys == 1..MaxLogons

LogonAssumption == MaxLogons \in Nat /\ NoKey \notin Keys

VARIABLES
  _status,    \* of each connection; "none" when there is none
  reading,    \* AsyncRead waits
  query,      \* those in _queryProcessor, and whether they have been answered
  K,          \* the key of the connection
  sessionkey, \* the account's, in the database
  lastKey,
  inbox,      \* the command that has arrived and not been handled
  client      \* what each awaits an answer to, was told last, its key, and whether it has left

serverVars == <<_status, reading, query, K>>
vars == <<_status, reading, query, K, sessionkey, lastKey, inbox, client>>

Running(sql) == [sql |-> sql, key |-> NoKey, done |-> FALSE]
Stranger == [asks |-> "none", told |-> "none", key |-> NoKey, left |-> TRUE]

Init ==
  /\ _status = [c \in Clients |-> "none"] /\ reading = [c \in Clients |-> FALSE]
  /\ query = [c \in Clients |-> <<>>] /\ K = [c \in Clients |-> NoKey]
  /\ sessionkey = NoKey /\ lastKey = 0
  /\ inbox = [c \in Clients |-> "none"] /\ client = [c \in Clients |-> Stranger]

-----------------------------------------------------------------------------
(* The client *)

Connected(c) == _status[c] # "none" /\ ~client[c].left

\* Start: the address is looked up before anything is read.
Start(c) ==
  /\ _status[c] = "none" /\ client[c].left
  /\ _status' = [_status EXCEPT ![c] = "challenge"]
  /\ query' = [query EXCEPT ![c] = <<Running("ip")>>]
  /\ client' = [client EXCEPT ![c] = [Stranger EXCEPT !.key = client[c].key, !.left = FALSE]]
  /\ UNCHANGED <<reading, K, sessionkey, lastKey, inbox>>

\* What comes next for a client that was told so.
NextCommands(c) ==
  CASE client[c].told = "none" -> {"logon"} \cup (IF client[c].key = NoKey THEN {} ELSE {"reconnect"})
    [] client[c].told = "logon" -> {"logon_proof"}
    [] client[c].told = "reconnect" -> {"reconnect_proof"}
    [] client[c].told \in {"logon_proof", "reconnect_proof", "realms"} -> {"realms"}
    [] OTHER -> {}

\* The list of realms is refreshed by a timer of the client, too.
Send(c, command) ==
  /\ Connected(c) /\ inbox[c] = "none"
  /\ \/ client[c].asks = "none" /\ command \in NextCommands(c)
     \/ client[c].asks = "realms" /\ command = "realms"
  /\ inbox' = [inbox EXCEPT ![c] = command]
  /\ client' = [client EXCEPT ![c].asks = command]
  /\ UNCHANGED <<serverVars, sessionkey, lastKey>>

Leave(c) ==
  /\ Connected(c)
  /\ client' = [client EXCEPT ![c].left = TRUE, ![c].asks = "none"]
  /\ UNCHANGED <<serverVars, sessionkey, lastKey, inbox>>

Told(c, what) == [client EXCEPT ![c].asks = "none", ![c].told = what]

\* A client whose connection is closed notices.
CloseSocket(c) ==
  /\ _status' = [_status EXCEPT ![c] = "none"] /\ reading' = [reading EXCEPT ![c] = FALSE]
  /\ query' = [query EXCEPT ![c] = <<>>] /\ K' = [K EXCEPT ![c] = NoKey]
  /\ inbox' = [inbox EXCEPT ![c] = "none"]
  /\ client' = [client EXCEPT ![c].left = TRUE, ![c].asks = "none"]
  /\ UNCHANGED <<sessionkey, lastKey>>

-----------------------------------------------------------------------------
(* The database answers; of a reconnection, with the key there is *)

Answer(c) ==
  /\ \E i \in DOMAIN query[c] :
       /\ ~query[c][i].done
       /\ query' = [query EXCEPT ![c][i].done = TRUE,
                      ![c][i].key = IF query[c][i].sql = "reconnect" THEN sessionkey ELSE NoKey]
  /\ UNCHANGED <<_status, reading, K, sessionkey, lastKey, inbox, client>>

-----------------------------------------------------------------------------
(* Commands *)

BusyStatus(command) == IF command = "realms" THEN "waiting" ELSE "closed"

\* HandleLogonChallenge, HandleReconnectChallenge, HandleRealmList; a request for
\* the list that met the last one's answer on its way is awaited from here on.
Ask(c) ==
  /\ inbox[c] \in {"logon", "reconnect", "realms"}
  /\ _status' = [_status EXCEPT ![c] = BusyStatus(inbox[c])]
  /\ query' = [query EXCEPT ![c] = Append(@, Running(inbox[c]))]
  /\ client' = IF client[c].left THEN client ELSE [client EXCEPT ![c].asks = inbox[c]]
  /\ UNCHANGED <<K, sessionkey, lastKey>>

\* Mutant: the key is put in the queue of the database, like the failed logons.
StoreLater(key) == UNCHANGED sessionkey

StoreKey(key) == sessionkey' = key

\* HandleLogonProof: a wrong password or token is told, and the status stays
\* closed.
LogonProof(c) ==
  /\ inbox[c] = "logon_proof"
  /\ \/ /\ lastKey < MaxLogons /\ lastKey' = lastKey + 1
        /\ StoreKey(lastKey')
        /\ K' = [K EXCEPT ![c] = lastKey']
        /\ client' = [Told(c, "logon_proof") EXCEPT ![c].key = lastKey']
        /\ _status' = [_status EXCEPT ![c] = "authed"]
     \/ /\ client' = Told(c, "refused")
        /\ _status' = [_status EXCEPT ![c] = "closed"]
        /\ UNCHANGED <<K, sessionkey, lastKey>>
  /\ UNCHANGED query

Proves(c) == K[c] # NoKey /\ client[c].key = K[c]

ReconnectProof(c) ==
  /\ inbox[c] = "reconnect_proof" /\ Proves(c)
  /\ client' = Told(c, "reconnect_proof")
  /\ _status' = [_status EXCEPT ![c] = "authed"]
  /\ UNCHANGED <<query, K, sessionkey, lastKey>>

Expected(command) ==
  CASE command \in {"logon", "reconnect"} -> "challenge"
    [] command = "realms" -> "authed"
    [] OTHER -> command

Refuses(c) ==
  _status[c] # Expected(inbox[c]) \/ (inbox[c] = "reconnect_proof" /\ ~Proves(c))

ReadHandler(c) ==
  /\ reading[c] /\ inbox[c] # "none"
  /\ \/ Refuses(c) /\ CloseSocket(c)
     \/ /\ ~Refuses(c)
        /\ Ask(c) \/ LogonProof(c) \/ ReconnectProof(c)
        /\ inbox' = [inbox EXCEPT ![c] = "none"]
        /\ UNCHANGED reading

\* The end of the stream, after what came before it.
ReadError(c) == reading[c] /\ inbox[c] = "none" /\ client[c].left /\ CloseSocket(c)

-----------------------------------------------------------------------------
(* Callbacks *)

\* Mutant: reading does not begin.
ReadNothing(c) == UNCHANGED reading

AsyncRead(c) == reading' = [reading EXCEPT ![c] = TRUE]

\* A banned address is told so; nothing will be read from it.
CheckIpCallback(c) ==
  /\ Head(query[c]).sql = "ip"
  /\ \/ AsyncRead(c) /\ UNCHANGED client
     \/ client' = Told(c, "banned") /\ UNCHANGED reading
  /\ UNCHANGED <<_status, K>>

\* Unknown, locked or banned accounts and wrong versions are refused.
LogonChallengeCallback(c) ==
  /\ Head(query[c]).sql = "logon"
  /\ \/ _status' = [_status EXCEPT ![c] = "logon_proof"] /\ client' = Told(c, "logon")
     \/ client' = Told(c, "refused") /\ UNCHANGED _status
  /\ UNCHANGED <<reading, K>>

\* The account is found: its client has a key of it.
ReconnectChallengeCallback(c) ==
  /\ Head(query[c]).sql = "reconnect"
  /\ K' = [K EXCEPT ![c] = Head(query[c]).key]
  /\ _status' = [_status EXCEPT ![c] = "reconnect_proof"]
  /\ client' = Told(c, "reconnect")
  /\ UNCHANGED reading

RealmListCallback(c) ==
  /\ Head(query[c]).sql = "realms"
  /\ _status' = [_status EXCEPT ![c] = "authed"]
  /\ client' = Told(c, "realms")
  /\ UNCHANGED <<reading, K>>

Update(c) ==
  /\ query[c] # <<>> /\ Head(query[c]).done
  /\ \/ CheckIpCallback(c) \/ LogonChallengeCallback(c)
     \/ ReconnectChallengeCallback(c) \/ RealmListCallback(c)
  /\ query' = [query EXCEPT ![c] = Tail(@)]
  /\ UNCHANGED <<sessionkey, lastKey, inbox>>

-----------------------------------------------------------------------------
Server(c) == ReadHandler(c) \/ ReadError(c) \/ Update(c) \/ Answer(c)

Next ==
  \E c \in Clients :
    \/ Start(c) \/ Leave(c) \/ Server(c)
    \/ \E command \in {"logon", "logon_proof", "reconnect", "reconnect_proof", "realms"} : Send(c, command)

Spec == Init /\ [][Next]_vars

\* The server's thread runs and the database answers; clients need do nothing.
FairSpec == Spec /\ \A c \in Clients : WF_vars(Server(c))

-----------------------------------------------------------------------------
(* Properties *)

TypeOK ==
  /\ _status \in [Clients -> {"none", "challenge", "logon_proof", "reconnect_proof", "authed",
                              "waiting", "closed"}]
  /\ reading \in [Clients -> BOOLEAN] /\ K \in [Clients -> Keys \cup {NoKey}]
  /\ sessionkey \in Keys \cup {NoKey} /\ lastKey \in {0} \cup Keys

\* A connection has one query at a time, and it is for what its client waits
\* for: no callback meets account details or a status that another command
\* has changed meanwhile.
QueryIsAwaited ==
  \A c \in Clients :
    /\ Len(query[c]) <= 1
    /\ \A i \in DOMAIN query[c] :
         query[c][i].sql # "ip" /\ ~client[c].left => client[c].asks = query[c][i].sql

\* A client that was told it is logged in finds its key in the database, unless
\* another one has logged in since.
KeyIsStored ==
  \A c \in Clients : client[c].key # NoKey => sessionkey # NoKey /\ sessionkey >= client[c].key

\* Both: each login has its own query and its own key.
LoginsSound == QueryIsAwaited /\ KeyIsStored

\* Every command is answered, or the connection closed.
Answered == \A c \in Clients : []<>(client[c].asks = "none")

\* A connection goes when its client has left, at whatever point of the login;
\* not if its address is banned, as nothing is read from it.
LeaversForgotten ==
  \A c \in Clients :
    []<>(client[c].left /\ client[c].told # "banned" => _status[c] = "none")

\* Both: no connection waits for ever.
LoginsEnd == Answered /\ LeaversForgotten
=============================================================================
