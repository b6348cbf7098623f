--------------------------- MODULE MCWorldSessions ---------------------------
(* Small instances of WorldSessions.                                        *)
EXTENDS WorldSessions, TLC

CONSTANTS acct1, acct2, acct3, s1, s2, s3, s4

\* Four sessions: one account logs in twice, two others once.
Relogin == s1 :> acct1 @@ s2 :> acct1 @@ s3 :> acct2 @@ s4 :> acct3
\* Nothing tells the two sessions of one account apart.
Alike == Permutations({s1, s2})
\* Two accounts, one of them twice.
Twice == s1 :> acct1 @@ s2 :> acct1 @@ s3 :> acct2

\* The limit is raised while somebody waits and no time has passed; the update is
\* never kept back.
RaisedForSomebody(n) ==
  now = 0 /\ m_QueuedPlayer # <<>> /\ SetPlayerAmountLimit(n)

MCNext ==
  \/ \E s \in Session : AddSession(s) \/ CloseSocket(s) \/ KickPlayer(s)
  \/ Tick \/ UpdateSessions \/ KickAll
  \/ \E n \in Limits : RaisedForSomebody(n)

MCFairSpec == Init /\ [][MCNext]_vars /\ WF_vars(UpdateSessions)
=============================================================================
