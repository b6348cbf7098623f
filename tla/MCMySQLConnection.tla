-------------------------- MODULE MCMySQLConnection --------------------------
(* Small instances of MySQLConnection for what the documentation claims of it. *)
EXTENDS MySQLConnection, TLC

CONSTANTS a1, a2, s1, t1, t2

\* An empty transaction beside one with two statements: it takes two to tear a
\* transaction apart.
WithEmpty == t1 :> 2 @@ t2 :> 0
=============================================================================
