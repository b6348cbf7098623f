---------------------------- MODULE MCWorldUpdate ----------------------------
(* Two map threads; a map without instances and a dungeon with one.  Clients
   of three sorts, each with its own kinds of packets, keep the sequences few.  *)
EXTENDS WorldUpdate

CONSTANTS field, dungeon, instance

MCInstances == [m \in BaseMaps |-> IF m = dungeon THEN {instance} ELSE {}]

Clients == {{"login", "area", "ack", "move"}, {"login", "logout", "enum"},
            {"login", "trade", "cancel"}}

VARIABLE client

MCInit == Init /\ client \in Clients /\ (inQueue => "enum" \in client)

MCNext ==
    /\ Next /\ UNCHANGED client
    /\ arrived' # arrived => recv'[Len(recv')].kind \in client

MCSpec == MCInit /\ [][MCNext]_<<vars, client>> /\ Fairness
=============================================================================
