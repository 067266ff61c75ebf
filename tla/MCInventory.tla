---------------------------- MODULE MCInventory ----------------------------
(***************************************************************************)
(* Values for the constants of Inventory, one .cfg file per question.      *)
(***************************************************************************)
EXTENDS Inventory, TLC

\* One room of every type: a single unit to fight over.
MCRooms == [t \in Types |-> 1]

MCFeedType == [f \in Feeds |-> CHOOSE t \in Types : TRUE]

\* Requests and reservation ids are interchangeable.
Symmetry == Permutations(Workers) \cup Permutations(Res)

\* So are the room types, where no feed blocks one of them.
LockSymmetry == Symmetry \cup Permutations(Types)

\* Bound: no two requests in flight are of one kind.
Serving(ops) == {w \in Workers : req[w] # Idle /\ req[w].op \in ops}
OneOfEach ==
    \A kind \in {InsertPaths \cup {"split"}, {"amend"}, {"postNight", "postOnce"},
                 {"modify", "channelModify", "connectModify", "upgrade"}} :
        Cardinality(Serving(kind)) <= 1
=============================================================================
