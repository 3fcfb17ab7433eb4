------------------------------ MODULE Ownership ------------------------------
(***************************************************************************)
(* What the server promises of the objects of a game, whatever it does to  *)
(* bring them to the player's level and to take them away again: which     *)
(* objects exist and who carries each of them.  An object that is free may *)
(* be picked up, one that is carried may be put down, and objects leave    *)
(* only together with everything they carry.                               *)
(***************************************************************************)
CONSTANTS Ids,      \* the identifiers of objects
          None      \* the owner of an object nobody carries

VARIABLES alive,    \* the objects that exist
          owner     \* who carries an object

ownership == <<alive, owner>>

Sound == /\ alive \subseteq Ids
         /\ owner \in [Ids -> alive \cup {None}]
         /\ \A e \in Ids \ alive : owner[e] = None

Init == Sound

Create(e, o) == /\ e \in Ids \ alive
                /\ o \in alive \cup {None}
                /\ alive' = alive \cup {e}
                /\ owner' = [owner EXCEPT ![e] = o]

Take(o, e) == /\ {o, e} \subseteq alive
              /\ owner[e] = None
              /\ owner' = [owner EXCEPT ![e] = o]
              /\ UNCHANGED alive

Drop(e) == /\ e \in alive
           /\ owner[e] # None
           /\ owner' = [owner EXCEPT ![e] = None]
           /\ UNCHANGED alive

(* No object survives its owner.                                            *)
Remove(gone) == /\ \A e \in alive : owner[e] \in gone => e \in gone
                /\ alive' = alive \ gone
                /\ owner' = [e \in Ids |-> IF e \in gone THEN None ELSE owner[e]]

Next == \/ \E e \in Ids, o \in Ids \cup {None} : Create(e, o)
        \/ \E o, e \in Ids : Take(o, e)
        \/ \E e \in Ids : Drop(e)
        \/ \E gone \in SUBSET alive : Remove(gone)

Spec == Init /\ [][Next]_ownership
=============================================================================
