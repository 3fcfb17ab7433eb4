--------------------------- MODULE ServerEntities ---------------------------
(***************************************************************************)
(* The entities of a game on its server (xrServer) and the registries of   *)
(* the life simulation (ALife), in a single player game.  An entity that   *)
(* is online is in the map of the server and its client has an object for  *)
(* it; one that is offline exists for the simulation only.  What one entity*)
(* is to another is kept twice, as the parent of the item and among the    *)
(* children of its owner, and an entity is in up to four tables, which     *)
(* different functions keep.  Each operator below is one request or one    *)
(* switch; the events it sends to the client are appended to a queue.      *)
(*                                                                         *)
(* The children of an owner are kept in any order.  Left out: items that   *)
(* carry items, migration between clients, phantoms and respawning.        *)
(***************************************************************************)
EXTENDS Integers, SequencesExt

CONSTANTS Owners,       \* entities with an inventory (CSE_ALifeTraderAbstract)
          Items,        \* entities that can be carried
          Unsaved,      \* items the simulation never registers (bolts)
          Actor,        \* the entity of the player
          None          \* 0xffff: no parent

Ids == Owners \cup Items

ASSUME NoneAssumption    == None \notin Ids
ASSUME KindsAssumption   == Owners \cap Items = {} /\ Unsaved \subseteq Items
ASSUME ActorAssumption   == Actor \in Owners
ASSUME FiniteAssumption  == IsFiniteSet(Ids)

VARIABLES entities,     \* xrServer::entities, the entities that are online
          parent,       \* CSE_Abstract::ID_Parent
          children,     \* CSE_Abstract::children
          taken,        \* the identifiers in use, of m_tID_Generator
          registered,   \* CALifeObjectRegistry
          online,       \* registered entities whose m_bOnline is set
          levelReg,     \* CALifeLevelRegistry: what the simulation may switch
          wire          \* the events on their way to the client

registries == <<entities, parent, children, taken, registered, online, levelReg>>

(* An entity and what it carries leave or arrive together.                 *)
Whole(e) == {e} \cup children[e]

Event(type, id, owner) == [type |-> type, id |-> id, owner |-> owner]

(* What an owner carries, in the order s it is kept in, is rejected and     *)
(* destroyed piece by piece.                                               *)
Shed(e, s) ==
    [k \in 1..2 * Len(s) |->
        IF k % 2 = 1 THEN Event("reject", s[(k + 1) \div 2], e)
                     ELSE Event("destroy", s[k \div 2], None)]

(* Mutants of Departure: the owner is destroyed before what it carries;    *)
(* nothing is taken from its owner first.                                  *)
DestroysFirst(e, s) == <<Event("destroy", e, None)>> \o Shed(e, s)

NeverRejects(e, s) ==
    [k \in 1..Len(s) |-> Event("destroy", s[k], None)] \o <<Event("destroy", e, None)>>

(* The events for what e carries come before its own destruction, those of *)
(* its arrival after its own.                                              *)
Departure(e, s) ==
    Shed(e, s)
    \o (IF parent[e] = None THEN <<>> ELSE <<Event("reject", e, parent[e])>>)
    \o <<Event("destroy", e, None)>>

Arrival(e, s) ==
    <<Event("spawn", e, None)>> \o [k \in 1..Len(s) |-> Event("spawn", s[k], e)]

(* A new entity asked for by the client, whose owner must be online.  The  *)
(* simulation registers it as a free one, then the touch of its owner takes*)
(* it out of the level registry.                                           *)
ProcessSpawn(e, p) ==
    LET saved == {e} \ Unsaved IN
    /\ e \notin taken
    /\ p \in entities \cup {None}
    /\ taken' = taken \cup {e}
    /\ entities' = entities \cup {e}
    /\ parent' = [parent EXCEPT ![e] = p]
    /\ children' = [o \in Ids |-> IF o = p THEN children[o] \cup {e} ELSE children[o]]
    /\ registered' = registered \cup saved
    /\ online' = online \cup saved
    /\ levelReg' = levelReg \cup (IF p = None THEN saved ELSE {})
    /\ wire' = Append(wire, Event("spawn", e, p))

(* Mutant of ProcessOwnership: the parent of the item is not looked at.    *)
TakesFromOther(o, i) ==
    /\ {o, i} \subseteq entities
    /\ levelReg' = levelReg \ (IF {o, i} \subseteq registered THEN {i} ELSE {})
    /\ parent' = [parent EXCEPT ![i] = o]
    /\ children' = [children EXCEPT ![o] = @ \cup {i}]
    /\ wire' = Append(wire, Event("take", i, o))
    /\ UNCHANGED <<entities, taken, registered, online>>

(* GE_OWNERSHIP_TAKE and GE_TRADE_BUY: of two takers the first one wins.   *)
ProcessOwnership(o, i) ==
    /\ {o, i} \subseteq entities
    /\ parent[i] = None
    /\ levelReg' = levelReg \ (IF {o, i} \subseteq registered THEN {i} ELSE {})
    /\ parent' = [parent EXCEPT ![i] = o]
    /\ children' = [children EXCEPT ![o] = @ \cup {i}]
    /\ wire' = Append(wire, Event("take", i, o))
    /\ UNCHANGED <<entities, taken, registered, online>>

(* GE_OWNERSHIP_REJECT and GE_TRADE_SELL, sent while queue q is pending.   *)
Rejectable(o, i) == {o, i} \subseteq entities /\ i \in children[o] /\ parent[i] # None

(* Mutant of ProcessReject: the list of the owner's children keeps it.     *)
KeepsChild(o, i, q) ==
    /\ Rejectable(o, i)
    /\ levelReg' = levelReg \cup (IF {o, i} \subseteq registered THEN {i} ELSE {})
    /\ parent' = [parent EXCEPT ![i] = None]
    /\ wire' = Append(q, Event("reject", i, o))
    /\ UNCHANGED <<entities, children, taken, registered, online>>

ProcessReject(o, i, q) ==
    /\ Rejectable(o, i)
    /\ levelReg' = levelReg \cup (IF {o, i} \subseteq registered THEN {i} ELSE {})
    /\ parent' = [parent EXCEPT ![i] = None]
    /\ children' = [children EXCEPT ![o] = @ \ {i}]
    /\ wire' = Append(q, Event("reject", i, o))
    /\ UNCHANGED <<entities, taken, registered, online>>

(* The entities in gone are dropped from every table.                      *)
Erase(gone) ==
    /\ entities' = entities \ gone
    /\ taken' = taken \ gone
    /\ registered' = registered \ gone
    /\ online' = online \ gone
    /\ levelReg' = levelReg \ gone
    /\ parent' = [e \in Ids |-> IF e \in gone THEN None ELSE parent[e]]
    /\ children' = [e \in Ids |-> IF e \in gone THEN {} ELSE children[e] \ gone]

(* GE_DESTROY: one packet takes the entity from its owner, empties and     *)
(* removes it.  A request that finds no entity in the map is lost.         *)
ProcessDestroy(e) ==
    /\ e \in entities
    /\ Erase(Whole(e))
    /\ \E s \in SetToSeqs(children[e]) : wire' = wire \o Departure(e, s)

(* A script releases an entity that is offline: no event is sent.          *)
Release(e) ==
    /\ e \in registered \ online
    /\ Erase(Whole(e))
    /\ UNCHANGED wire

(* A script, or a spawn of the simulation, creates an offline entity.      *)
CreateOffline(e, o) ==
    /\ e \notin taken \cup Unsaved
    /\ o \in (registered \ online) \cup {None}
    /\ taken' = taken \cup {e}
    /\ registered' = registered \cup {e}
    /\ parent' = [parent EXCEPT ![e] = o]
    /\ children' = [p \in Ids |-> IF p = o THEN children[p] \cup {e} ELSE children[p]]
    /\ levelReg' = levelReg \cup (IF o = None THEN {e} ELSE {})
    /\ UNCHANGED <<entities, online, wire>>

(* The identifier of every entity is freed and taken again, so that it is  *)
(* the same one on the level.  An attached entity moves with its owner.    *)
SwitchOnline(e) ==
    /\ e \in levelReg \ online
    /\ parent[e] = None
    /\ entities' = entities \cup Whole(e)
    /\ online' = online \cup Whole(e)
    /\ \E s \in SetToSeqs(children[e]) : wire' = wire \o Arrival(e, s)
    /\ UNCHANGED <<parent, children, taken, registered, levelReg>>

(* Everything e carries is rejected and destroyed, then attached again     *)
(* offline, except the items the simulation does not save: they are gone.  *)
SwitchOffline(e) ==
    LET lost == children[e] \cap Unsaved IN
    /\ e \in (levelReg \cap online) \ {Actor}
    /\ parent[e] = None
    /\ entities' = entities \ Whole(e)
    /\ online' = online \ Whole(e)
    /\ taken' = taken \ lost
    /\ parent' = [c \in Ids |-> IF c \in lost THEN None ELSE parent[c]]
    /\ children' = [children EXCEPT ![e] = @ \ lost]
    /\ \E s \in SetToSeqs(children[e]) : wire' = wire \o Departure(e, s)
    /\ UNCHANGED <<registered, levelReg>>

(***************************************************************************)
(* What the tables must agree on between two requests.                     *)
(***************************************************************************)
ServerTypeOK ==
    /\ entities \subseteq taken /\ taken \subseteq Ids
    /\ parent \in [Ids -> Owners \cup {None}]
    /\ children \in [Ids -> SUBSET Items]

(* verify_entity: an item is among the children of its parent and of no    *)
(* other, and both are on the same side.                                   *)
ParentsAgree ==
    /\ \A e, o \in Ids : e \in children[o] <=> parent[e] = o
    /\ \A e \in taken : parent[e] # None =>
          parent[e] \in taken /\ (e \in entities <=> parent[e] \in entities)
    /\ \A e \in Ids \ taken : parent[e] = None

(* Every entity that is saved is in the object registry, in the level      *)
(* registry exactly while nobody carries it, and marked online exactly     *)
(* while the server has it; the others are online or gone.                 *)
RegistriesAgree ==
    /\ registered = taken \ Unsaved
    /\ online = entities \ Unsaved
    /\ levelReg = {e \in registered : parent[e] = None}
    /\ taken \cap Unsaved \subseteq entities

(* No request and no switch leaves the entities and the registries with    *)
(* different answers, what xrServer::verify_entities asks around every     *)
(* message of the client.                                                  *)
Consistent == ParentsAgree /\ RegistriesAgree
=============================================================================
