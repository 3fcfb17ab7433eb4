----------------------------- MODULE OnlineWorld -----------------------------
(***************************************************************************)
(* The level of the player (CLevel) beside the server of its game.  The    *)
(* client's requests are served at once, inside the call; what the server  *)
(* and the life simulation do reaches the objects of the level as events,  *)
(* which wait for the next frame.  Until then the objects are behind: they *)
(* are used, moved and destroyed by callers that see the old state.        *)
(*                                                                         *)
(* A frame: "think", the scheduled updates of the objects and one pass of  *)
(* the simulation (which runs beside the rendering of the frame before, or *)
(* in the scheduler); "drain", CLevel::ProcessGameEvents; "update", the    *)
(* UpdateCL of the objects, at whose end CObjectList::Update removes those *)
(* that were marked.                                                       *)
(***************************************************************************)
EXTENDS ServerEntities

CONSTANT MaxRequests    \* bound: the client's requests in one frame

ASSUME RequestsAssumption   == MaxRequests \in Nat

VARIABLES onLevel,      \* CObjectList::map_NETID: the client's objects
          holder,       \* H_Parent of an object of the level
          dying,        \* destroy_queue: marked by setDestroy
          removed,      \* m_bObjectRemoved: asked for its own destruction
          refused,      \* history: items not taken, whose reject is to come
          visited,      \* m_switch_counter: switched in this pass
          phase,        \* the part of the frame
          requests      \* how many requests this frame has made

client   == <<onLevel, holder, dying, removed, refused>>
frame    == <<visited, phase, requests>>
vars     == <<registries, wire, client, frame>>

(* A saved game: every entity but the player and its items is offline, and *)
(* no object of the level is behind the server.                            *)
Init ==
    /\ taken \in {S \in SUBSET (Ids \ Unsaved) : Actor \in S}
    /\ parent \in {p \in [Ids -> Owners \cup {None}] :
                      /\ \A e \in Owners \cup (Ids \ taken) : p[e] = None
                      /\ \A e \in Items : p[e] \in taken \cup {None}}
    /\ children = [o \in Ids |-> {e \in Ids : parent[e] = o}]
    /\ entities = {Actor} \cup children[Actor]
    /\ registered = taken
    /\ online = entities
    /\ levelReg = {e \in registered : parent[e] = None}
    /\ wire = <<>>
    /\ onLevel = entities
    /\ holder = [e \in Ids |-> IF e \in entities THEN parent[e] ELSE None]
    /\ dying = {} /\ removed = {} /\ refused = {} /\ visited = {}
    /\ phase = "think" /\ requests = 0

(* A new identifier: the generator hands out those that have been free the *)
(* longest, so it is one the client has nothing left of.                   *)
Fresh(e) == /\ e \notin taken \cup onLevel
            /\ \A n \in DOMAIN wire : wire[n].id # e

(***************************************************************************)
(* The requests of the objects of the level and of scripts.                *)
(***************************************************************************)
MakesRequest == /\ phase \in {"think", "update"}
                /\ requests < MaxRequests
                /\ requests' = requests + 1
                /\ UNCHANGED <<visited, phase>>

(* is_object_valid_on_svclient: the server looks at the client's object.   *)
Valid(e) == e \in onLevel \ (dying \cup removed)

RequestSpawn(e, p) == /\ MakesRequest
                      /\ Fresh(e)
                      /\ ProcessSpawn(e, p)
                      /\ UNCHANGED client

RequestTake(o, i) == /\ MakesRequest
                     /\ Valid(o) /\ Valid(i)
                     /\ ProcessOwnership(o, i)
                     /\ UNCHANGED client

RequestReject(o, i) == /\ MakesRequest
                       /\ i \in onLevel /\ holder[i] = o
                       /\ ProcessReject(o, i, wire)
                       /\ UNCHANGED client

(* CGameObject::DestroyObject asks once; the server may know the entity no *)
(* longer, because the simulation took it offline in the meantime.         *)
DestroyObject(e) ==
    /\ MakesRequest
    /\ e \in onLevel \ (removed \cup {Actor})
    /\ removed' = removed \cup {e}
    /\ IF e \in entities \ dying THEN ProcessDestroy(e)
                                 ELSE UNCHANGED <<registries, wire>>
    /\ UNCHANGED <<onLevel, holder, dying, refused>>

(* alife():release by a script, whichever side the entity is on.           *)
ScriptRelease(e) == /\ MakesRequest
                    /\ e # Actor
                    /\ \/ ProcessDestroy(e)
                       \/ Release(e)
                    /\ UNCHANGED client

ScriptCreate(e, o) == /\ MakesRequest
                      /\ Fresh(e)
                      /\ CreateOffline(e, o)
                      /\ UNCHANGED client

(* Mutant of Switch: an entity can be switched twice in a pass.            *)
SwitchesAgain(e) == /\ phase = "think"
                    /\ SwitchOnline(e) \/ SwitchOffline(e)
                    /\ UNCHANGED <<client, visited, phase, requests>>

(* One step of a pass of the simulation, which looks at each entity of the *)
(* level registry at most once; the distances that decide are left open.   *)
Switch(e) == /\ phase = "think"
             /\ e \notin visited
             /\ visited' = visited \cup {e}
             /\ SwitchOnline(e) \/ SwitchOffline(e)
             /\ UNCHANGED <<client, phase, requests>>

(***************************************************************************)
(* What the level does with the events.  Most handlers send nothing.       *)
(***************************************************************************)
Quietly == wire' = Tail(wire) /\ UNCHANGED registries

(* What is marked cannot be taken.  Whether something else is refused, for *)
(* what it is (CanTake) or for its weight, is left open.                   *)
CanTakeItem(i) == i \notin dying

(* Mutant of Take: an item that is refused is not sent back.               *)
RefusesSilently(o, i) ==
    \/ /\ CanTakeItem(i)
       /\ holder' = [holder EXCEPT ![i] = o]
       /\ Quietly /\ UNCHANGED refused
    \/ /\ refused' = refused \cup {i}
       /\ Quietly /\ UNCHANGED holder

(* GE_OWNERSHIP_TAKE reaches o: it holds i, or sends it back at once, which*)
(* the server heeds if o is still its owner there.                         *)
Take(o, i) ==
    \/ /\ CanTakeItem(i)
       /\ holder' = [holder EXCEPT ![i] = o]
       /\ Quietly /\ UNCHANGED refused
    \/ /\ refused' = refused \cup {i}
       /\ IF Rejectable(o, i) THEN ProcessReject(o, i, Tail(wire)) ELSE Quietly
       /\ UNCHANGED holder

(* g_sv_Spawn: an object whose identifier is still on the level is lost;   *)
(* one with an owner is given to it in the same call.                      *)
OnSpawn(e, p) ==
    /\ onLevel' = onLevel \cup {e}
    /\ removed' = removed \ ({e} \ onLevel)
    /\ IF e \notin onLevel /\ p \in onLevel THEN Take(p, e)
                                            ELSE Quietly /\ UNCHANGED <<holder, refused>>
    /\ UNCHANGED dying

OnTake(o, i) ==
    /\ IF {o, i} \subseteq onLevel THEN Take(o, i)
                                   ELSE Quietly /\ UNCHANGED <<holder, refused>>
    /\ UNCHANGED <<onLevel, dying, removed>>

(* The player ignores the loss of what it does not hold or of what is      *)
(* already marked; a stalker lets go of the item whoever holds it.  An item*)
(* that was refused comes by here too, with nobody to let go of it: what a *)
(* stalker's DropItem then does to its lists is left out.                  *)
OnReject(o, i) ==
    /\ Quietly
    /\ holder' = IF o \in onLevel /\ (o = Actor => holder[i] = o /\ i \notin dying)
                 THEN [holder EXCEPT ![i] = None] ELSE holder
    /\ refused' = refused \ {i}
    /\ UNCHANGED <<onLevel, dying, removed>>

(* GE_DESTROY to an object that is held is ignored, and what the marked    *)
(* object holds is marked with it.                                         *)
OnDestroy(e) ==
    /\ Quietly
    /\ dying' = IF e \in onLevel /\ holder[e] = None
                THEN dying \cup {e} \cup {i \in onLevel : holder[i] = e} ELSE dying
    /\ UNCHANGED <<onLevel, holder, removed, refused>>

ProcessGameEvent ==
    /\ phase = "drain" /\ wire # <<>>
    /\ LET m == Head(wire) IN
          \/ m.type = "spawn"   /\ OnSpawn(m.id, m.owner)
          \/ m.type = "take"    /\ OnTake(m.owner, m.id)
          \/ m.type = "reject"  /\ OnReject(m.owner, m.id)
          \/ m.type = "destroy" /\ OnDestroy(m.id)
    /\ UNCHANGED frame

(***************************************************************************)
(* The parts of a frame.                                                   *)
(***************************************************************************)
BeginDrain == /\ phase = "think"
              /\ phase' = "drain"
              /\ UNCHANGED <<registries, wire, client, visited, requests>>

EndDrain == /\ phase = "drain" /\ wire = <<>>
            /\ phase' = "update"
            /\ UNCHANGED <<registries, wire, client, visited, requests>>

(* Mutant of DestroyMarked: the queue of the marked is not cleared.        *)
KeepsQueue == /\ phase = "update"
              /\ onLevel' = onLevel \ dying
              /\ holder' = [e \in Ids |-> IF e \in dying THEN None ELSE holder[e]]
              /\ removed' = removed \ dying
              /\ phase' = "think" /\ visited' = {} /\ requests' = 0
              /\ UNCHANGED <<registries, wire, dying, refused>>

(* The end of CObjectList::Update: net_Destroy of everything marked.       *)
DestroyMarked == /\ phase = "update"
                 /\ onLevel' = onLevel \ dying
                 /\ holder' = [e \in Ids |-> IF e \in dying THEN None ELSE holder[e]]
                 /\ removed' = removed \ dying
                 /\ dying' = {}
                 /\ phase' = "think" /\ visited' = {} /\ requests' = 0
                 /\ UNCHANGED <<registries, wire, refused>>

(* An owner is brought about without one, an item with one or without.     *)
Request == \/ \E e \in Ids : DestroyObject(e) \/ ScriptRelease(e)
           \/ \E e \in Ids : RequestSpawn(e, None) \/ ScriptCreate(e, None)
           \/ \E o \in Owners, i \in Items :
                 \/ RequestSpawn(i, o) \/ ScriptCreate(i, o)
                 \/ RequestTake(o, i) \/ RequestReject(o, i)

Frame == BeginDrain \/ ProcessGameEvent \/ EndDrain \/ DestroyMarked

Next == Request \/ (\E e \in Ids : Switch(e)) \/ Frame

Spec     == Init /\ [][Next]_vars
FairSpec == Spec /\ WF_vars(Frame)

(***************************************************************************)
(* Properties.                                                             *)
(***************************************************************************)
(* The state has the expected shape: the frame's queue holds events about  *)
(* entities, and what is marked or held is on the level.                   *)
TypeOK ==
    /\ ServerTypeOK
    /\ \A n \in DOMAIN wire : wire[n] \in
          [type : {"spawn", "take", "reject", "destroy"}, id : Ids, owner : Owners \cup {None}]
    /\ onLevel \subseteq Ids /\ dying \subseteq onLevel /\ removed \subseteq onLevel
    /\ holder \in [Ids -> onLevel \cup {None}]
    /\ refused \subseteq Ids /\ visited \subseteq Ids
    /\ phase \in {"think", "drain", "update"} /\ requests \in 0 .. MaxRequests

(* Once its events are drained, the level has an object for exactly the    *)
(* entities of the server, and every object is held by the owner the server*)
(* names.  (ProcessGameEvents, the GE_ handlers of the objects.)           *)
FollowsServer ==
    wire = <<>> => /\ onLevel \ dying = entities
                   /\ \A e \in entities : holder[e] = parent[e]

(* The next event finds the level as its handler expects: an object spawned*)
(* is new, its owner alive; one taken is free; one destroyed is free; one  *)
(* rejected is held by who rejects it.  The exception is an item its taker *)
(* has refused: its reject comes back to somebody who never held it, where *)
(* VERIFY(GO->H_Parent()) of the actor's OnEvent and the VERIFYs of        *)
(* DropItem do fail; all that is claimed then is that nobody holds it, so  *)
(* that it is taken from no other owner.  (The other VERIFYs and R_ASSERTs *)
(* of the actor's and the stalker's OnEvent, "already exists" of net_Spawn,*)
(* and the guard of GE_DESTROY.)                                           *)
NeverOffTrack ==
    phase = "drain" /\ wire # <<>> =>
       LET m == Head(wire) IN
          /\ m.type = "spawn"   => m.id \notin onLevel
          /\ m.type # "spawn"   => m.id \in onLevel
          /\ m.owner # None     => m.owner \in onLevel \ dying
          /\ m.type \in {"take", "destroy"} => holder[m.id] = None
          /\ m.type = "reject"  => holder[m.id] = IF m.id \in refused THEN None ELSE m.owner

(* When a pass of the simulation comes to an entity that is offline, the   *)
(* level has no object left of it: "is offline, but is on the level" of    *)
(* try_switch_online does not happen, so no spawn meets its predecessor.   *)
(* (Of switches in a pass; teleport_object, which takes an entity offline  *)
(* from a script, is not among the requests.)                              *)
OfflineIsOffLevel ==
    phase = "think" => \A e \in levelReg \ (online \cup visited) : Whole(e) \cap onLevel = {}

(* Going online and offline changes neither what exists nor who owns it,   *)
(* except for the items that are not saved; nothing outlives its owner.    *)
World == INSTANCE Ownership WITH alive <- taken, owner <- parent
KeepsOwnership == World!Spec

(* An object that asked for its destruction leaves the level, even if the  *)
(* server no longer knew it or somebody had picked it up meanwhile.        *)
RemovedLeaves == \A e \in Ids : e \in removed ~> e \notin removed
=============================================================================
