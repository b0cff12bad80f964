-------------------------------- MODULE Aoi ---------------------------------
(***************************************************************************)
(* The area of interest of the game world (Public/aoi): who sees whom.     *)
(*                                                                         *)
(* A space keeps one list of nodes per axis, sorted by coordinate.  An     *)
(* entity is one node.  Around an entity that watches are two range        *)
(* triggers, the area and, a little larger, its hysteresis area; each      *)
(* trigger is two hidden boundary nodes that move along with the entity.   *)
(* An entity that moves past a boundary, or a boundary that moves past an  *)
(* entity, makes the trigger decide whether the entity came in or went     *)
(* out.  Nobody ever compares positions of entities directly.              *)
(*                                                                         *)
(* Everything runs on the main thread and no callback of the repository    *)
(* moves a node, so each request is one action.  An axis is 1, 2 or 3 for  *)
(* x, y and z; the linked lists are sequences.                             *)
(***************************************************************************)
EXTENDS Integers, Sequences, FiniteSets, SequencesExt

CONSTANTS
    Entity,
    FltMax,         \* FLT_MAX: adding a range to it changes nothing
    Start,          \* the positions an entity may first have: Vector3 is
                    \* not initialized
    Step,           \* the vectors an entity may move by
    World,          \* bound: the coordinates entities move in
    Radii,          \* the pairs (radius, hysteresis) setAoiRadius is given
    FirstRadius,    \* the pair of setWitness: 5 and 1
    AoiLimit,       \* 512: the largest radius with its hysteresis
    LeaveSeen       \* bound: may an entity leave while another one sees it?

Axis == 1..3
Area == {"aoi", "hysteresis"}

ASSUME AoiAssumption ==
    /\ FltMax \in Nat /\ World \subseteq (1 - FltMax)..(FltMax - 1)
    /\ Start \subseteq [Axis -> World] /\ Step \subseteq [Axis -> Int]
    /\ Radii \union {FirstRadius} \subseteq (Nat \ {0}) \X Nat
    \* the boundaries are within the floats as well
    /\ \A r \in Radii \union {FirstRadius}, v \in World :
         v + r[1] + r[2] < FltMax /\ -FltMax < v - r[1] - r[2]
    /\ AoiLimit \in Nat /\ LeaveSeen \in BOOLEAN

EntityNode(e) == <<e, "entity", 0>>
Boundary(e, area, side) == <<e, area, side>>
Node == {EntityNode(e) : e \in Entity}
          \union {Boundary(e, a, s) : e \in Entity, a \in Area, s \in {-1, 1}}
IsEntity(n) == n[2] = "entity"

VARIABLES
    m_Entities,     \* MapManager: the entities in the space
    range_xz,       \* RangeTrigger::range_xz_, equal to range_y_
    space           \* what a request works on, a record of
                    \*   position     of every entity
                    \*   list         axis -> the nodes in order
                    \*   x, old       the node's x_, y_, z_ and old_xx_ ...
                    \*   range, oldRange   of a boundary, with its sign
                    \*   ref          aoiEntities_: "none", "enter" or "leave"
                    \*   witnesses    how often an id is in witnesses_
                    \*   inside       history: for whom the trigger called
                    \*                onEnter and not yet onLeave
                    \*   repeated     history: some trigger called onEnter
                    \*                or onLeave twice in a row for one

vars == <<m_Entities, range_xz, space>>

At(v) == [a \in Axis |-> v]

Init ==
    /\ m_Entities = {}
    /\ range_xz = [e \in Entity |->
                     [a \in Area |-> IF a = "aoi" THEN FirstRadius[1]
                                     ELSE FirstRadius[1] + FirstRadius[2]]]
    /\ \E p \in [Entity -> Start] :
         space = [position  |-> p,
                  list      |-> At(<<>>),
                  x         |-> [n \in Node |-> At(0)],
                  old       |-> [n \in Node |-> At(0)],
                  range     |-> [n \in Node |-> 0],
                  oldRange  |-> [n \in Node |-> 0],
                  ref       |-> [e \in Entity |-> [b \in Entity |-> "none"]],
                  witnesses |-> [e \in Entity |-> [b \in Entity |-> 0]],
                  inside    |-> [e \in Entity |-> [a \in Area |-> {}]],
                  repeated  |-> FALSE]

-----------------------------------------------------------------------------
(* Float addition as far as it matters. *)
Plus(v, r) == IF v \in {-FltMax, FltMax} THEN v ELSE v + r

Magnitude(r) == IF r < 0 THEN -r ELSE r

(* xx(), yy(), zz(): an entity is where it is, a boundary at its distance. *)
Coord(w, n, a) == Plus(w.position[n[1]][a], w.range[n])

IsInRange(w, b, n, a) ==
    LET origin == w.position[b[1]][a]
    IN  /\ Coord(w, n, a) >= origin - Magnitude(w.range[b])
        /\ Coord(w, n, a) <= origin + Magnitude(w.range[b])

(* On a bound, the direction of the pass tells on which side it was. *)
WasInRange(w, b, n, a, isfront) ==
    LET origin == Plus(w.old[b][a], -w.oldRange[b])
        lowerBound == Plus(origin, -Magnitude(w.oldRange[b]))
        upperBound == Plus(origin, Magnitude(w.oldRange[b]))
        o == w.old[n][a]
    IN  IF o = lowerBound THEN ~isfront
        ELSE IF o = upperBound THEN isfront
        ELSE o >= lowerBound /\ o <= upperBound

-----------------------------------------------------------------------------
(* Witness::onEnterAOI, for the watching entity e.  A reference that was   *)
(* left is taken up again; nothing ever makes one ENTITYREF_FLAG_NORMAL.   *)
OnEnterAOI(w, e, area, b) ==
    IF area = "hysteresis" \/ w.ref[e][b] = "enter" THEN w
    ELSE [w EXCEPT !.ref[e][b] = "enter", !.witnesses[b][e] = @ + 1]

(* Mutant: a reference that was left is left again. *)
DropRefTwice(w, e, b) ==
    IF w.ref[e][b] = "none" THEN w
    ELSE [w EXCEPT !.ref[e][b] = "leave", !.witnesses[b][e] = @ - 1]

(* Mutant: the entity is not told. *)
DropRefSilent(w, e, b) ==
    IF w.ref[e][b] = "none" THEN w ELSE [w EXCEPT !.ref[e][b] = "leave"]

(* _onLeaveAOI: the reference stays, without its entity. *)
DropRef(w, e, b) ==
    IF w.ref[e][b] = "none" THEN w
    ELSE [w EXCEPT !.ref[e][b] = "leave",
                   !.witnesses[b][e] = IF w.ref[e][b] = "enter" THEN 0 ELSE @]

(* Mutant: leaving the area counts, hysteresis or not. *)
OnLeaveAOIAtOnce(w, e, area, b) == DropRef(w, e, b)

(* Witness::onLeaveAOI: with a hysteresis area, only leaving that counts.  *)
OnLeaveAOI(w, e, area, b) ==
    IF area = "aoi" THEN w ELSE DropRef(w, e, b)

OnEnter(w, e, area, b) ==
    OnEnterAOI([w EXCEPT !.inside[e][area] = @ \union {b},
                         !.repeated = @ \/ b \in w.inside[e][area]], e, area, b)

OnLeave(w, e, area, b) ==
    OnLeaveAOI([w EXCEPT !.inside[e][area] = @ \ {b},
                         !.repeated = @ \/ b \notin w.inside[e][area]], e, area, b)

(* Mutant: heights are not compared. *)
OnNodePassFlat(w, b, n, a, isfront) ==
    LET was == [k \in {1, 3} |-> WasInRange(w, b, n, k, isfront)]
        is == [k \in {1, 3} |-> IsInRange(w, b, n, k)]
        wasIn == was[1] /\ was[3]
        isIn == is[1] /\ is[3]
    IN  IF b[1] = n[1] \/ a = 2 \/ (a = 1 /\ was[3] # is[3]) \/ wasIn = isIn THEN w
        ELSE IF isIn THEN OnEnter(w, b[1], b[2], n[1])
        ELSE OnLeave(w, b[1], b[2], n[1])

(* RangeTrigger::onNodePassX, Y and Z.  If a later axis changed as well,   *)
(* the pass on that axis decides.                                          *)
OnNodePass(w, b, n, a, isfront) ==
    LET was == [k \in Axis |-> WasInRange(w, b, n, k, isfront)]
        is == [k \in Axis |-> IsInRange(w, b, n, k)]
        wasIn == \A k \in Axis : was[k]
        isIn == \A k \in Axis : is[k]
    IN  IF \/ b[1] = n[1]
           \/ \E k \in a + 1..3 : was[k] # is[k]
           \/ a > 1 /\ was[a] = is[a]
           \/ wasIn = isIn
        THEN w
        ELSE IF isIn THEN OnEnter(w, b[1], b[2], n[1])
        ELSE OnLeave(w, b[1], b[2], n[1])

(* A moving node has passed another one.  Only a boundary listens, only an *)
(* entity is seen, and isfront is that the entity went to the right of the *)
(* boundary.                                                               *)
Passed(w, n, c, a) ==
    IF IsEntity(n) = IsEntity(c) THEN w
    ELSE IF IsEntity(n)
         THEN OnNodePass(w, c, n, a, w.x[c][a] < Coord(w, n, a))
         ELSE OnNodePass(w, n, c, a, w.x[c][a] > Coord(w, n, a))

(* The passes are told one after the other. *)
Tell(w, n, a, passed) ==
    LET told[k \in 0..Len(passed)] ==
          IF k = 0 THEN w ELSE Passed(told[k - 1], n, passed[k], a)
    IN  told[Len(passed)]

(* Where the node is linked in. *)
Place(l, n) == CHOOSE k \in DOMAIN l : l[k] = n

(* One axis of CoordinateSystem::update: the node goes left past all that  *)
(* are greater, or right past all that are less.                           *)
MoveOn(w, n, a) ==
    LET l == w.list[a]
        i == Place(l, n)
        xx == Coord(w, n, a)
        \* the places the node may stop at
        left == {k \in 1..i : \A j \in k..i - 1 : w.x[l[j]][a] > xx}
        right == {k \in i..Len(l) : \A j \in i + 1..k : w.x[l[j]][a] < xx}
        to == IF left # {i} THEN Min(left) ELSE Max(right)
        passed == IF to < i THEN Reverse(SubSeq(l, to, i - 1))
                  ELSE SubSeq(l, i + 1, to)
        moved == [w EXCEPT !.list[a] = InsertAt(RemoveAt(@, i), to, n)]
        told == IF to = i THEN w ELSE Tell(moved, n, a, passed)
    IN  [told EXCEPT !.x[n][a] = xx]

(* y is looked at even if it did not change. *)
UpdateOn(w, n, a) ==
    IF a # 2 /\ Coord(w, n, a) = w.old[n][a] THEN w ELSE MoveOn(w, n, a)

(* CoordinateSystem::update. *)
Update(w, n) ==
    LET done[a \in 0..3] == IF a = 0 THEN w ELSE UpdateOn(done[a - 1], n, a)
    IN  [done[3] EXCEPT !.old[n] = [a \in Axis |-> Coord(w, n, a)],
                        !.oldRange[n] = w.range[n]]

(* CoordinateSystem::insert: at the head of the lists, then to its place.  *)
InsertNode(w, n) ==
    Update([w EXCEPT !.list = [a \in Axis |-> <<n>> \o w.list[a]],
                     !.old[n] = At(-FltMax)], n)

(* releaseNodes(): the node leaves the lists and is deleted. *)
ReleaseNode(w, n) ==
    LET without(l) == RemoveAt(l, Place(l, n))
    IN  [w EXCEPT !.list = [a \in Axis |-> without(w.list[a])],
                  !.x[n] = At(0), !.old[n] = At(0), !.range[n] = 0, !.oldRange[n] = 0]

(* remove(), and releaseNodes() at the end of the request.  The node of an *)
(* entity still has its entity: xx() is where it was.  A boundary has lost *)
(* its trigger; it goes to the head and nobody hears of it.                *)
RemoveNode(w, n) ==
    LET asked == [w EXCEPT !.old[n] = w.x[n], !.x[n][1] = -FltMax]
    IN  ReleaseNode(IF IsEntity(n) THEN Update(asked, n) ELSE asked, n)

-----------------------------------------------------------------------------
(* A boundary that has been put at its entity goes to its distance, as if  *)
(* it came from far away.                                                  *)
SetBoundary(w, b, from, r) ==
    Update([w EXCEPT !.old[b] = At(from), !.range[b] = r, !.oldRange[b] = r], b)

(* RangeTrigger::install. *)
Install(w, e, area) ==
    LET r == range_xz[e][area]
        neg == Boundary(e, area, -1)
        pos == Boundary(e, area, 1)
        put == InsertNode(InsertNode(w, pos), neg)
    IN  SetBoundary(SetBoundary(put, neg, -FltMax, -r), pos, FltMax, r)

(* Witness::installAOITrigger: the hysteresis area first. *)
InstallAOITrigger(w, e) == Install(Install(w, e, "hysteresis"), e, "aoi")

Uninstall(w, e, area) ==
    LET gone == RemoveNode(RemoveNode(w, Boundary(e, area, 1)), Boundary(e, area, -1))
    IN  [gone EXCEPT !.inside[e][area] = {}]

(* The references of e go, and whom it saw is told. *)
Forget(w, e) ==
    [w EXCEPT
       !.ref[e] = [b \in Entity |-> "none"],
       !.witnesses = [b \in Entity |->
          [w.witnesses[b] EXCEPT ![e] = IF w.ref[e][b] = "enter" THEN 0 ELSE @]]]

(* Witness::onLeaveSpace: the triggers go, then all references. *)
OnLeaveSpace(w, e) == Forget(Uninstall(Uninstall(w, e, "aoi"), e, "hysteresis"), e)

-----------------------------------------------------------------------------
(* MapManager::AddEntity. *)
AddEntity(e) ==
    /\ e \notin m_Entities
    /\ m_Entities' = m_Entities \union {e}
    /\ space' = InstallAOITrigger(InsertNode(space, EntityNode(e)), e)
    /\ UNCHANGED range_xz

(* Mutant: the boundaries are not moved along. *)
MoveAlone(e, d) ==
    /\ e \in m_Entities
    /\ \A a \in Axis : space.position[e][a] + d[a] \in World
    /\ space' = Update([space EXCEPT !.position[e] = [a \in Axis |-> @[a] + d[a]]],
                       EntityNode(e))
    /\ UNCHANGED <<m_Entities, range_xz>>

(* EntityCoordinateNode::update, as Player::processRequestMove calls it:   *)
(* the entity, then its boundaries in the order they were made.            *)
(* Bound: World.                                                           *)
Move(e, d) ==
    LET with(w, area) == Update(Update(w, Boundary(e, area, 1)), Boundary(e, area, -1))
        moved == [space EXCEPT !.position[e] = [a \in Axis |-> @[a] + d[a]]]
    IN  /\ e \in m_Entities
        /\ \A a \in Axis : space.position[e][a] + d[a] \in World
        /\ space' = with(with(Update(moved, EntityNode(e)), "hysteresis"), "aoi")
        /\ UNCHANGED <<m_Entities, range_xz>>

(* MapManager::DeleteEntity.  Bound: LeaveSeen. *)
DeleteEntity(e) ==
    /\ e \in m_Entities
    /\ LeaveSeen \/ \A b \in Entity, a \in Area : e \notin space.inside[b][a]
    /\ m_Entities' = m_Entities \ {e}
    /\ space' = RemoveNode(OnLeaveSpace(space, e), EntityNode(e))
    /\ UNCHANGED range_xz

(* RangeTrigger::update: both boundaries go to the new distance. *)
Resize(w, e, area, r) ==
    LET to(v, s) == Update([v EXCEPT !.range[Boundary(e, area, s)] = s * r],
                           Boundary(e, area, s))
    IN  IF e \in m_Entities THEN to(to(w, 1), -1) ELSE w

(* Witness::setAoiRadius, above the limit: aoiRadius_ and                  *)
(* aoiHysteresisArea_ are changed, which nothing reads here, and not the   *)
(* triggers.                                                               *)
RadiusTooLarge(radius, hyst) == radius + hyst > AoiLimit /\ UNCHANGED vars

(* Witness::setAoiRadius. *)
SetAoiRadius(e, radius, hyst) ==
    /\ radius + hyst <= AoiLimit
    /\ range_xz' = [range_xz EXCEPT ![e]["aoi"] = radius,
                                    ![e]["hysteresis"] = radius + hyst]
    /\ space' = Resize(Resize(space, e, "aoi", radius), e, "hysteresis", radius + hyst)
    /\ UNCHANGED m_Entities

Next ==
    \E e \in Entity :
        \/ AddEntity(e)
        \/ \E d \in Step : Move(e, d)
        \/ DeleteEntity(e)
        \/ \E r \in Radii : SetAoiRadius(e, r[1], r[2]) \/ RadiusTooLarge(r[1], r[2])

Spec == Init /\ [][Next]_vars

-----------------------------------------------------------------------------
(* EntityCoordinateNode::entitiesInRange, a search in the lists from any   *)
(* node: entitiesInAxisRange starts at the entity findNearestNode finds    *)
(* and goes both ways to the first entity that is too far.                 *)
Entities(a) == {i \in DOMAIN space.list[a] : IsEntity(space.list[a][i])}

PositionAt(a, i) == space.position[space.list[a][i][1]][a]

FindNearestNode(a, root, o) ==
    LET es == Entities(a)
        start == Place(space.list[a], root)
        pivot == IF \E i \in es : i <= start THEN Max({i \in es : i <= start})
                 ELSE Min(es)
        before == {i \in es : i < pivot /\ PositionAt(a, i) <= o}
        after == {i \in es : i > pivot /\ PositionAt(a, i) >= o}
    IN  IF PositionAt(a, pivot) = o THEN pivot
        ELSE IF PositionAt(a, pivot) > o
             THEN IF before = {} THEN 1 ELSE Max(before)
             ELSE IF after = {} THEN Len(space.list[a]) ELSE Min(after)

(* Mutant: the search ends if the nearest itself is too far. *)
EntitiesInAxisRangeNearest(a, root, o, radius) ==
    LET near == FindNearestNode(a, root, o)
        close(i) == Magnitude(PositionAt(a, i) - o) <= radius
        between(i) == {j \in Entities(a) : j \in i..near \/ j \in near..i}
    IN  {space.list[a][i][1] : i \in {j \in Entities(a) : \A k \in between(j) : close(k)}}

EntitiesInAxisRange(a, root, o, radius) ==
    LET near == FindNearestNode(a, root, o)
        close(i) == Magnitude(PositionAt(a, i) - o) <= radius
        between(i) == {j \in Entities(a) : j \in i..near - 1 \/ j \in near + 1..i}
    IN  {space.list[a][i][1] :
           i \in {j \in Entities(a) : close(j) /\ \A k \in between(j) : close(k)}}

EntitiesInRange(root, o, radius) ==
    {e \in m_Entities : \A a \in Axis : e \in EntitiesInAxisRange(a, root, o[a], radius)}

-----------------------------------------------------------------------------
Space ==
    [position : [Entity -> [Axis -> World]],
     list : [Axis -> Seq(Node)],
     x : [Node -> [Axis -> Int]], old : [Node -> [Axis -> Int]],
     range : [Node -> Int], oldRange : [Node -> Int],
     ref : [Entity -> [Entity -> {"none", "enter", "leave"}]],
     witnesses : [Entity -> [Entity -> Nat]],
     inside : [Entity -> [Area -> SUBSET Entity]],
     repeated : BOOLEAN]

TypeOK ==
    /\ m_Entities \subseteq Entity
    /\ range_xz \in [Entity -> [Area -> Nat]]
    /\ space \in Space

(* Between two requests each list holds exactly the nodes of the entities  *)
(* that are in the space, each once, in the order of where they really     *)
(* are: no boundary lags behind its entity, and no node of an entity that  *)
(* left stays linked.                                                      *)
ListsSorted ==
    \A a \in Axis :
        LET l == space.list[a]
        IN  /\ ToSet(l) = {n \in Node : n[1] \in m_Entities}
            /\ \A i, j \in DOMAIN l : l[i] = l[j] => i = j
            /\ \A i \in DOMAIN l : space.x[l[i]][a] = Coord(space, l[i], a)
            /\ \A i \in 1..Len(l) - 1 : space.x[l[i]][a] <= space.x[l[i + 1]][a]

(* Both ends of seeing agree: b is told to move by e's eyes exactly once   *)
(* if e has a live reference to b, else not at all; and whoever is to be   *)
(* told is in the space, so that FindEntity() in processRequestMove finds  *)
(* it.                                                                     *)
WitnessesAgree ==
    \A e, b \in Entity :
        /\ space.witnesses[b][e] = IF space.ref[e][b] = "enter" THEN 1 ELSE 0
        /\ space.witnesses[b][e] > 0 => e \in m_Entities

(* Lists, positions, references and witnesses agree between two requests,  *)
(* whatever entities enter, move and leave in sight of each other.         *)
Consistent == TypeOK /\ ListsSorted /\ WitnessesAgree

Near(e, b, r) ==
    \A a \in Axis : Magnitude(space.position[e][a] - space.position[b][a]) <= r

Others(e) == m_Entities \ {e}

(* A trigger has called onEnter, and not yet onLeave, exactly for those    *)
(* that are in its range, and never called one of them twice in a row:     *)
(* "only one enter or leave" per change, whichever node moved, on whichever *)
(* axes, and also when a trigger is installed over entities or changes its *)
(* size.                                                                   *)
InsideExact ==
    /\ ~space.repeated
    /\ \A e \in m_Entities, a \in Area :
           space.inside[e][a] = {b \in Others(e) : Near(e, b, range_xz[e][a])}

(* Who is within the radius, and not just on its edge, is seen. *)
InsideSeen ==
    \A e \in m_Entities : \A b \in Others(e) :
        Near(e, b, range_xz[e]["aoi"] - 1) => space.ref[e][b] = "enter"

(* The search in the lists finds exactly the entities within the radius,   *)
(* whatever node it begins at and however many boundaries lie between.     *)
SearchExact ==
    \A root \in ToSet(space.list[1]), o \in Start,
       radius \in {FirstRadius[1], FirstRadius[2]} :
        EntitiesInRange(root, o, radius) =
            {e \in m_Entities :
               \A a \in Axis : Magnitude(space.position[e][a] - o[a]) <= radius}

(* A live reference is to an entity that is in the space. *)
NoGhost ==
    \A e, b \in Entity : space.ref[e][b] = "enter" => b \in m_Entities

-----------------------------------------------------------------------------
(* What the space promises: see AoiArea. *)
Promise == INSTANCE AoiArea WITH
    present <- m_Entities,
    position <- space.position,
    inner <- [e \in Entity |-> range_xz[e]["aoi"]],
    outer <- [e \in Entity |-> range_xz[e]["hysteresis"]],
    sees <- [e \in Entity |-> {b \in Entity : space.ref[e][b] = "enter"}]

AreaSpec == Promise!Spec
=============================================================================
