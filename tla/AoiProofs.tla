----------------------------- MODULE AoiProofs ------------------------------
(***************************************************************************)
(* Theorems about Aoi, for any entities, positions and radii: between two  *)
(* requests the lists hold the nodes of those that are in the space, each  *)
(* once and in order, references and witnesses agree, and the search in    *)
(* the lists is exact.  Within a request the lists are out of order at the *)
(* nodes that are still to be moved; Placed says how far.                  *)
(***************************************************************************)
EXTENDS Aoi, NaturalsInduction, WellFoundedInduction, SequenceTheorems, TLAPS

(* A node is the node of an entity or one of four boundaries around it. *)
LEMMA NodeKinds ==
    /\ \A e \in Entity : /\ EntityNode(e) \in Node /\ EntityNode(e)[1] = e
                         /\ IsEntity(EntityNode(e))
    /\ \A e \in Entity, area \in Area, s \in {-1, 1} :
         /\ Boundary(e, area, s) \in Node /\ Boundary(e, area, s)[1] = e
         /\ ~IsEntity(Boundary(e, area, s))
    /\ \A n \in Node : n[1] \in Entity /\ (IsEntity(n) => n = EntityNode(n[1]))
    /\ \A n \in Node : ~IsEntity(n) =>
          n[2] \in Area /\ \E s \in {-1, 1} : n = Boundary(n[1], n[2], s)
  BY DEF Node, IsEntity, EntityNode, Boundary, Area

LEMMA SpaceParts ==
    ASSUME NEW w \in Space
    PROVE  /\ w.position \in [Entity -> [Axis -> World]]
           /\ w.list \in [Axis -> Seq(Node)]
           /\ w.x \in [Node -> [Axis -> Int]] /\ w.old \in [Node -> [Axis -> Int]]
           /\ w.range \in [Node -> Int] /\ w.oldRange \in [Node -> Int]
           /\ w.ref \in [Entity -> [Entity -> {"none", "enter", "leave"}]]
           /\ w.witnesses \in [Entity -> [Entity -> Nat]]
           /\ w.inside \in [Entity -> [Area -> SUBSET Entity]]
           /\ w.repeated \in BOOLEAN
  BY DEF Space

LEMMA WorldIs ==
    ASSUME NEW v \in World
    PROVE  FltMax \in Nat /\ v \in Int /\ v # FltMax /\ v # -FltMax
<1>1. FltMax \in Nat /\ World \subseteq (1 - FltMax)..(FltMax - 1)
  BY AoiAssumption
<1>2. v \in (1 - FltMax)..(FltMax - 1)
  BY <1>1
<1> QED
  BY <1>1, <1>2

(* Within the world, adding a range is adding. *)
LEMMA CoordIs ==
    ASSUME NEW w \in Space, NEW n \in Node, NEW a \in Axis
    PROVE  /\ Coord(w, n, a) = w.position[n[1]][a] + w.range[n]
           /\ Coord(w, n, a) \in Int
<1>1. n[1] \in Entity
  BY NodeKinds
<1>2. w.position[n[1]][a] \in World /\ w.range[n] \in Int
  BY <1>1, SpaceParts
<1>3. w.position[n[1]][a] \in Int /\ w.position[n[1]][a] \notin {-FltMax, FltMax}
  BY <1>2, WorldIs
<1> QED
  BY <1>2, <1>3 DEF Coord, Plus

-----------------------------------------------------------------------------
(* References. *)

(* Only what is seen has changed. *)
Told(v, w) ==
    /\ v \in Space /\ v.position = w.position /\ v.list = w.list
    /\ v.x = w.x /\ v.old = w.old /\ v.range = w.range /\ v.oldRange = w.oldRange

(* References and witnesses agree, and only those of M see. *)
Agree(w, M) ==
    \A e, b \in Entity :
        /\ w.witnesses[b][e] = IF w.ref[e][b] = "enter" THEN 1 ELSE 0
        /\ w.ref[e][b] = "enter" => e \in M

LEMMA InsideTold ==
    ASSUME NEW w \in Space, NEW M, Agree(w, M), NEW e \in Entity, NEW area \in Area,
           NEW s \in SUBSET Entity, NEW t \in BOOLEAN
    PROVE  LET v == [w EXCEPT !.inside[e][area] = s, !.repeated = t]
           IN  Told(v, w) /\ Agree(v, M)
<1> DEFINE v == [w EXCEPT !.inside[e][area] = s, !.repeated = t]
<1>1. v \in Space
  BY DEF Space
<1>2. Told(v, w)
  BY <1>1 DEF Told, Space
<1>3. v.ref = w.ref /\ v.witnesses = w.witnesses
  BY DEF Space
<1> HIDE DEF v
<1>4. Agree(v, M)
  BY <1>3 DEF Agree
<1> QED
  BY <1>2, <1>4 DEF v

(* A reference and its witness are written together. *)
LEMMA RefTold ==
    ASSUME NEW w \in Space, NEW M, Agree(w, M), NEW e \in Entity, NEW b \in Entity,
           NEW r \in {"enter", "leave"}, NEW k, k = (IF r = "enter" THEN 1 ELSE 0),
           r = "enter" => e \in M,
           NEW v, v = [w EXCEPT !.ref[e][b] = r, !.witnesses[b][e] = k]
    PROVE  Told(v, w) /\ Agree(v, M)
<1>0. k \in Nat
  OBVIOUS
<1>1. v \in Space
  BY <1>0 DEF Space
<1>2. Told(v, w)
  BY <1>1 DEF Told, Space
<1>3. /\ v.ref = [w.ref EXCEPT ![e][b] = r]
      /\ v.witnesses = [w.witnesses EXCEPT ![b][e] = k]
  BY DEF Space
<1>4. ASSUME NEW f \in Entity, NEW c \in Entity
      PROVE  /\ v.witnesses[c][f] = IF v.ref[f][c] = "enter" THEN 1 ELSE 0
             /\ v.ref[f][c] = "enter" => f \in M
  <2>1. CASE f = e /\ c = b
    <3>1. v.ref[f][c] = r /\ v.witnesses[c][f] = k
      BY <1>3, <2>1, SpaceParts
    <3> QED
      BY <3>1, <2>1
  <2>2. CASE ~(f = e /\ c = b)
    <3>1. v.ref[f][c] = w.ref[f][c]
      BY <1>3, <2>2, SpaceParts
    <3>2. v.witnesses[c][f] = w.witnesses[c][f]
      <4>1. w.witnesses \in [Entity -> [Entity -> Nat]]
        BY SpaceParts
      <4>2. CASE c # b
        BY <1>3, <4>1, <4>2
      <4>3. CASE c = b /\ f # e
        <5>1. v.witnesses[b] = [w.witnesses[b] EXCEPT ![e] = k]
          BY <1>3, <4>1
        <5> QED
          BY <4>1, <4>3, <5>1
      <4> QED
        BY <2>2, <4>2, <4>3
    <3> QED
      BY <3>1, <3>2 DEF Agree
  <2> QED
    BY <2>1, <2>2
<1>5. Agree(v, M)
  BY <1>4 DEF Agree
<1> QED
  BY <1>2, <1>5

LEMMA ToldTwice ==
    ASSUME NEW u, NEW v, NEW w, Told(u, v), Told(v, w)
    PROVE  Told(u, w)
  BY DEF Told

LEMMA ToldSelf ==
    ASSUME NEW w \in Space
    PROVE  Told(w, w)
  BY DEF Told

LEMMA EnterTold ==
    ASSUME NEW w \in Space, NEW M, Agree(w, M), NEW e \in Entity, e \in M,
           NEW area \in Area, NEW b \in Entity
    PROVE  Told(OnEnter(w, e, area, b), w) /\ Agree(OnEnter(w, e, area, b), M)
<1> DEFINE s == w.inside[e][area] \union {b}
           t == w.repeated \/ b \in w.inside[e][area]
           u == [w EXCEPT !.inside[e][area] = s, !.repeated = t]
           v == OnEnterAOI(u, e, area, b)
<1>1. s \in SUBSET Entity /\ t \in BOOLEAN
  BY SpaceParts
<1>2. Told(u, w) /\ Agree(u, M)
  <2> HIDE DEF s, t
  <2> QED
    BY <1>1, InsideTold
<1>3. OnEnter(w, e, area, b) = v
  BY DEF OnEnter
<1> HIDE DEF u
<1>4. u \in Space
  BY <1>2 DEF Told
<1>5. CASE area = "hysteresis" \/ u.ref[e][b] = "enter"
  BY <1>2, <1>3, <1>5 DEF OnEnterAOI
<1>6. CASE ~(area = "hysteresis" \/ u.ref[e][b] = "enter")
  <2> DEFINE k == u.witnesses[b][e] + 1
  <2>1. k = 1
    BY <1>2, <1>6 DEF Agree
  <2>2. v = [u EXCEPT !.ref[e][b] = "enter", !.witnesses[b][e] = k]
    BY <1>6 DEF OnEnterAOI
  <2> DEFINE r == "enter"
  <2>3. r \in {"enter", "leave"} /\ k = (IF r = "enter" THEN 1 ELSE 0)
        /\ (r = "enter" => e \in M)
    BY <2>1
  <2>4. v = [u EXCEPT !.ref[e][b] = r, !.witnesses[b][e] = k]
    BY <2>2
  <2> HIDE DEF k, r, v
  <2>5. Told(v, u) /\ Agree(v, M)
    BY <1>2, <1>4, <2>3, <2>4, RefTold
  <2> QED
    BY <1>2, <1>3, <2>5, ToldTwice
<1> QED
  BY <1>5, <1>6

LEMMA LeaveTold ==
    ASSUME NEW w \in Space, NEW M, Agree(w, M), NEW e \in Entity,
           NEW area \in Area, NEW b \in Entity
    PROVE  Told(OnLeave(w, e, area, b), w) /\ Agree(OnLeave(w, e, area, b), M)
<1> DEFINE s == w.inside[e][area] \ {b}
           t == w.repeated \/ b \notin w.inside[e][area]
           u == [w EXCEPT !.inside[e][area] = s, !.repeated = t]
           v == OnLeaveAOI(u, e, area, b)
<1>1. s \in SUBSET Entity /\ t \in BOOLEAN
  BY SpaceParts
<1>2. Told(u, w) /\ Agree(u, M)
  <2> HIDE DEF s, t
  <2> QED
    BY <1>1, InsideTold
<1>3. OnLeave(w, e, area, b) = v
  BY DEF OnLeave
<1> HIDE DEF u
<1>4. u \in Space
  BY <1>2 DEF Told
<1>5. CASE area = "aoi" \/ u.ref[e][b] = "none"
  BY <1>2, <1>3, <1>5 DEF OnLeaveAOI, DropRef
<1>6. CASE ~(area = "aoi" \/ u.ref[e][b] = "none")
  <2> DEFINE k == IF u.ref[e][b] = "enter" THEN 0 ELSE u.witnesses[b][e]
  <2>1. k = 0
    BY <1>2, <1>6 DEF Agree
  <2>2. v = [u EXCEPT !.ref[e][b] = "leave", !.witnesses[b][e] = k]
    BY <1>6 DEF OnLeaveAOI, DropRef
  <2> DEFINE r == "leave"
  <2>3. r \in {"enter", "leave"} /\ k = (IF r = "enter" THEN 1 ELSE 0)
        /\ (r = "enter" => e \in M)
    BY <2>1
  <2>4. v = [u EXCEPT !.ref[e][b] = r, !.witnesses[b][e] = k]
    BY <2>2
  <2> HIDE DEF k, r, v
  <2>5. Told(v, u) /\ Agree(v, M)
    BY <1>2, <1>4, <2>3, <2>4, RefTold
  <2> QED
    BY <1>2, <1>3, <2>5, ToldTwice
<1> QED
  BY <1>5, <1>6

LEMMA NodePassTold ==
    ASSUME NEW w \in Space, NEW M, Agree(w, M), NEW b \in Node, ~IsEntity(b), b[1] \in M,
           NEW n \in Node, NEW a \in Axis, NEW isfront
    PROVE  /\ Told(OnNodePass(w, b, n, a, isfront), w)
           /\ Agree(OnNodePass(w, b, n, a, isfront), M)
<1> DEFINE v == OnNodePass(w, b, n, a, isfront)
<1>1. b[1] \in Entity /\ n[1] \in Entity /\ b[2] \in Area
  BY NodeKinds
<1>2. \/ v = w \/ v = OnEnter(w, b[1], b[2], n[1]) \/ v = OnLeave(w, b[1], b[2], n[1])
  BY DEF OnNodePass
<1> SUFFICES Told(v, w) /\ Agree(v, M)
  OBVIOUS
<1> HIDE DEF v
<1>3. CASE v = w
  BY <1>3, ToldSelf
<1>4. CASE v = OnEnter(w, b[1], b[2], n[1])
  BY <1>1, <1>4, EnterTold
<1>5. CASE v = OnLeave(w, b[1], b[2], n[1])
  BY <1>1, <1>5, LeaveTold
<1> QED
  BY <1>2, <1>3, <1>4, <1>5

LEMMA PassedTold ==
    ASSUME NEW w \in Space, NEW M, Agree(w, M), NEW n \in Node, NEW c \in Node,
           ~IsEntity(n) => n[1] \in M, ~IsEntity(c) => c[1] \in M, NEW a \in Axis
    PROVE  Told(Passed(w, n, c, a), w) /\ Agree(Passed(w, n, c, a), M)
<1>1. CASE IsEntity(n) = IsEntity(c)
  BY <1>1, ToldSelf DEF Passed
<1>2. CASE IsEntity(n) /\ ~IsEntity(c)
  <2> DEFINE f == w.x[c][a] < Coord(w, n, a)
  <2>1. Passed(w, n, c, a) = OnNodePass(w, c, n, a, f)
    BY <1>2 DEF Passed, IsEntity
  <2> HIDE DEF f
  <2> QED
    BY <1>2, <2>1, NodePassTold
<1>3. CASE ~IsEntity(n) /\ IsEntity(c)
  <2> DEFINE f == w.x[c][a] > Coord(w, n, a)
  <2>1. Passed(w, n, c, a) = OnNodePass(w, n, c, a, f)
    BY <1>3 DEF Passed, IsEntity
  <2> HIDE DEF f
  <2> QED
    BY <1>3, <2>1, NodePassTold
<1> QED
  BY <1>1, <1>2, <1>3 DEF IsEntity

LEMMA LeastExists ==
    ASSUME NEW S \in SUBSET Nat, S # {}
    PROVE  \E m \in S : \A k \in S : m <= k
<1> DEFINE R == OpToRel(<, Nat)
<1>1. IsWellFoundedOn(R, Nat)
  BY NatLessThanWellFounded
<1>2. PICK m \in S : \A k \in S : <<k, m>> \notin R
  <2> HIDE DEF R
  <2> QED
    BY <1>1, WFMin
<1>3. ASSUME NEW k \in S PROVE m <= k
  <2>1. ~(k < m)
    BY <1>2 DEF OpToRel
  <2> QED
    BY <2>1
<1> QED
  BY <1>3

(* f is the function told of Tell, for the first m passes. *)
Telling(f, m, w, n, a, passed) ==
    f = [k \in 0..m |-> IF k = 0 THEN w ELSE Passed(f[k - 1], n, passed[k], a)]

LEMMA TellingExists ==
    ASSUME NEW w, NEW n, NEW a, NEW passed
    PROVE  \A m \in Nat : \E f : Telling(f, m, w, n, a, passed)
<1> DEFINE Bad == {m \in Nat : ~\E f : Telling(f, m, w, n, a, passed)}
<1>1. SUFFICES ASSUME Bad # {} PROVE FALSE
  OBVIOUS
<1>2. PICK m \in Bad : \A k \in Bad : m <= k
  <2>1. Bad \in SUBSET Nat
    OBVIOUS
  <2> HIDE DEF Bad
  <2> QED
    BY <1>1, <2>1, LeastExists
<1>3. m \in Nat /\ ~\E f : Telling(f, m, w, n, a, passed)
  BY <1>2
<1>4. CASE m = 0
  <2> DEFINE f == [k \in 0..0 |-> w]
  <2>1. Telling(f, 0, w, n, a, passed)
    BY DEF Telling
  <2> QED
    BY <1>3, <1>4, <2>1
<1>5. CASE m # 0
  <2>1. m - 1 \in Nat /\ m - 1 \notin Bad
    BY <1>2, <1>3, <1>5
  <2>2. PICK f : Telling(f, m - 1, w, n, a, passed)
    BY <2>1
  <2> DEFINE g == [k \in 0..m |-> IF k = m THEN Passed(f[m - 1], n, passed[m], a)
                                  ELSE f[k]]
             h == [k \in 0..m |-> IF k = 0 THEN w
                                  ELSE Passed(g[k - 1], n, passed[k], a)]
  <2>3. ASSUME NEW k \in 0..m PROVE g[k] = h[k]
    <3>1. CASE k = m
      <4>1. g[k] = Passed(f[m - 1], n, passed[m], a) /\ g[m - 1] = f[m - 1]
        BY <1>3, <1>5, <3>1
      <4>2. h[k] = Passed(g[m - 1], n, passed[m], a)
        BY <1>3, <1>5, <3>1
      <4> QED
        BY <4>1, <4>2
    <3>2. CASE k # m /\ k # 0
      <4>1. k \in 0..m - 1 /\ k - 1 \in 0..m /\ k - 1 # m
        BY <1>3, <3>2
      <4>2. f[k] = Passed(f[k - 1], n, passed[k], a)
        BY <2>2, <3>2, <4>1 DEF Telling
      <4>3. g[k] = f[k] /\ g[k - 1] = f[k - 1]
        BY <3>2, <4>1
      <4>4. h[k] = Passed(g[k - 1], n, passed[k], a)
        BY <3>2
      <4> QED
        BY <4>2, <4>3, <4>4
    <3>3. CASE k = 0
      <4>1. f[0] = w
        BY <2>1, <2>2 DEF Telling
      <4> QED
        BY <1>3, <1>5, <3>3, <4>1
    <3> QED
      BY <3>1, <3>2, <3>3
  <2>4. g = h
    BY <2>3
  <2>5. Telling(g, m, w, n, a, passed)
    BY <2>4 DEF Telling
  <2> QED
    BY <1>3, <2>5
<1> QED
  BY <1>4, <1>5

(* However many nodes are passed, only what is seen changes. *)
LEMMA TellTold ==
    ASSUME NEW w \in Space, NEW M, Agree(w, M), NEW n \in Node, ~IsEntity(n) => n[1] \in M,
           NEW a \in Axis, NEW passed \in Seq(Node),
           \A k \in 1..Len(passed) : ~IsEntity(passed[k]) => passed[k][1] \in M
    PROVE  Told(Tell(w, n, a, passed), w) /\ Agree(Tell(w, n, a, passed), M)
<1> DEFINE f == CHOOSE g : Telling(g, Len(passed), w, n, a, passed)
           Bad == {k \in 0..Len(passed) : ~(Told(f[k], w) /\ Agree(f[k], M))}
<1>1. Len(passed) \in Nat
  OBVIOUS
<1>2. Telling(f, Len(passed), w, n, a, passed)
  BY <1>1, TellingExists
<1>3. Tell(w, n, a, passed) = f[Len(passed)]
  BY DEF Tell, Telling
<1> HIDE DEF f
<1>4. f[0] = w
  BY <1>1, <1>2 DEF Telling
<1>5. \A k \in 1..Len(passed) : f[k] = Passed(f[k - 1], n, passed[k], a)
  BY <1>1, <1>2 DEF Telling
<1>6. ASSUME Bad # {} PROVE FALSE
  <2>1. PICK m \in Bad : \A k \in Bad : m <= k
    <3>1. Bad \in SUBSET Nat
      BY <1>1
    <3> HIDE DEF Bad
    <3> QED
      BY <1>6, <3>1, LeastExists
  <2>2. m # 0
    BY <1>4, <2>1, ToldSelf
  <2>3. m \in 1..Len(passed) /\ m - 1 \in 0..Len(passed) /\ m - 1 \notin Bad
    BY <1>1, <2>1, <2>2
  <2>4. Told(f[m - 1], w) /\ Agree(f[m - 1], M)
    BY <2>3
  <2>5. f[m - 1] \in Space
    BY <2>4 DEF Told
  <2>6. passed[m] \in Node /\ (~IsEntity(passed[m]) => passed[m][1] \in M)
    BY <2>3
  <2>7. f[m] = Passed(f[m - 1], n, passed[m], a)
    BY <1>5, <2>3
  <2>8. Told(f[m], f[m - 1]) /\ Agree(f[m], M)
    BY <2>4, <2>5, <2>6, <2>7, PassedTold
  <2> QED
    BY <2>1, <2>4, <2>8, ToldTwice
<1>7. Len(passed) \in 0..Len(passed)
  BY <1>1
<1> QED
  BY <1>3, <1>6, <1>7

-----------------------------------------------------------------------------
(* The order of the lists. *)

LEMMA MinIs ==
    ASSUME NEW S \in SUBSET Nat, S # {}
    PROVE  Min(S) \in S /\ \A k \in S : Min(S) <= k
  BY LeastExists DEF Min

LEMMA MaxIs ==
    ASSUME NEW S \in SUBSET Nat, S # {}, NEW N \in Nat, \A k \in S : k <= N
    PROVE  Max(S) \in S /\ \A k \in S : Max(S) >= k
<1> DEFINE T == {N - k : k \in S}
<1>1. T \in SUBSET Nat /\ T # {}
  <2>1. ASSUME NEW k \in S PROVE N - k \in Nat
    BY <2>1
  <2> QED
    BY <2>1
<1>2. PICK m \in T : \A k \in T : m <= k
  <2> HIDE DEF T
  <2> QED
    BY <1>1, LeastExists
<1>3. PICK s \in S : m = N - s
  BY <1>2
<1>4. ASSUME NEW k \in S PROVE s >= k
  <2>1. m <= N - k
    BY <1>2
  <2> QED
    BY <1>3, <2>1
<1> QED
  BY <1>4 DEF Max

(* r is l without its element i, or with n as its element i. *)
Without(r, l, i) ==
    /\ r \in Seq(Node) /\ Len(r) = Len(l) - 1
    /\ \A k \in 1..Len(l) - 1 : r[k] = IF k < i THEN l[k] ELSE l[k + 1]

WithIn(r, l, i, n) ==
    /\ r \in Seq(Node) /\ Len(r) = Len(l) + 1
    /\ \A k \in 1..Len(l) + 1 : r[k] = IF k < i THEN l[k] ELSE IF k = i THEN n ELSE l[k - 1]

LEMMA RemoveAtIs ==
    ASSUME NEW l \in Seq(Node), NEW i \in 1..Len(l)
    PROVE  Without(RemoveAt(l, i), l, i)
<1> DEFINE p == SubSeq(l, 1, i - 1)
           q == SubSeq(l, i + 1, Len(l))
<1>0. Len(l) \in Nat
  OBVIOUS
<1>1. /\ p \in Seq(Node) /\ Len(p) = i - 1
      /\ \A k \in 1..i - 1 : p[k] = l[k]
  <2>1. i - 1 \in 0..Len(l) /\ 1 \in 1..Len(l) + 1
    BY <1>0
  <2> QED
    BY <1>0, <2>1, SubSeqProperties
<1>2. /\ q \in Seq(Node) /\ Len(q) = Len(l) - i
      /\ \A k \in 1..Len(l) - i : q[k] = l[i + k]
  BY <1>0, SubSeqProperties
<1>3. RemoveAt(l, i) = p \o q
  BY DEF RemoveAt
<1> HIDE DEF p, q
<1>a. /\ p \o q \in Seq(Node) /\ Len(p \o q) = Len(p) + Len(q)
      /\ \A k \in 1..Len(p) + Len(q) :
           (p \o q)[k] = IF k <= Len(p) THEN p[k] ELSE q[k - Len(p)]
  BY <1>1, <1>2, ConcatProperties
<1>b. Len(p) + Len(q) = Len(l) - 1
  BY <1>0, <1>1, <1>2
<1>4. /\ p \o q \in Seq(Node) /\ Len(p \o q) = Len(l) - 1
      /\ \A k \in 1..Len(l) - 1 : (p \o q)[k] = IF k <= i - 1 THEN p[k] ELSE q[k - (i - 1)]
  BY <1>1, <1>a, <1>b
<1>5. ASSUME NEW k \in 1..Len(l) - 1
      PROVE  (p \o q)[k] = IF k < i THEN l[k] ELSE l[k + 1]
  <2>1. CASE k < i
    BY <1>0, <1>1, <1>4, <2>1
  <2>2. CASE ~(k < i)
    <3>1. k - (i - 1) \in 1..Len(l) - i /\ ~(k <= i - 1) /\ i + (k - (i - 1)) = k + 1
      BY <1>0, <2>2
    <3>2. (p \o q)[k] = q[k - (i - 1)]
      BY <1>4, <3>1
    <3> QED
      BY <1>2, <2>2, <3>1, <3>2
  <2> QED
    BY <2>1, <2>2
<1> QED
  BY <1>3, <1>4, <1>5 DEF Without

LEMMA InsertAtIs ==
    ASSUME NEW l \in Seq(Node), NEW i \in 1..Len(l) + 1, NEW n \in Node
    PROVE  WithIn(InsertAt(l, i, n), l, i, n)
<1> DEFINE p == SubSeq(l, 1, i - 1)
           q == SubSeq(l, i, Len(l))
           m == p \o <<n>>
<1>0. Len(l) \in Nat
  OBVIOUS
<1>1. /\ p \in Seq(Node) /\ Len(p) = i - 1
      /\ \A k \in 1..i - 1 : p[k] = l[k]
  <2>1. i - 1 \in 0..Len(l) /\ 1 \in 1..Len(l) + 1
    BY <1>0
  <2> QED
    BY <1>0, <2>1, SubSeqProperties
<1>2. /\ q \in Seq(Node) /\ Len(q) = Len(l) - i + 1
      /\ \A k \in 1..Len(l) - i + 1 : q[k] = l[i + k - 1]
  BY <1>0, SubSeqProperties
<1>3. InsertAt(l, i, n) = m \o q
  BY DEF InsertAt
<1> HIDE DEF p, q
<1>4. /\ m \in Seq(Node) /\ Len(m) = i
      /\ \A k \in 1..i : m[k] = IF k <= i - 1 THEN p[k] ELSE n
  BY <1>0, <1>1
<1> HIDE DEF m
<1>a. /\ m \o q \in Seq(Node) /\ Len(m \o q) = Len(m) + Len(q)
      /\ \A k \in 1..Len(m) + Len(q) :
           (m \o q)[k] = IF k <= Len(m) THEN m[k] ELSE q[k - Len(m)]
  BY <1>2, <1>4, ConcatProperties
<1>b. Len(m) + Len(q) = Len(l) + 1
  BY <1>0, <1>2, <1>4
<1>5. /\ m \o q \in Seq(Node) /\ Len(m \o q) = Len(l) + 1
      /\ \A k \in 1..Len(l) + 1 : (m \o q)[k] = IF k <= i THEN m[k] ELSE q[k - i]
  BY <1>4, <1>a, <1>b
<1>6. ASSUME NEW k \in 1..Len(l) + 1
      PROVE  (m \o q)[k] = IF k < i THEN l[k] ELSE IF k = i THEN n ELSE l[k - 1]
  <2>1. CASE k <= i
    BY <1>0, <1>1, <1>4, <1>5, <2>1
  <2>2. CASE ~(k <= i)
    <3>1. k - i \in 1..Len(l) - i + 1 /\ i + (k - i) - 1 = k - 1
      BY <1>0, <2>2
    <3>2. (m \o q)[k] = q[k - i]
      BY <1>5, <2>2
    <3>3. q[k - i] = l[k - 1]
      BY <1>2, <3>1
    <3>4. ~(k < i) /\ k # i
      BY <1>0, <2>2
    <3> QED
      BY <3>2, <3>3, <3>4
  <2> QED
    BY <2>1, <2>2
<1> QED
  BY <1>3, <1>5, <1>6 DEF WithIn

(* The list holds the nodes of S, each once. *)
Arranged(l, S) ==
    /\ l \in Seq(Node) /\ ToSet(l) = S
    /\ \A i, j \in DOMAIN l : l[i] = l[j] => i = j

(* The nodes of T are in the order of their coordinates. *)
Ordered(l, x, a, T) ==
    \A i, j \in 1..Len(l) :
        i < j /\ l[i] \in T /\ l[j] \in T => x[l[i]][a] <= x[l[j]][a]

LEMMA PlaceIs ==
    ASSUME NEW S, NEW l, Arranged(l, S), NEW n \in S
    PROVE  /\ Place(l, n) \in 1..Len(l) /\ l[Place(l, n)] = n
           /\ \A k \in 1..Len(l) : l[k] = n => k = Place(l, n)
<1>1. DOMAIN l = 1..Len(l)
  BY DEF Arranged
<1>2. \E k \in DOMAIN l : l[k] = n
  BY DEF Arranged, ToSet
<1>3. Place(l, n) \in DOMAIN l /\ l[Place(l, n)] = n
  BY <1>2 DEF Place
<1> QED
  BY <1>1, <1>3 DEF Arranged

(* What is at place i goes to place "to". *)
Shift(l, i, to) == InsertAt(RemoveAt(l, i), to, l[i])

(* Where the element of place k was before, and where that of place m is. *)
From(i, to, k) ==
    IF k = to THEN i
    ELSE LET j == IF k < to THEN k ELSE k - 1 IN IF j < i THEN j ELSE j + 1

Onto(i, to, m) ==
    IF m = i THEN to
    ELSE LET j == IF m < i THEN m ELSE m - 1 IN IF j < to THEN j ELSE j + 1

LEMMA ShiftIs ==
    ASSUME NEW l \in Seq(Node), NEW i \in 1..Len(l), NEW to \in 1..Len(l)
    PROVE  /\ Shift(l, i, to) \in Seq(Node) /\ Len(Shift(l, i, to)) = Len(l)
           /\ \A k \in 1..Len(l) :
                /\ Shift(l, i, to)[k] = l[From(i, to, k)]
                /\ From(i, to, k) \in 1..Len(l)
<1> DEFINE s == RemoveAt(l, i)
           r == Shift(l, i, to)
<1>1. s \in Seq(Node) /\ Len(s) = Len(l) - 1
      /\ \A k \in 1..Len(l) - 1 : s[k] = IF k < i THEN l[k] ELSE l[k + 1]
  <2>1. Without(s, l, i)
    BY RemoveAtIs
  <2> HIDE DEF s
  <2> QED
    BY <2>1 DEF Without
<1>2. l[i] \in Node /\ Len(l) \in Nat
  OBVIOUS
<1> HIDE DEF s
<1>3. to \in 1..Len(s) + 1 /\ Len(s) + 1 = Len(l)
  BY <1>1, <1>2
<1>4. r = InsertAt(s, to, l[i])
  BY DEF s, Shift
<1> HIDE DEF r
<1>a. WithIn(r, s, to, l[i])
  BY <1>1, <1>2, <1>3, <1>4, InsertAtIs
<1>5. /\ r \in Seq(Node) /\ Len(r) = Len(l)
      /\ \A k \in 1..Len(l) :
           r[k] = IF k < to THEN s[k] ELSE IF k = to THEN l[i] ELSE s[k - 1]
  BY <1>3, <1>a DEF WithIn
<1>6. ASSUME NEW k \in 1..Len(l)
      PROVE  r[k] = l[From(i, to, k)] /\ From(i, to, k) \in 1..Len(l)
  <2>1. CASE k = to
    BY <1>5, <2>1 DEF From
  <2>2. CASE k < to
    <3>1. r[k] = s[k] /\ k \in 1..Len(l) - 1
      BY <1>2, <1>5, <2>2
    <3> QED
      BY <1>1, <1>2, <2>2, <3>1 DEF From
  <2>3. CASE k > to
    <3>1. r[k] = s[k - 1] /\ k - 1 \in 1..Len(l) - 1
      BY <1>2, <1>5, <2>3
    <3>2. s[k - 1] = IF k - 1 < i THEN l[k - 1] ELSE l[k - 1 + 1]
      BY <1>1, <3>1
    <3> QED
      BY <1>2, <2>3, <3>1, <3>2 DEF From
  <2> QED
    BY <2>1, <2>2, <2>3
<1> QED
  BY <1>5, <1>6 DEF r

LEMMA FromIs ==
    ASSUME NEW N \in Nat, NEW i \in 1..N, NEW to \in 1..N
    PROVE  /\ \A k \in 1..N : From(i, to, k) \in 1..N
           /\ \A j, k \in 1..N : From(i, to, j) = From(i, to, k) => j = k
           /\ \A m \in 1..N : Onto(i, to, m) \in 1..N /\ From(i, to, Onto(i, to, m)) = m
<1>1. \A k \in 1..N : From(i, to, k) \in 1..N
  BY DEF From
<1>2. \A j, k \in 1..N : From(i, to, j) = From(i, to, k) => j = k
  BY DEF From
<1>3. \A m \in 1..N : Onto(i, to, m) \in 1..N /\ From(i, to, Onto(i, to, m)) = m
  BY DEF From, Onto
<1> QED
  BY <1>1, <1>2, <1>3

LEMMA ShiftArranged ==
    ASSUME NEW S, NEW l, Arranged(l, S), NEW i \in 1..Len(l), NEW to \in 1..Len(l)
    PROVE  Arranged(Shift(l, i, to), S)
<1> DEFINE r == Shift(l, i, to)
<1>0. l \in Seq(Node) /\ Len(l) \in Nat
  BY DEF Arranged
<1>1. /\ r \in Seq(Node) /\ Len(r) = Len(l)
      /\ \A k \in 1..Len(l) : r[k] = l[From(i, to, k)] /\ From(i, to, k) \in 1..Len(l)
  BY <1>0, ShiftIs
<1> SUFFICES Arranged(r, S)
  OBVIOUS
<1> HIDE DEF r
<1>2. DOMAIN r = 1..Len(l) /\ DOMAIN l = 1..Len(l)
  BY <1>0, <1>1
<1>3. ToSet(r) = ToSet(l)
  <2>1. ASSUME NEW m \in ToSet(r) PROVE m \in ToSet(l)
    BY <1>1, <1>2 DEF ToSet
  <2>2. ASSUME NEW m \in ToSet(l) PROVE m \in ToSet(r)
    <3>1. PICK j \in 1..Len(l) : m = l[j]
      BY <1>2 DEF ToSet
    <3> DEFINE k == Onto(i, to, j)
    <3>2. k \in 1..Len(l) /\ From(i, to, k) = j
      BY <1>0, FromIs
    <3> HIDE DEF k
    <3>3. m = r[k]
      BY <1>1, <3>1, <3>2
    <3> QED
      BY <1>2, <3>2, <3>3 DEF ToSet
  <2> QED
    BY <2>1, <2>2
<1>4. ASSUME NEW j \in 1..Len(l), NEW k \in 1..Len(l), r[j] = r[k] PROVE j = k
  <2>1. From(i, to, j) = From(i, to, k)
    BY <1>1, <1>2, <1>4 DEF Arranged
  <2> QED
    BY <1>0, <2>1, FromIs
<1> QED
  BY <1>1, <1>2, <1>3, <1>4 DEF Arranged

(* y is in order but for place i. *)
OrderBut(y, N, i) ==
    \A j, k \in 1..N : j < k /\ j # i /\ k # i => y[j] <= y[k]

LEMMA LeftStop ==
    ASSUME NEW N \in Nat, NEW y \in [1..N -> Int], NEW xx \in Int, NEW i \in 1..N,
           OrderBut(y, N, i), NEW to \in 1..i - 1,
           \A j \in to..i - 1 : y[j] > xx, to > 1 => y[to - 1] <= xx,
           NEW j \in 1..N, j # i
    PROVE  IF j < to THEN y[j] <= xx ELSE xx <= y[j]
<1>1. CASE j < to
  <2>1. to - 1 \in 1..N /\ to - 1 # i /\ to > 1 /\ (j = to - 1 \/ j < to - 1)
    BY <1>1
  <2> QED
    BY <1>1, <2>1 DEF OrderBut
<1>2. CASE to <= j /\ j < i
  BY <1>2
<1>3. CASE i < j
  <2>1. i - 1 \in 1..N /\ i - 1 < j /\ i - 1 # i /\ i - 1 \in to..i - 1
    BY <1>3
  <2>2. y[i - 1] <= y[j] /\ y[i - 1] > xx
    BY <2>1 DEF OrderBut
  <2> QED
    BY <1>3, <2>1, <2>2
<1> QED
  BY <1>1, <1>2, <1>3

LEMMA RightStop ==
    ASSUME NEW N \in Nat, NEW y \in [1..N -> Int], NEW xx \in Int, NEW i \in 1..N,
           OrderBut(y, N, i), NEW to \in i..N,
           \A j \in i + 1..to : y[j] < xx, to < N => xx <= y[to + 1],
           i > 1 => y[i - 1] <= xx
    PROVE  \A j \in 1..N \ {i} : IF j <= to THEN y[j] <= xx ELSE xx <= y[j]
<1> TAKE j \in 1..N \ {i}
<1>1. CASE j < i
  <2>1. i - 1 \in 1..N /\ i - 1 # i /\ i > 1 /\ (j = i - 1 \/ j < i - 1)
    BY <1>1
  <2> QED
    BY <1>1, <2>1 DEF OrderBut
<1>2. CASE i < j /\ j <= to
  BY <1>2
<1>3. CASE to < j
  <2>1. to + 1 \in 1..N /\ to + 1 # i /\ to < N /\ (j = to + 1 \/ to + 1 < j)
    BY <1>3
  <2> QED
    BY <1>3, <2>1 DEF OrderBut
<1> QED
  BY <1>1, <1>2, <1>3

(* The places of MoveOn the node may stop at. *)
LeftPlaces(y, i, xx) == {k \in 1..i : \A j \in k..i - 1 : y[j] > xx}
RightPlaces(y, N, i, xx) == {k \in i..N : \A j \in i + 1..k : y[j] < xx}

StopPlace(y, N, i, xx) ==
    IF LeftPlaces(y, i, xx) # {i} THEN Min(LeftPlaces(y, i, xx))
    ELSE Max(RightPlaces(y, N, i, xx))

LEMMA LeftEnd ==
    ASSUME NEW N \in Nat, NEW y \in [1..N -> Int], NEW xx \in Int, NEW i \in 1..N,
           NEW left, left = LeftPlaces(y, i, xx)
    PROVE  /\ left = {i} /\ i > 1 => y[i - 1] <= xx
           /\ left # {i} => /\ Min(left) \in 1..i - 1
                            /\ \A j \in Min(left)..i - 1 : y[j] > xx
                            /\ Min(left) > 1 => y[Min(left) - 1] <= xx
<1>0. \A k : k \in left <=> k \in 1..i /\ \A j \in k..i - 1 : y[j] > xx
  BY DEF LeftPlaces
<1>1. i \in left /\ left \in SUBSET Nat
  BY <1>0
<1>2. ASSUME left = {i}, i > 1 PROVE y[i - 1] <= xx
  <2>1. i - 1 \notin left /\ i - 1 \in 1..i
    BY <1>2
  <2>2. PICK j \in i - 1..i - 1 : ~(y[j] > xx)
    BY <1>0, <2>1
  <2>3. j = i - 1 /\ y[i - 1] \in Int
    BY <1>2
  <2> QED
    BY <2>2, <2>3
<1>3. ASSUME left # {i}
      PROVE  /\ Min(left) \in 1..i - 1
             /\ \A j \in Min(left)..i - 1 : y[j] > xx
             /\ Min(left) > 1 => y[Min(left) - 1] <= xx
  <2> DEFINE to == Min(left)
  <2>1. to \in left /\ \A k \in left : to <= k
    BY <1>1, MinIs
  <2> HIDE DEF to
  <2>2. PICK k \in left : k # i
    BY <1>1, <1>3
  <2>3. to \in 1..i /\ k \in 1..i /\ to <= k /\ \A j \in to..i - 1 : y[j] > xx
    BY <1>0, <2>1, <2>2
  <2>4. to \in 1..i - 1
    BY <2>2, <2>3
  <2>5. ASSUME to > 1 PROVE y[to - 1] <= xx
    <3>1. to - 1 \notin left /\ to - 1 \in 1..i
      BY <2>1, <2>4, <2>5
    <3>2. PICK j \in to - 1..i - 1 : ~(y[j] > xx)
      BY <1>0, <3>1
    <3>3. j = to - 1 /\ y[to - 1] \in Int
      BY <2>3, <2>4, <2>5, <3>2
    <3> QED
      BY <3>2, <3>3
  <2> QED
    BY <2>3, <2>4, <2>5 DEF to
<1> QED
  BY <1>2, <1>3

LEMMA RightEnd ==
    ASSUME NEW N \in Nat, NEW y \in [1..N -> Int], NEW xx \in Int, NEW i \in 1..N,
           NEW right, right = RightPlaces(y, N, i, xx)
    PROVE  /\ Max(right) \in i..N /\ \A j \in i + 1..Max(right) : y[j] < xx
           /\ Max(right) < N => xx <= y[Max(right) + 1]
<1> DEFINE to == Max(right)
<1>0. \A k : k \in right <=> k \in i..N /\ \A j \in i + 1..k : y[j] < xx
  BY DEF RightPlaces
<1>1. i \in right /\ right \in SUBSET Nat /\ \A k \in right : k <= N
  BY <1>0
<1>2. to \in right /\ \A k \in right : to >= k
  BY <1>1, MaxIs
<1> HIDE DEF to
<1>3. to \in i..N /\ \A j \in i + 1..to : y[j] < xx
  BY <1>0, <1>2
<1>4. ASSUME to < N PROVE xx <= y[to + 1]
  <2>0. to + 1 \in i..N /\ ~(to >= to + 1)
    BY <1>3, <1>4
  <2>1. to + 1 \notin right
    BY <1>2, <2>0
  <2>2. PICK j \in i + 1..to + 1 : ~(y[j] < xx)
    BY <1>0, <2>0, <2>1
  <2>3. j = to + 1 /\ y[to + 1] \in Int
    BY <1>3, <1>4, <2>2
  <2> QED
    BY <2>2, <2>3
<1> QED
  BY <1>3, <1>4 DEF to

(* The place where the walk to the left, or else to the right, ends:       *)
(* those that are then before the node are not greater, those after it not *)
(* less.                                                                   *)
LEMMA StopsAt ==
    ASSUME NEW N \in Nat, NEW y \in [1..N -> Int], NEW xx \in Int, NEW i \in 1..N,
           OrderBut(y, N, i)
    PROVE  LET to == StopPlace(y, N, i, xx)
           IN  /\ to \in 1..N
               /\ \A j \in 1..N \ {i} :
                    IF j < to \/ (j = to /\ i < to) THEN y[j] <= xx ELSE xx <= y[j]
<1> DEFINE left == LeftPlaces(y, i, xx)
           right == RightPlaces(y, N, i, xx)
           to == StopPlace(y, N, i, xx)
<1>0. to = IF left # {i} THEN Min(left) ELSE Max(right)
  BY DEF StopPlace
<1> SUFFICES /\ to \in 1..N
             /\ \A j \in 1..N \ {i} :
                  IF j < to \/ (j = to /\ i < to) THEN y[j] <= xx ELSE xx <= y[j]
  OBVIOUS
<1>l. left = LeftPlaces(y, i, xx) /\ right = RightPlaces(y, N, i, xx)
  OBVIOUS
<1> HIDE DEF to, left, right
<1>1. CASE left # {i}
  <2>1. to \in 1..i - 1 /\ (\A j \in to..i - 1 : y[j] > xx) /\ (to > 1 => y[to - 1] <= xx)
    BY <1>0, <1>1, <1>l, LeftEnd
  <2>2. ASSUME NEW j \in 1..N, j # i PROVE IF j < to THEN y[j] <= xx ELSE xx <= y[j]
    BY <2>1, <2>2, LeftStop
  <2>3. ASSUME NEW j \in 1..N \ {i}
        PROVE  IF j < to \/ (j = to /\ i < to) THEN y[j] <= xx ELSE xx <= y[j]
    <3>1. ~(i < to) /\ j \in 1..N /\ j # i
      BY <2>1
    <3>2. IF j < to THEN y[j] <= xx ELSE xx <= y[j]
      BY <2>2, <3>1
    <3> QED
      BY <3>1, <3>2
  <2> QED
    BY <2>1, <2>3
<1>2. CASE left = {i}
  <2>1. i > 1 => y[i - 1] <= xx
    BY <1>2, <1>l, LeftEnd
  <2>2. to = Max(right)
    BY <1>0, <1>2
  <2>3. to \in i..N /\ (\A j \in i + 1..to : y[j] < xx) /\ (to < N => xx <= y[to + 1])
    BY <1>l, <2>2, RightEnd
  <2>4. \A j \in 1..N \ {i} : IF j <= to THEN y[j] <= xx ELSE xx <= y[j]
    BY <2>1, <2>3, RightStop
  <2>5. ASSUME NEW j \in 1..N \ {i}
        PROVE  IF j < to \/ (j = to /\ i < to) THEN y[j] <= xx ELSE xx <= y[j]
    <3>1. (j < to \/ (j = to /\ i < to)) <=> j <= to
      BY <2>3
    <3>2. IF j <= to THEN y[j] <= xx ELSE xx <= y[j]
      BY <2>4
    <3> QED
      BY <3>1, <3>2
  <2> QED
    BY <2>3, <2>5
<1> QED
  BY <1>1, <1>2

(* Place i may become "to": what is then before it is not greater than xx, *)
(* what is after it not less.                                              *)
IsStop(l, x, a, xx, i, to) ==
    \A j \in 1..Len(l) \ {i} :
        IF j < to \/ (j = to /\ i < to) THEN x[l[j]][a] <= xx ELSE xx <= x[l[j]][a]

LEMMA FromOrder ==
    ASSUME NEW N \in Nat, NEW i \in 1..N, NEW to \in 1..N,
           NEW p \in 1..N, NEW q \in 1..N, p < q
    PROVE  /\ p # to /\ q # to => /\ From(i, to, p) < From(i, to, q)
                                  /\ From(i, to, p) # i /\ From(i, to, q) # i
           /\ p = to => /\ From(i, to, p) = i /\ From(i, to, q) # i
                        /\ ~(From(i, to, q) < to \/ (From(i, to, q) = to /\ i < to))
           /\ q = to => /\ From(i, to, q) = i /\ From(i, to, p) # i
                        /\ From(i, to, p) < to \/ (From(i, to, p) = to /\ i < to)
  BY DEF From

LEMMA ShiftOrdered ==
    ASSUME NEW S, NEW l, Arranged(l, S), NEW x, NEW x2, NEW a, NEW i \in 1..Len(l),
           NEW to \in 1..Len(l), NEW xx, Ordered(l, x, a, S \ {l[i]}),
           IsStop(l, x, a, xx, i, to),
           x2[l[i]][a] = xx, \A m \in S \ {l[i]} : x2[m][a] = x[m][a]
    PROVE  Ordered(Shift(l, i, to), x2, a, S)
<1> DEFINE r == Shift(l, i, to)
           f(k) == From(i, to, k)
<1>0. l \in Seq(Node) /\ Len(l) \in Nat /\ DOMAIN l = 1..Len(l)
  BY DEF Arranged
<1>1. Len(r) = Len(l) /\ \A k \in 1..Len(l) : r[k] = l[f(k)] /\ f(k) \in 1..Len(l)
  BY <1>0, ShiftIs
<1> HIDE DEF r
<1>2. ASSUME NEW j \in 1..Len(l), j # i PROVE l[j] \in S \ {l[i]}
  BY <1>0, <1>2 DEF Arranged, ToSet
<1>3. ASSUME NEW p \in 1..Len(l), NEW q \in 1..Len(l), p < q
      PROVE  x2[r[p]][a] <= x2[r[q]][a]
  <2> DEFINE j == f(p)
             k == f(q)
  <2>1. j \in 1..Len(l) /\ k \in 1..Len(l) /\ r[p] = l[j] /\ r[q] = l[k]
    BY <1>1
  <2>2. /\ p # to /\ q # to => j < k /\ j # i /\ k # i
        /\ p = to => j = i /\ k # i /\ ~(k < to \/ (k = to /\ i < to))
        /\ q = to => k = i /\ j # i /\ (j < to \/ (j = to /\ i < to))
    <3> DEFINE N == Len(l)
    <3>1. N \in Nat /\ i \in 1..N /\ to \in 1..N /\ p \in 1..N /\ q \in 1..N /\ p < q
      BY <1>0, <1>3
    <3> HIDE DEF N
    <3> QED
      BY <3>1, FromOrder
  <2> HIDE DEF j, k
  <2>3. CASE p # to /\ q # to
    <3>1. j < k /\ j # i /\ k # i
      BY <2>2, <2>3
    <3>2. l[j] \in S \ {l[i]} /\ l[k] \in S \ {l[i]}
      BY <1>2, <2>1, <3>1
    <3>3. x[l[j]][a] <= x[l[k]][a]
      BY <2>1, <3>1, <3>2 DEF Ordered
    <3> QED
      BY <2>1, <3>2, <3>3
  <2>4. CASE p = to
    <3>1. j = i /\ k # i /\ ~(k < to \/ (k = to /\ i < to))
      BY <2>2, <2>4
    <3>2. xx <= x[l[k]][a]
      BY <2>1, <3>1 DEF IsStop
    <3>3. x2[l[k]][a] = x[l[k]][a]
      BY <1>2, <2>1, <3>1
    <3> QED
      BY <2>1, <3>1, <3>2, <3>3
  <2>5. CASE q = to
    <3>1. k = i /\ j # i /\ (j < to \/ (j = to /\ i < to))
      BY <2>2, <2>5
    <3>2. x[l[j]][a] <= xx
      BY <2>1, <3>1 DEF IsStop
    <3>3. x2[l[j]][a] = x[l[j]][a]
      BY <1>2, <2>1, <3>1
    <3> QED
      BY <2>1, <3>1, <3>2, <3>3
  <2> QED
    BY <2>3, <2>4, <2>5
<1>4. Ordered(r, x2, a, S)
  BY <1>1, <1>3 DEF Ordered
<1> QED
  BY <1>4 DEF r

LEMMA StayOrdered ==
    ASSUME NEW S, NEW l, Arranged(l, S), NEW x, NEW x2, NEW a, NEW i \in 1..Len(l),
           NEW xx, Ordered(l, x, a, S \ {l[i]}), IsStop(l, x, a, xx, i, i),
           x2[l[i]][a] = xx, \A m \in S \ {l[i]} : x2[m][a] = x[m][a]
    PROVE  Ordered(l, x2, a, S)
<1>0. l \in Seq(Node) /\ Len(l) \in Nat /\ DOMAIN l = 1..Len(l)
  BY DEF Arranged
<1>2. ASSUME NEW j \in 1..Len(l), j # i PROVE l[j] \in S \ {l[i]}
  BY <1>0, <1>2 DEF Arranged, ToSet
<1>3. ASSUME NEW j \in 1..Len(l), NEW k \in 1..Len(l), j < k
      PROVE  x2[l[j]][a] <= x2[l[k]][a]
  <2>3. CASE j # i /\ k # i
    <3>2. l[j] \in S \ {l[i]} /\ l[k] \in S \ {l[i]}
      BY <1>2, <2>3
    <3>3. x[l[j]][a] <= x[l[k]][a]
      BY <1>3, <3>2 DEF Ordered
    <3> QED
      BY <3>2, <3>3
  <2>4. CASE j = i
    <3>1. k # i /\ ~(k < i) /\ ~(k = i /\ i < i)
      BY <1>3, <2>4
    <3>2. xx <= x[l[k]][a]
      BY <3>1 DEF IsStop
    <3> QED
      BY <1>2, <2>4, <3>1, <3>2
  <2>5. CASE k = i
    <3>1. j # i /\ j < i
      BY <1>3, <2>5
    <3>2. x[l[j]][a] <= xx
      BY <3>1 DEF IsStop
    <3> QED
      BY <1>2, <2>5, <3>1, <3>2
  <2> QED
    BY <2>3, <2>4, <2>5
<1> QED
  BY <1>3 DEF Ordered

(* The lists hold the nodes of S, and whoever watches is in M. *)
Linked(w, S, M) ==
    /\ w \in Space /\ S \subseteq Node
    /\ \A a \in Axis : Arranged(w.list[a], S)
    /\ \A m \in S : ~IsEntity(m) => m[1] \in M
    /\ Agree(w, M)

(* v is w after node n went to its place in the list of an axis. *)
MovedOn(v, w, n, a, S) ==
    /\ v.position = w.position /\ v.range = w.range
    /\ v.old = w.old /\ v.oldRange = w.oldRange
    /\ v.x[n][a] = Coord(w, n, a)
    /\ \A m \in Node, b \in Axis : m # n \/ b # a => v.x[m][b] = w.x[m][b]
    /\ \A b \in Axis \ {a} : v.list[b] = w.list[b]
    /\ Ordered(v.list[a], v.x, a, S)

(* Where the walk of MoveOn along l ends. *)
GoTo(l, x, a, i, xx) ==
    LET left == {k \in 1..i : \A j \in k..i - 1 : x[l[j]][a] > xx}
        right == {k \in i..Len(l) : \A j \in i + 1..k : x[l[j]][a] < xx}
    IN  IF left # {i} THEN Min(left) ELSE Max(right)

LEMMA Stop ==
    ASSUME NEW w, NEW S, NEW M, Linked(w, S, M), NEW n \in S, NEW a \in Axis,
           Ordered(w.list[a], w.x, a, S \ {n})
    PROVE  LET l == w.list[a]
               i == Place(l, n)
               to == GoTo(l, w.x, a, i, Coord(w, n, a))
           IN  /\ to \in 1..Len(l) /\ i \in 1..Len(l) /\ l[i] = n
               /\ IsStop(l, w.x, a, Coord(w, n, a), i, to)
<1> DEFINE l == w.list[a]
           i == Place(l, n)
           xx == Coord(w, n, a)
           left == {k \in 1..i : \A j \in k..i - 1 : w.x[l[j]][a] > xx}
           right == {k \in i..Len(l) : \A j \in i + 1..k : w.x[l[j]][a] < xx}
           to == GoTo(l, w.x, a, i, xx)
<1>0. to = IF left # {i} THEN Min(left) ELSE Max(right)
  BY DEF GoTo
<1>d. Ordered(l, w.x, a, S \ {n})
  OBVIOUS
<1> DEFINE N == Len(l)
           y == [j \in 1..N |-> w.x[l[j]][a]]
<1>1. w \in Space /\ n \in Node /\ Arranged(l, S)
  BY DEF Linked
<1> HIDE DEF l
<1>2. l \in Seq(Node) /\ N \in Nat /\ DOMAIN l = 1..N
  BY <1>1 DEF Arranged
<1>3. i \in 1..N /\ l[i] = n /\ \A k \in 1..N : l[k] = n => k = i
  BY <1>1, PlaceIs
<1>4. xx \in Int
  BY <1>1, CoordIs
<1> HIDE DEF i, xx, to
<1>5. w.x \in [Node -> [Axis -> Int]]
  BY <1>1, SpaceParts
<1>6. \A j \in 1..N : y[j] \in Int /\ y[j] = w.x[l[j]][a]
  BY <1>2, <1>5
<1>7. y \in [1..N -> Int]
  BY <1>6
<1>8. OrderBut(y, N, i)
  <2>1. ASSUME NEW j \in 1..N, NEW k \in 1..N, j < k, j # i, k # i
        PROVE  y[j] <= y[k]
    <3>1. l[j] \in S \ {n} /\ l[k] \in S \ {n}
      BY <1>1, <1>2, <1>3, <2>1 DEF Arranged, ToSet
    <3>2. w.x[l[j]][a] <= w.x[l[k]][a]
      BY <1>d, <2>1, <3>1 DEF Ordered
    <3> QED
      BY <1>6, <3>2
  <2> QED
    BY <2>1 DEF OrderBut
<1>9. left = LeftPlaces(y, i, xx)
  <2>1. \A k \in 1..i : \A j \in k..i - 1 : j \in 1..N
    BY <1>2, <1>3
  <2>2. \A k \in 1..i : \A j \in k..i - 1 : y[j] = w.x[l[j]][a]
    BY <1>6, <2>1
  <2> HIDE DEF y, N
  <2> QED
    BY <2>2 DEF LeftPlaces
<1>10. right = RightPlaces(y, N, i, xx)
  <2>1. \A k \in i..N : \A j \in i + 1..k : j \in 1..N
    BY <1>2, <1>3
  <2>2. \A k \in i..N : \A j \in i + 1..k : y[j] = w.x[l[j]][a]
    BY <1>6, <2>1
  <2> HIDE DEF y
  <2> QED
    BY <2>2 DEF RightPlaces
<1> HIDE DEF y, N, left, right
<1>e. to = StopPlace(y, N, i, xx)
  BY <1>0, <1>9, <1>10 DEF StopPlace
<1>11. /\ to \in 1..N
       /\ \A j \in 1..N \ {i} :
            IF j < to \/ (j = to /\ i < to) THEN y[j] <= xx ELSE xx <= y[j]
  BY <1>2, <1>3, <1>4, <1>7, <1>8, <1>e, StopsAt
<1>12. IsStop(l, w.x, a, xx, i, to)
  BY <1>6, <1>11 DEF IsStop, N
<1> QED
  BY <1>3, <1>11, <1>12 DEF N, l, i, xx, to

(* The list of an axis is replaced. *)
LinkAs(w, a, r) == [w EXCEPT !.list[a] = r]

LEMMA Relink ==
    ASSUME NEW w, NEW S, NEW M, Linked(w, S, M), NEW a \in Axis, NEW r, Arranged(r, S)
    PROVE  LET v == LinkAs(w, a, r)
           IN  /\ Linked(v, S, M) /\ v.position = w.position /\ v.range = w.range
               /\ v.old = w.old /\ v.oldRange = w.oldRange /\ v.x = w.x
               /\ v.list[a] = r /\ \A b \in Axis \ {a} : v.list[b] = w.list[b]
<1> DEFINE v == LinkAs(w, a, r)
<1>1. w \in Space
  BY DEF Linked
<1>2. r \in Seq(Node)
  BY DEF Arranged
<1>3. v \in Space
  BY <1>1, <1>2 DEF Space, LinkAs
<1>4. /\ v.position = w.position /\ v.range = w.range
      /\ v.old = w.old /\ v.oldRange = w.oldRange /\ v.x = w.x
      /\ v.ref = w.ref /\ v.witnesses = w.witnesses
      /\ v.list = [w.list EXCEPT ![a] = r]
  BY <1>1 DEF Space, LinkAs
<1> HIDE DEF v
<1>5. v.list[a] = r /\ \A b \in Axis \ {a} : v.list[b] = w.list[b]
  BY <1>1, <1>4, SpaceParts
<1>6. Agree(v, M)
  BY <1>4 DEF Agree, Linked
<1>7. \A b \in Axis : Arranged(v.list[b], S)
  BY <1>5 DEF Linked
<1> QED
  BY <1>3, <1>4, <1>5, <1>6, <1>7 DEF Linked, v

(* The coordinate of a node is written. *)
WithX(w, n, a, xx) == [w EXCEPT !.x[n][a] = xx]

LEMMA WriteX ==
    ASSUME NEW w, NEW S, NEW M, Linked(w, S, M), NEW a \in Axis, NEW n \in Node,
           NEW xx \in Int
    PROVE  LET v == WithX(w, n, a, xx)
           IN  /\ Linked(v, S, M) /\ v.position = w.position /\ v.range = w.range
               /\ v.old = w.old /\ v.oldRange = w.oldRange /\ v.list = w.list
               /\ v.x[n][a] = xx
               /\ \A m \in Node, b \in Axis : m # n \/ b # a => v.x[m][b] = w.x[m][b]
<1> DEFINE v == WithX(w, n, a, xx)
<1>1. w \in Space
  BY DEF Linked
<1>3. v \in Space
  BY <1>1 DEF Space, WithX
<1>4. /\ v.position = w.position /\ v.range = w.range
      /\ v.old = w.old /\ v.oldRange = w.oldRange /\ v.list = w.list
      /\ v.ref = w.ref /\ v.witnesses = w.witnesses
      /\ v.x = [w.x EXCEPT ![n][a] = xx]
  BY <1>1 DEF Space, WithX
<1> HIDE DEF v
<1>5. v.x[n][a] = xx
  BY <1>1, <1>4, SpaceParts
<1>6. ASSUME NEW m \in Node, NEW b \in Axis, m # n \/ b # a
      PROVE  v.x[m][b] = w.x[m][b]
  <2>1. w.x \in [Node -> [Axis -> Int]]
    BY <1>1, SpaceParts
  <2>2. CASE m # n
    BY <1>4, <2>1, <2>2
  <2>3. CASE m = n /\ b # a
    <3>1. v.x[n] = [w.x[n] EXCEPT ![a] = xx]
      BY <1>4, <2>1
    <3> QED
      BY <2>1, <2>3, <3>1
  <2> QED
    BY <1>6, <2>2, <2>3
<1>7. Agree(v, M)
  BY <1>4 DEF Agree, Linked
<1> QED
  BY <1>3, <1>4, <1>5, <1>6, <1>7 DEF Linked, v

LEMMA ToldLinked ==
    ASSUME NEW v, NEW w, NEW S, NEW M, Linked(w, S, M), Told(v, w), Agree(v, M)
    PROVE  Linked(v, S, M)
  BY DEF Linked, Told

(* One axis: the node finds its place and all others keep their order. *)
LEMMA MoveOnMoves ==
    ASSUME NEW w, NEW S, NEW M, Linked(w, S, M), NEW n \in S, NEW a \in Axis,
           Ordered(w.list[a], w.x, a, S \ {n})
    PROVE  /\ Linked(MoveOn(w, n, a), S, M)
           /\ MovedOn(MoveOn(w, n, a), w, n, a, S)
<1> DEFINE l == w.list[a]
           i == Place(l, n)
           xx == Coord(w, n, a)
           to == GoTo(l, w.x, a, i, xx)
           passed == IF to < i THEN Reverse(SubSeq(l, to, i - 1)) ELSE SubSeq(l, i + 1, to)
           moved == [w EXCEPT !.list[a] = InsertAt(RemoveAt(@, i), to, n)]
           told == IF to = i THEN w ELSE Tell(moved, n, a, passed)
           v == WithX(told, n, a, xx)
           r == IF to = i THEN l ELSE Shift(l, i, to)
<1>1. MoveOn(w, n, a) = v
  BY DEF MoveOn, GoTo, WithX
<1>2. /\ to \in 1..Len(l) /\ i \in 1..Len(l) /\ l[i] = n
      /\ IsStop(l, w.x, a, xx, i, to)
  BY Stop
<1>3. w \in Space /\ n \in Node /\ Arranged(l, S) /\ (~IsEntity(n) => n[1] \in M)
  BY DEF Linked
<1>4. l \in Seq(Node) /\ Len(l) \in Nat /\ DOMAIN l = 1..Len(l)
  BY <1>3 DEF Arranged
<1>5. xx \in Int
  BY <1>3, CoordIs
<1>a. Ordered(l, w.x, a, S \ {n})
  OBVIOUS
<1>b. w.list[a] = l /\ xx = Coord(w, n, a)
  OBVIOUS
<1>c. moved = LinkAs(w, a, Shift(l, i, to))
  BY <1>2 DEF Shift, LinkAs
<1> HIDE DEF l, i, xx, to
<1>6. passed \in Seq(Node) /\ \A k \in 1..Len(passed) : passed[k] \in S
  <2>0. ASSUME NEW j \in 1..Len(l) PROVE l[j] \in S /\ l[j] \in Node
    BY <1>3, <1>4 DEF Arranged, ToSet
  <2>1. CASE to < i
    <3> DEFINE s == SubSeq(l, to, i - 1)
    <3>1. s \in Seq(Node) /\ Len(s) = i - to
          /\ \A k \in 1..i - to : s[k] = l[to + k - 1]
      BY <1>2, <1>4, <2>0, <2>1, SubSeqProperties
    <3> HIDE DEF s
    <3>2. ASSUME NEW k \in 1..i - to PROVE s[k] \in S /\ s[k] \in Node
      <4>1. to + k - 1 \in 1..Len(l)
        BY <1>2, <1>4, <2>1
      <4> QED
        BY <2>0, <3>1, <4>1
    <3>3. passed = [k \in 1..i - to |-> s[(i - to - k) + 1]]
      BY <2>1, <3>1 DEF Reverse, s
    <3> HIDE DEF passed
    <3>4. ASSUME NEW k \in 1..i - to PROVE passed[k] \in S /\ passed[k] \in Node
      <4>1. (i - to - k) + 1 \in 1..i - to
        BY <1>2, <2>1
      <4> QED
        BY <3>2, <3>3, <4>1
    <3>5. i - to \in Nat /\ passed \in [1..i - to -> Node]
      BY <1>2, <2>1, <3>3, <3>4
    <3>6. passed \in Seq(Node) /\ Len(passed) = i - to
      BY <3>5
    <3> QED
      BY <3>4, <3>6
  <2>2. CASE ~(to < i)
    <3> DEFINE s == SubSeq(l, i + 1, to)
    <3>1. s \in Seq(Node) /\ Len(s) = to - i
          /\ \A k \in 1..to - i : s[k] = l[i + k]
      BY <1>2, <1>4, <2>0, <2>2, SubSeqProperties
    <3> HIDE DEF s
    <3>2. ASSUME NEW k \in 1..to - i PROVE s[k] \in S
      <4>1. i + k \in 1..Len(l)
        BY <1>2, <1>4, <2>2
      <4> QED
        BY <2>0, <3>1, <4>1
    <3>3. passed = s
      BY <2>2 DEF s
    <3> QED
      BY <3>1, <3>2, <3>3
  <2> QED
    BY <2>1, <2>2
<1> HIDE DEF passed
<1>7. /\ Linked(told, S, M) /\ told.position = w.position /\ told.range = w.range
      /\ told.old = w.old /\ told.oldRange = w.oldRange /\ told.x = w.x
      /\ told.list[a] = r /\ \A b \in Axis \ {a} : told.list[b] = w.list[b]
  <2>1. CASE to = i
    BY <1>b, <2>1
  <2>2. CASE to # i
    <3>1. Arranged(Shift(l, i, to), S)
      BY <1>2, <1>3, ShiftArranged
    <3>2. /\ Linked(moved, S, M) /\ moved.position = w.position /\ moved.range = w.range
          /\ moved.old = w.old /\ moved.oldRange = w.oldRange /\ moved.x = w.x
          /\ moved.list[a] = Shift(l, i, to)
          /\ \A b \in Axis \ {a} : moved.list[b] = w.list[b]
      <4> HIDE DEF moved
      <4> DEFINE q == Shift(l, i, to)
      <4>1. Arranged(q, S) /\ moved = LinkAs(w, a, q)
        BY <1>c, <3>1
      <4> HIDE DEF q
      <4> SUFFICES /\ Linked(moved, S, M) /\ moved.position = w.position
                   /\ moved.range = w.range /\ moved.old = w.old
                   /\ moved.oldRange = w.oldRange /\ moved.x = w.x
                   /\ moved.list[a] = q
                   /\ \A b \in Axis \ {a} : moved.list[b] = w.list[b]
        BY DEF q
      <4> QED
        BY <4>1, Relink
    <3> HIDE DEF moved
    <3>3. \A k \in 1..Len(passed) : ~IsEntity(passed[k]) => passed[k][1] \in M
      BY <1>6, <3>2 DEF Linked
    <3>4. moved \in Space /\ Agree(moved, M)
      BY <3>2 DEF Linked
    <3>5. Told(Tell(moved, n, a, passed), moved) /\ Agree(Tell(moved, n, a, passed), M)
      BY <1>3, <1>6, <3>3, <3>4, TellTold
    <3>6. told = Tell(moved, n, a, passed) /\ r = Shift(l, i, to)
      BY <2>2
    <3> HIDE DEF told, r
    <3>7. Linked(told, S, M)
      BY <3>2, <3>5, <3>6, ToldLinked
    <3> QED
      BY <3>2, <3>5, <3>6, <3>7 DEF Told
  <2> QED
    BY <2>1, <2>2
<1> HIDE DEF told, moved
<1>8. /\ Linked(v, S, M) /\ v.position = told.position /\ v.range = told.range
      /\ v.old = told.old /\ v.oldRange = told.oldRange /\ v.list = told.list
      /\ v.x[n][a] = xx
      /\ \A m \in Node, b \in Axis : m # n \/ b # a => v.x[m][b] = told.x[m][b]
  <2>1. Linked(told, S, M) /\ n \in Node /\ xx \in Int
    BY <1>3, <1>5, <1>7
  <2> QED
    BY <2>1, WriteX
<1> HIDE DEF v
<1>9. Ordered(r, v.x, a, S)
  <2>1. v.x[l[i]][a] = xx /\ \A m \in S \ {l[i]} : v.x[m][a] = w.x[m][a]
    BY <1>2, <1>7, <1>8 DEF Linked
  <2>2. CASE to = i
    <3>1. Ordered(l, v.x, a, S)
      BY <1>2, <1>3, <1>a, <2>1, <2>2, StayOrdered
    <3> QED
      BY <2>2, <3>1
  <2>3. CASE to # i
    <3>1. Ordered(Shift(l, i, to), v.x, a, S)
      BY <1>2, <1>3, <1>a, <2>1, ShiftOrdered
    <3> QED
      BY <2>3, <3>1
  <2> QED
    BY <2>2, <2>3
<1> HIDE DEF r
<1>10. MovedOn(v, w, n, a, S)
  BY <1>7, <1>8, <1>9, <1>b DEF MovedOn
<1> QED
  BY <1>1, <1>8, <1>10

LEMMA CoordSame ==
    ASSUME NEW v, NEW w, v.position = w.position, v.range = w.range, NEW n, NEW a
    PROVE  Coord(v, n, a) = Coord(w, n, a)
  BY DEF Coord

LEMMA OrderedSame ==
    ASSUME NEW l, NEW x, NEW x2, NEW a, NEW T, Ordered(l, x, a, T),
           \A m \in T : x2[m][a] = x[m][a]
    PROVE  Ordered(l, x2, a, T)
  BY DEF Ordered

LEMMA OrderedLess ==
    ASSUME NEW l, NEW x, NEW a, NEW S, NEW T, Ordered(l, x, a, S), T \subseteq S
    PROVE  Ordered(l, x, a, T)
  BY DEF Ordered

(* Either update() does not pass over this axis, or there is nothing to do. *)
Settled(w, n, a, S) ==
    \/ a = 2 \/ w.old[n][a] # Coord(w, n, a)
    \/ w.x[n][a] = Coord(w, n, a) /\ Ordered(w.list[a], w.x, a, S)

(* v is w after one axis of update(). *)
Walked(v, w, n, a, S) ==
    /\ v.position = w.position /\ v.range = w.range /\ v.old = w.old
    /\ \A m \in Node, b \in Axis : m # n \/ b # a => v.x[m][b] = w.x[m][b]
    /\ \A b \in Axis \ {a} : v.list[b] = w.list[b]
    /\ Ordered(v.list[a], v.x, a, S \ {n})
    /\ Settled(w, n, a, S) =>
         v.x[n][a] = Coord(w, n, a) /\ Ordered(v.list[a], v.x, a, S)

LEMMA UpdateOnWalks ==
    ASSUME NEW w, NEW S, NEW M, Linked(w, S, M), NEW n \in S, NEW a \in Axis,
           Ordered(w.list[a], w.x, a, S \ {n})
    PROVE  Linked(UpdateOn(w, n, a), S, M) /\ Walked(UpdateOn(w, n, a), w, n, a, S)
<1>1. CASE a # 2 /\ Coord(w, n, a) = w.old[n][a]
  <2>1. UpdateOn(w, n, a) = w
    BY <1>1 DEF UpdateOn
  <2>2. Walked(w, w, n, a, S)
    BY <1>1 DEF Walked, Settled
  <2> QED
    BY <2>1, <2>2
<1>2. CASE ~(a # 2 /\ Coord(w, n, a) = w.old[n][a])
  <2> DEFINE v == MoveOn(w, n, a)
  <2>1. UpdateOn(w, n, a) = v
    BY <1>2 DEF UpdateOn
  <2>2. Linked(v, S, M) /\ MovedOn(v, w, n, a, S)
    BY MoveOnMoves
  <2> HIDE DEF v
  <2>3. Ordered(v.list[a], v.x, a, S \ {n})
    BY <2>2, OrderedLess DEF MovedOn
  <2>4. Walked(v, w, n, a, S)
    BY <2>2, <2>3 DEF MovedOn, Walked
  <2> QED
    BY <2>1, <2>2, <2>4
<1> QED
  BY <1>1, <1>2

(* The other axes are as they were. *)
LEMMA WalkedOther ==
    ASSUME NEW v, NEW w, NEW S \in SUBSET Node, NEW n \in S, NEW a \in Axis,
           Walked(v, w, n, a, S), NEW b \in Axis \ {a}
    PROVE  /\ Ordered(w.list[b], w.x, b, S \ {n}) => Ordered(v.list[b], v.x, b, S \ {n})
           /\ Ordered(w.list[b], w.x, b, S) => Ordered(v.list[b], v.x, b, S)
           /\ v.x[n][b] = w.x[n][b] /\ Coord(v, n, b) = Coord(w, n, b)
           /\ Settled(w, n, b, S) => Settled(v, n, b, S)
<1>1. v.list[b] = w.list[b] /\ \A m \in Node : v.x[m][b] = w.x[m][b]
  BY DEF Walked
<1>2. Coord(v, n, b) = Coord(w, n, b) /\ v.old = w.old
  BY CoordSame DEF Walked
<1>3. Ordered(w.list[b], w.x, b, S \ {n}) => Ordered(v.list[b], v.x, b, S \ {n})
  BY <1>1 DEF Ordered
<1>4. Ordered(w.list[b], w.x, b, S) => Ordered(v.list[b], v.x, b, S)
  BY <1>1 DEF Ordered
<1>5. v.x[n][b] = w.x[n][b]
  BY <1>1
<1>6. Settled(w, n, b, S) => Settled(v, n, b, S)
  BY <1>2, <1>4, <1>5 DEF Settled
<1> QED
  BY <1>2, <1>3, <1>4, <1>5, <1>6

(* v is w after update() of node n. *)
Updated(v, w, n, S) ==
    /\ v.position = w.position /\ v.range = w.range
    /\ \A m \in Node \ {n}, a \in Axis : v.x[m][a] = w.x[m][a] /\ v.old[m][a] = w.old[m][a]
    /\ \A a \in Axis : v.old[n][a] = Coord(w, n, a)
    /\ \A a \in Axis : Ordered(v.list[a], v.x, a, S \ {n})
    /\ \A a \in Axis : Settled(w, n, a, S) =>
         v.x[n][a] = Coord(w, n, a) /\ Ordered(v.list[a], v.x, a, S)

(* The three axes of update(), one after the other. *)
ByAxis(f, w, n) ==
    f = [a \in 0..3 |-> IF a = 0 THEN w ELSE UpdateOn(f[a - 1], n, a)]

LEMMA ByAxisIs ==
    ASSUME NEW w, NEW n
    PROVE  LET f == CHOOSE g : ByAxis(g, w, n)
           IN  f[3] = UpdateOn(UpdateOn(UpdateOn(w, n, 1), n, 2), n, 3)
<1> DEFINE u1 == UpdateOn(w, n, 1)
           u2 == UpdateOn(u1, n, 2)
           u3 == UpdateOn(u2, n, 3)
           g == [a \in 0..3 |-> IF a = 0 THEN w ELSE IF a = 1 THEN u1
                                ELSE IF a = 2 THEN u2 ELSE u3]
           h == [a \in 0..3 |-> IF a = 0 THEN w ELSE UpdateOn(g[a - 1], n, a)]
           f == CHOOSE k : ByAxis(k, w, n)
<1>1. ASSUME NEW a \in 0..3 PROVE g[a] = h[a]
  <2>1. a = 0 \/ a = 1 \/ a = 2 \/ a = 3
    OBVIOUS
  <2>2. g[0] = w /\ g[1] = u1 /\ g[2] = u2 /\ g[3] = u3
    OBVIOUS
  <2>3. h[0] = w /\ h[1] = UpdateOn(g[0], n, 1) /\ h[2] = UpdateOn(g[1], n, 2)
        /\ h[3] = UpdateOn(g[2], n, 3)
    <3> HIDE DEF g
    <3> QED
      OBVIOUS
  <2> HIDE DEF g, h
  <2> QED
    BY <2>1, <2>2, <2>3
<1>2. g = h
  BY <1>1
<1>3. ByAxis(g, w, n)
  <2> HIDE DEF g
  <2> QED
    BY <1>2 DEF ByAxis
<1>4. ByAxis(f, w, n)
  <2> HIDE DEF g
  <2> QED
    BY <1>3
<1> HIDE DEF f
<1>5. f[0] = w /\ f[1] = UpdateOn(f[0], n, 1) /\ f[2] = UpdateOn(f[1], n, 2)
      /\ f[3] = UpdateOn(f[2], n, 3)
  BY <1>4 DEF ByAxis
<1> QED
  BY <1>5 DEF f

(* update() brings the node to its place on every axis. *)
LEMMA UpdateUpdates ==
    ASSUME NEW w, NEW S, NEW M, Linked(w, S, M), NEW n \in S,
           \A a \in Axis : Ordered(w.list[a], w.x, a, S \ {n})
    PROVE  Linked(Update(w, n), S, M) /\ Updated(Update(w, n), w, n, S)
<1> DEFINE u1 == UpdateOn(w, n, 1)
           u2 == UpdateOn(u1, n, 2)
           u3 == UpdateOn(u2, n, 3)
           o == [a \in Axis |-> Coord(w, n, a)]
           v == [u3 EXCEPT !.old[n] = o, !.oldRange[n] = w.range[n]]
<1>1. Update(w, n) = v
  BY ByAxisIs, Zenon DEF Update, ByAxis
<1>2. S \in SUBSET Node /\ n \in Node /\ w \in Space
  BY DEF Linked
<1>3. 1 \in Axis /\ 2 \in Axis /\ 3 \in Axis /\ Axis = {1, 2, 3}
      /\ 1 # 2 /\ 1 # 3 /\ 2 # 3
  BY DEF Axis
<1>4. Linked(u1, S, M) /\ Walked(u1, w, n, 1, S)
  BY <1>3, UpdateOnWalks
<1> HIDE DEF u1
<1>5. \A b \in {2, 3} :
        /\ Ordered(u1.list[b], u1.x, b, S \ {n})
        /\ u1.x[n][b] = w.x[n][b] /\ Coord(u1, n, b) = Coord(w, n, b)
        /\ Settled(w, n, b, S) => Settled(u1, n, b, S)
  <2> TAKE b \in {2, 3}
  <2>1. b \in Axis \ {1} /\ Ordered(w.list[b], w.x, b, S \ {n})
    BY <1>3
  <2> DEFINE a == 1
  <2>2. a \in Axis /\ b \in Axis \ {a} /\ Walked(u1, w, n, a, S)
    BY <1>3, <1>4, <2>1
  <2> HIDE DEF a
  <2>3. /\ Ordered(w.list[b], w.x, b, S \ {n}) => Ordered(u1.list[b], u1.x, b, S \ {n})
        /\ Ordered(w.list[b], w.x, b, S) => Ordered(u1.list[b], u1.x, b, S)
        /\ u1.x[n][b] = w.x[n][b] /\ Coord(u1, n, b) = Coord(w, n, b)
        /\ Settled(w, n, b, S) => Settled(u1, n, b, S)
    BY <1>2, <2>2, WalkedOther
  <2> QED
    BY <2>1, <2>3
<1>6. Linked(u2, S, M) /\ Walked(u2, u1, n, 2, S)
  BY <1>3, <1>4, <1>5, UpdateOnWalks
<1> HIDE DEF u2
<1>7. \A b \in {1, 3} :
        /\ Ordered(u1.list[b], u1.x, b, S \ {n}) => Ordered(u2.list[b], u2.x, b, S \ {n})
        /\ Ordered(u1.list[b], u1.x, b, S) => Ordered(u2.list[b], u2.x, b, S)
        /\ u2.x[n][b] = u1.x[n][b] /\ Coord(u2, n, b) = Coord(u1, n, b)
        /\ Settled(u1, n, b, S) => Settled(u2, n, b, S)
  <2> TAKE b \in {1, 3}
  <2>1. b \in Axis \ {2}
    BY <1>3
  <2> QED
    BY <1>2, <1>3, <1>6, <2>1, WalkedOther
<1>8. Linked(u3, S, M) /\ Walked(u3, u2, n, 3, S)
  BY <1>3, <1>5, <1>6, <1>7, UpdateOnWalks
<1> HIDE DEF u3
<1>9. \A b \in {1, 2} :
        /\ Ordered(u2.list[b], u2.x, b, S \ {n}) => Ordered(u3.list[b], u3.x, b, S \ {n})
        /\ Ordered(u2.list[b], u2.x, b, S) => Ordered(u3.list[b], u3.x, b, S)
        /\ u3.x[n][b] = u2.x[n][b]
  <2> TAKE b \in {1, 2}
  <2>1. b \in Axis \ {3}
    BY <1>3
  <2> DEFINE a == 3
  <2>2. a \in Axis /\ b \in Axis \ {a} /\ Walked(u3, u2, n, a, S)
    BY <1>3, <1>8, <2>1
  <2> HIDE DEF a
  <2>3. /\ Ordered(u2.list[b], u2.x, b, S \ {n}) => Ordered(u3.list[b], u3.x, b, S \ {n})
        /\ Ordered(u2.list[b], u2.x, b, S) => Ordered(u3.list[b], u3.x, b, S)
        /\ u3.x[n][b] = u2.x[n][b] /\ Coord(u3, n, b) = Coord(u2, n, b)
        /\ Settled(u2, n, b, S) => Settled(u3, n, b, S)
    BY <1>2, <2>2, WalkedOther
  <2> QED
    BY <2>1, <2>3
<1>10. /\ Ordered(u3.list[1], u3.x, 1, S \ {n})
       /\ Settled(w, n, 1, S) => u3.x[n][1] = Coord(w, n, 1) /\ Ordered(u3.list[1], u3.x, 1, S)
  <2>1. /\ Ordered(u1.list[1], u1.x, 1, S \ {n})
        /\ Settled(w, n, 1, S) => u1.x[n][1] = Coord(w, n, 1) /\ Ordered(u1.list[1], u1.x, 1, S)
    BY <1>4 DEF Walked
  <2> QED
    BY <1>7, <1>9, <2>1
<1>11. /\ Ordered(u3.list[2], u3.x, 2, S \ {n})
       /\ Settled(w, n, 2, S) => u3.x[n][2] = Coord(w, n, 2) /\ Ordered(u3.list[2], u3.x, 2, S)
  <2>1. /\ Ordered(u2.list[2], u2.x, 2, S \ {n})
        /\ Settled(u1, n, 2, S) =>
             u2.x[n][2] = Coord(u1, n, 2) /\ Ordered(u2.list[2], u2.x, 2, S)
    BY <1>6 DEF Walked
  <2> QED
    BY <1>5, <1>9, <2>1
<1>12. /\ Ordered(u3.list[3], u3.x, 3, S \ {n})
       /\ Settled(w, n, 3, S) => u3.x[n][3] = Coord(w, n, 3) /\ Ordered(u3.list[3], u3.x, 3, S)
  <2>1. /\ Ordered(u3.list[3], u3.x, 3, S \ {n})
        /\ Settled(u2, n, 3, S) =>
             u3.x[n][3] = Coord(u2, n, 3) /\ Ordered(u3.list[3], u3.x, 3, S)
    BY <1>8 DEF Walked
  <2> QED
    BY <1>5, <1>7, <2>1
<1>13. /\ u3.position = w.position /\ u3.range = w.range /\ u3.old = w.old
       /\ \A m \in Node \ {n}, a \in Axis : u3.x[m][a] = w.x[m][a]
  BY <1>4, <1>6, <1>8 DEF Walked
<1>14. u3 \in Space /\ Agree(u3, M)
  BY <1>8 DEF Linked
<1>15. o \in [Axis -> Int] /\ w.range[n] \in Int
  BY <1>2, CoordIs, SpaceParts
<1>16. \A a \in Axis : o[a] = Coord(w, n, a)
  OBVIOUS
<1> HIDE DEF o
<1>17. v \in Space
  BY <1>2, <1>14, <1>15 DEF Space
<1>18. /\ v.position = u3.position /\ v.range = u3.range /\ v.x = u3.x /\ v.list = u3.list
       /\ v.ref = u3.ref /\ v.witnesses = u3.witnesses /\ v.old = [u3.old EXCEPT ![n] = o]
  BY <1>14 DEF Space
<1> HIDE DEF v
<1>19. v.old[n] = o /\ \A m \in Node \ {n} : v.old[m] = u3.old[m]
  BY <1>2, <1>14, <1>18, SpaceParts
<1>20. Agree(v, M)
  BY <1>14, <1>18 DEF Agree
<1>21. Linked(v, S, M)
  BY <1>8, <1>17, <1>18, <1>20 DEF Linked
<1>22. ASSUME NEW a \in Axis
       PROVE  /\ Ordered(v.list[a], v.x, a, S \ {n})
              /\ Settled(w, n, a, S) =>
                   v.x[n][a] = Coord(w, n, a) /\ Ordered(v.list[a], v.x, a, S)
  <2>1. CASE a = 1
    BY <1>10, <1>18, <2>1
  <2>2. CASE a = 2
    BY <1>11, <1>18, <2>2
  <2>3. CASE a = 3
    BY <1>12, <1>18, <2>3
  <2> QED
    BY <1>3, <2>1, <2>2, <2>3
<1>23. /\ \A a \in Axis : Ordered(v.list[a], v.x, a, S \ {n})
       /\ \A a \in Axis : Settled(w, n, a, S) =>
            v.x[n][a] = Coord(w, n, a) /\ Ordered(v.list[a], v.x, a, S)
  BY <1>22
<1>24. v.position = w.position /\ v.range = w.range
  BY <1>13, <1>18
<1>25. \A a \in Axis : v.old[n][a] = Coord(w, n, a)
  BY <1>16, <1>19
<1>26. \A m \in Node \ {n}, a \in Axis : v.x[m][a] = w.x[m][a] /\ v.old[m][a] = w.old[m][a]
  BY <1>13, <1>18, <1>19
<1>27. Updated(v, w, n, S)
  BY <1>23, <1>24, <1>25, <1>26, Zenon DEF Updated
<1> QED
  BY <1>1, <1>21, <1>27, Zenon

-----------------------------------------------------------------------------
(* Requests. *)

(* Between two calls of update(): the lists hold the nodes of S, in the    *)
(* order of the coordinates they know, which are where they really are     *)
(* but for the nodes of D.                                                 *)
Placed(w, S, D, M) ==
    /\ Linked(w, S, M)
    /\ \A a \in Axis : Ordered(w.list[a], w.x, a, S)
    /\ \A m \in S, a \in Axis : w.old[m][a] = w.x[m][a]
    /\ \A m \in S \ D, a \in Axis : w.x[m][a] = Coord(w, m, a)
    /\ \A m \in Node : m \notin S \/ IsEntity(m) => w.range[m] = 0

LEMMA UpdatePlaced ==
    ASSUME NEW w, NEW S, NEW D, NEW M, Placed(w, S, D, M), NEW n \in S
    PROVE  /\ Placed(Update(w, n), S, D \ {n}, M)
           /\ Update(w, n).position = w.position /\ Update(w, n).range = w.range
<1> DEFINE v == Update(w, n)
<1>1. Linked(w, S, M) /\ S \subseteq Node
  BY DEF Placed, Linked
<1>2. \A a \in Axis : Ordered(w.list[a], w.x, a, S \ {n})
  BY OrderedLess DEF Placed
<1>3. Linked(v, S, M) /\ Updated(v, w, n, S)
  BY <1>1, <1>2, UpdateUpdates
<1> HIDE DEF v
<1>4. \A a \in Axis : Settled(w, n, a, S)
  BY DEF Settled, Placed
<1>5. \A a \in Axis : /\ v.old[n][a] = Coord(w, n, a) /\ v.x[n][a] = Coord(w, n, a)
                      /\ Ordered(v.list[a], v.x, a, S)
  BY <1>3, <1>4 DEF Updated
<1>6. v.position = w.position /\ v.range = w.range
  BY <1>3 DEF Updated
<1>7. \A m, a : Coord(v, m, a) = Coord(w, m, a)
  BY <1>6, CoordSame
<1>8. ASSUME NEW m \in S, NEW a \in Axis
      PROVE  v.old[m][a] = v.x[m][a] /\ (m \notin D \ {n} => v.x[m][a] = Coord(v, m, a))
  <2>1. CASE m = n
    BY <1>5, <1>7, <2>1
  <2>2. CASE m # n
    <3>1. v.x[m][a] = w.x[m][a] /\ v.old[m][a] = w.old[m][a]
      BY <1>1, <1>3, <2>2 DEF Updated
    <3>2. w.old[m][a] = w.x[m][a] /\ (m \notin D => w.x[m][a] = Coord(w, m, a))
      BY DEF Placed
    <3> QED
      BY <1>7, <2>2, <3>1, <3>2
  <2> QED
    BY <2>1, <2>2
<1>9. \A m \in Node : m \notin S \/ IsEntity(m) => v.range[m] = 0
  BY <1>6 DEF Placed
<1>10. Placed(v, S, D \ {n}, M)
  BY <1>3, <1>5, <1>8, <1>9 DEF Placed
<1> QED
  BY <1>6, <1>10 DEF v

(* A node is put into the lists, at their heads. *)
HeadOf(w, n) ==
    [w EXCEPT !.list = [a \in Axis |-> <<n>> \o w.list[a]], !.old[n] = At(-FltMax)]

LEMMA HeadArranged ==
    ASSUME NEW S, NEW l, Arranged(l, S), NEW n \in Node \ S, NEW x, NEW a,
           Ordered(l, x, a, S)
    PROVE  /\ Arranged(<<n>> \o l, S \union {n})
           /\ Ordered(<<n>> \o l, x, a, S)
<1> DEFINE r == <<n>> \o l
<1>1. l \in Seq(Node) /\ Len(l) \in Nat /\ DOMAIN l = 1..Len(l)
  BY DEF Arranged
<1>2. /\ r \in Seq(Node) /\ Len(r) = Len(l) + 1 /\ DOMAIN r = 1..Len(l) + 1
      /\ r[1] = n /\ \A k \in 2..Len(l) + 1 : r[k] = l[k - 1]
  BY <1>1
<1> HIDE DEF r
<1>3. \A k \in 2..Len(l) + 1 : k - 1 \in 1..Len(l) /\ r[k] = l[k - 1]
  BY <1>1, <1>2
<1>4. \A j \in 1..Len(l) : l[j] \in S /\ l[j] # n
  BY <1>1 DEF Arranged, ToSet
<1>5. ToSet(r) = S \union {n}
  <2>1. ASSUME NEW m \in ToSet(r) PROVE m \in S \union {n}
    <3>1. PICK k \in 1..Len(l) + 1 : m = r[k]
      BY <1>2 DEF ToSet
    <3>2. CASE k = 1
      BY <1>2, <3>1, <3>2
    <3>3. CASE k # 1
      <4>1. k \in 2..Len(l) + 1
        BY <1>1, <3>3
      <4> QED
        BY <1>3, <1>4, <3>1, <4>1
    <3> QED
      BY <3>2, <3>3
  <2>2. n \in ToSet(r)
    <3>1. 1 \in 1..Len(l) + 1
      BY <1>1
    <3> QED
      BY <1>2, <3>1 DEF ToSet
  <2>3. ASSUME NEW m \in S PROVE m \in ToSet(r)
    <3>1. PICK j \in 1..Len(l) : m = l[j]
      BY <1>1 DEF Arranged, ToSet
    <3>2. j + 1 \in 2..Len(l) + 1 /\ j + 1 - 1 = j /\ j + 1 \in 1..Len(l) + 1
      BY <1>1
    <3>3. r[j + 1] = m
      BY <1>3, <3>1, <3>2
    <3> QED
      BY <1>2, <3>2, <3>3 DEF ToSet
  <2> QED
    BY <2>1, <2>2, <2>3
<1>6. ASSUME NEW j \in 1..Len(l) + 1, NEW k \in 1..Len(l) + 1, r[j] = r[k] PROVE j = k
  <2>1. CASE j = 1 \/ k = 1
    <3>1. j # 1 => j \in 2..Len(l) + 1
      BY <1>1
    <3>2. k # 1 => k \in 2..Len(l) + 1
      BY <1>1
    <3> QED
      BY <1>2, <1>3, <1>4, <1>6, <2>1, <3>1, <3>2
  <2>2. CASE j # 1 /\ k # 1
    <3>1. j \in 2..Len(l) + 1 /\ k \in 2..Len(l) + 1
      BY <1>1, <2>2
    <3>2. l[j - 1] = l[k - 1] /\ j - 1 \in 1..Len(l) /\ k - 1 \in 1..Len(l)
      BY <1>3, <1>6, <3>1
    <3>3. j - 1 = k - 1
      BY <1>1, <3>2 DEF Arranged
    <3> QED
      BY <3>3
  <2> QED
    BY <2>1, <2>2
<1>7. Arranged(r, S \union {n})
  BY <1>2, <1>5, <1>6 DEF Arranged
<1>8. ASSUME NEW j \in 1..Len(r), NEW k \in 1..Len(r), j < k, r[j] \in S, r[k] \in S
      PROVE  x[r[j]][a] <= x[r[k]][a]
  <2>1. j # 1 /\ k # 1
    BY <1>1, <1>2, <1>8
  <2>2. j \in 2..Len(l) + 1 /\ k \in 2..Len(l) + 1 /\ j - 1 < k - 1
    BY <1>1, <1>2, <1>8, <2>1
  <2>3. /\ j - 1 \in 1..Len(l) /\ k - 1 \in 1..Len(l)
        /\ r[j] = l[j - 1] /\ r[k] = l[k - 1]
    BY <1>3, <2>2
  <2> QED
    BY <1>8, <2>2, <2>3 DEF Ordered
<1>9. Ordered(r, x, a, S)
  BY <1>8 DEF Ordered
<1> QED
  BY <1>7, <1>9 DEF r

(* A node that is inserted is at its place. *)
LEMMA InsertPlaced ==
    ASSUME NEW w, NEW S, NEW M, Placed(w, S, {}, M), NEW n \in Node \ S,
           ~IsEntity(n) => n[1] \in M
    PROVE  /\ Placed(InsertNode(w, n), S \union {n}, {}, M)
           /\ InsertNode(w, n).position = w.position
<1> DEFINE u == HeadOf(w, n)
           T == S \union {n}
           v == Update(u, n)
<1>1. InsertNode(w, n) = v
  BY DEF InsertNode, HeadOf
<1>2. Linked(w, S, M) /\ w \in Space /\ S \subseteq Node /\ Agree(w, M)
  BY DEF Placed, Linked
<1>3. FltMax \in Nat
  BY AoiAssumption
<1>4. ASSUME NEW a \in Axis
      PROVE  /\ Arranged(<<n>> \o w.list[a], T) /\ Ordered(<<n>> \o w.list[a], w.x, a, S)
             /\ <<n>> \o w.list[a] \in Seq(Node)
  <2>1. Arranged(w.list[a], S) /\ Ordered(w.list[a], w.x, a, S)
    BY DEF Placed, Linked
  <2>2. Arranged(<<n>> \o w.list[a], T) /\ Ordered(<<n>> \o w.list[a], w.x, a, S)
    BY <2>1, HeadArranged
  <2> DEFINE l == <<n>> \o w.list[a]
  <2>3. Arranged(l, T)
    BY <2>2
  <2> HIDE DEF l
  <2>4. l \in Seq(Node)
    BY <2>3 DEF Arranged
  <2> QED
    BY <2>2, <2>4 DEF l
<1>5. u \in Space
  <2> DEFINE ls == [a \in Axis |-> <<n>> \o w.list[a]]
             far == At(-FltMax)
  <2>1. ls \in [Axis -> Seq(Node)]
    BY <1>4
  <2>2. far \in [Axis -> Int]
    BY <1>3 DEF At
  <2>3. u = [w EXCEPT !.list = ls, !.old[n] = far]
    BY DEF HeadOf
  <2> HIDE DEF ls, far, u
  <2> QED
    BY <1>2, <2>1, <2>2, <2>3 DEF Space
<1>6. /\ u.position = w.position /\ u.range = w.range /\ u.x = w.x
      /\ u.ref = w.ref /\ u.witnesses = w.witnesses
      /\ u.list = [a \in Axis |-> <<n>> \o w.list[a]]
      /\ u.old = [w.old EXCEPT ![n] = At(-FltMax)]
  BY <1>2 DEF Space, HeadOf
<1> HIDE DEF u
<1>7. \A m \in S, a \in Axis : u.old[m][a] = w.old[m][a]
  BY <1>2, <1>6, SpaceParts
<1>8. \A a \in Axis : u.old[n][a] = -FltMax
  BY <1>2, <1>6, SpaceParts DEF At
<1>9. Linked(u, T, M)
  <2>1. Agree(u, M)
    BY <1>2, <1>6 DEF Agree
  <2>2. \A a \in Axis : Arranged(u.list[a], T)
    BY <1>4, <1>6
  <2>3. \A m \in T : ~IsEntity(m) => m[1] \in M
    BY <1>2 DEF Linked
  <2> QED
    BY <1>2, <1>5, <2>1, <2>2, <2>3 DEF Linked
<1>10. T \ {n} = S /\ n \in T /\ n \in Node
  OBVIOUS
<1>11. \A a \in Axis : Ordered(u.list[a], u.x, a, T \ {n})
  BY <1>4, <1>6, <1>10
<1>12. ASSUME NEW a \in Axis PROVE Settled(u, n, a, T)
  <2>1. Coord(u, n, a) = u.position[n[1]][a] + u.range[n]
    BY <1>5, <1>10, CoordIs
  <2>2. u.range[n] = 0
    BY <1>6, <1>10 DEF Placed
  <2>3. u.position[n[1]][a] \in World
    BY <1>5, <1>10, SpaceParts, NodeKinds
  <2>4. u.position[n[1]][a] \in Int /\ u.position[n[1]][a] # -FltMax
    BY <2>3, WorldIs
  <2>5. Coord(u, n, a) # u.old[n][a]
    BY <1>8, <2>1, <2>2, <2>4
  <2> QED
    BY <2>5 DEF Settled
<1> HIDE DEF T
<1>13. Linked(v, T, M) /\ Updated(v, u, n, T)
  BY <1>9, <1>10, <1>11, UpdateUpdates
<1> HIDE DEF v
<1>14. \A a \in Axis : /\ v.old[n][a] = Coord(u, n, a) /\ v.x[n][a] = Coord(u, n, a)
                       /\ Ordered(v.list[a], v.x, a, T)
  BY <1>12, <1>13 DEF Updated
<1>15. v.position = w.position /\ v.range = w.range
  BY <1>6, <1>13 DEF Updated
<1>16. \A m, a : Coord(v, m, a) = Coord(w, m, a) /\ Coord(u, m, a) = Coord(w, m, a)
  BY <1>6, <1>15, CoordSame
<1>17. ASSUME NEW m \in T, NEW a \in Axis
       PROVE  v.old[m][a] = v.x[m][a] /\ v.x[m][a] = Coord(v, m, a)
  <2>1. CASE m = n
    BY <1>14, <1>16, <2>1
  <2>2. CASE m # n
    <3>0. m \in S /\ m \in Node \ {n}
      BY <1>2, <1>10, <2>2
    <3>1. v.x[m][a] = u.x[m][a] /\ v.old[m][a] = u.old[m][a]
      BY <1>13, <3>0 DEF Updated
    <3>2. w.old[m][a] = w.x[m][a] /\ w.x[m][a] = Coord(w, m, a)
      BY <3>0 DEF Placed
    <3> QED
      BY <1>6, <1>7, <1>16, <3>0, <3>1, <3>2
  <2> QED
    BY <2>1, <2>2
<1>18. \A m \in Node : m \notin T \/ IsEntity(m) => v.range[m] = 0
  BY <1>10, <1>15 DEF Placed
<1>19. Placed(v, T, {}, M)
  BY <1>13, <1>14, <1>17, <1>18 DEF Placed
<1> QED
  BY <1>1, <1>15, <1>19 DEF T

(* The range of a boundary has been written. *)
Reranged(u, w, b) ==
    /\ u.position = w.position /\ u.x = w.x /\ u.list = w.list
    /\ \A m \in Node \ {b} : u.range[m] = w.range[m] /\ u.old[m] = w.old[m]

LEMMA RangePlaced ==
    ASSUME NEW w, NEW S, NEW M, Placed(w, S, {}, M), NEW b \in S, ~IsEntity(b),
           NEW u, Linked(u, S, M), Reranged(u, w, b), \A a \in Axis : Settled(u, b, a, S)
    PROVE  Placed(Update(u, b), S, {}, M) /\ Update(u, b).position = w.position
<1> DEFINE v == Update(u, b)
<1>1. S \subseteq Node
  BY DEF Linked
<1>2. \A a \in Axis : Ordered(u.list[a], u.x, a, S \ {b})
  BY OrderedLess DEF Placed, Reranged
<1>3. Linked(v, S, M) /\ Updated(v, u, b, S)
  BY <1>2, UpdateUpdates
<1> HIDE DEF v
<1>4. \A a \in Axis : /\ v.old[b][a] = Coord(u, b, a) /\ v.x[b][a] = Coord(u, b, a)
                      /\ Ordered(v.list[a], v.x, a, S)
  BY <1>3 DEF Updated
<1>5. v.position = u.position /\ v.range = u.range /\ u.position = w.position
  BY <1>3 DEF Updated, Reranged
<1>6. \A m, a : Coord(v, m, a) = Coord(u, m, a)
  BY <1>5, CoordSame
<1>7. ASSUME NEW m \in S, NEW a \in Axis
      PROVE  v.old[m][a] = v.x[m][a] /\ v.x[m][a] = Coord(v, m, a)
  <2>1. CASE m = b
    BY <1>4, <1>6, <2>1
  <2>2. CASE m # b
    <3>0. m \in Node \ {b}
      BY <1>1, <2>2
    <3>1. v.x[m][a] = u.x[m][a] /\ v.old[m][a] = u.old[m][a]
      BY <1>3, <3>0 DEF Updated
    <3>2. u.x = w.x /\ u.old[m] = w.old[m] /\ u.range[m] = w.range[m]
      BY <3>0 DEF Reranged
    <3>3. Coord(u, m, a) = Coord(w, m, a)
      BY <1>5, <3>2 DEF Coord
    <3>4. w.old[m][a] = w.x[m][a] /\ w.x[m][a] = Coord(w, m, a)
      BY DEF Placed
    <3> QED
      BY <1>6, <3>1, <3>2, <3>3, <3>4
  <2> QED
    BY <2>1, <2>2
<1>8. ASSUME NEW m \in Node, m \notin S \/ IsEntity(m) PROVE v.range[m] = 0
  <2>1. m # b
    BY <1>8
  <2> QED
    BY <1>5, <1>8, <2>1 DEF Placed, Reranged
<1>9. Placed(v, S, {}, M)
  BY <1>3, <1>4, <1>7, <1>8 DEF Placed
<1> QED
  BY <1>5, <1>9 DEF v

LEMMA SetBoundaryPlaced ==
    ASSUME NEW w, NEW S, NEW M, Placed(w, S, {}, M), NEW b \in S, ~IsEntity(b),
           NEW from \in Int, NEW r \in Int, \A p \in World : p + r # from
    PROVE  /\ Placed(SetBoundary(w, b, from, r), S, {}, M)
           /\ SetBoundary(w, b, from, r).position = w.position
<1> DEFINE u == [w EXCEPT !.old[b] = At(from), !.range[b] = r, !.oldRange[b] = r]
<1>1. SetBoundary(w, b, from, r) = Update(u, b)
  BY DEF SetBoundary
<1>2. Linked(w, S, M) /\ w \in Space /\ b \in Node /\ Agree(w, M)
  BY DEF Placed, Linked
<1>3. At(from) \in [Axis -> Int]
  BY DEF At
<1>4. u \in Space
  BY <1>2, <1>3 DEF Space
<1>5. /\ u.position = w.position /\ u.x = w.x /\ u.list = w.list
      /\ u.ref = w.ref /\ u.witnesses = w.witnesses
      /\ u.old = [w.old EXCEPT ![b] = At(from)] /\ u.range = [w.range EXCEPT ![b] = r]
  BY <1>2 DEF Space
<1> HIDE DEF u
<1>6. u.old[b] = At(from) /\ u.range[b] = r
  BY <1>2, <1>5, SpaceParts
<1>7. \A m \in Node \ {b} : u.range[m] = w.range[m] /\ u.old[m] = w.old[m]
  BY <1>2, <1>5, SpaceParts
<1>8. Reranged(u, w, b)
  BY <1>5, <1>7 DEF Reranged
<1>9. Agree(u, M)
  BY <1>2, <1>5 DEF Agree
<1>10. Linked(u, S, M)
  BY <1>2, <1>4, <1>5, <1>9 DEF Linked
<1>11. ASSUME NEW a \in Axis PROVE Settled(u, b, a, S)
  <2>1. Coord(u, b, a) = u.position[b[1]][a] + r
    BY <1>2, <1>4, <1>6, CoordIs
  <2>2. u.position[b[1]][a] \in World
    BY <1>2, <1>4, SpaceParts, NodeKinds
  <2>3. u.old[b][a] = from
    BY <1>6 DEF At
  <2>4. Coord(u, b, a) # u.old[b][a]
    BY <2>1, <2>2, <2>3
  <2> QED
    BY <2>4 DEF Settled
<1> QED
  BY <1>1, <1>8, <1>10, <1>11, RangePlaced

LEMMA ResizePlaced ==
    ASSUME NEW w, NEW S, NEW M, Placed(w, S, {}, M), NEW b \in S, ~IsEntity(b),
           NEW r \in Int
    PROVE  LET v == Update([w EXCEPT !.range[b] = r], b)
           IN  Placed(v, S, {}, M) /\ v.position = w.position
<1> DEFINE u == [w EXCEPT !.range[b] = r]
<1>2. Linked(w, S, M) /\ w \in Space /\ b \in Node /\ Agree(w, M)
  BY DEF Placed, Linked
<1>4. u \in Space
  BY <1>2 DEF Space
<1>5. /\ u.position = w.position /\ u.x = w.x /\ u.list = w.list /\ u.old = w.old
      /\ u.ref = w.ref /\ u.witnesses = w.witnesses /\ u.range = [w.range EXCEPT ![b] = r]
  BY <1>2 DEF Space
<1> SUFFICES Placed(Update(u, b), S, {}, M) /\ Update(u, b).position = w.position
  OBVIOUS
<1> HIDE DEF u
<1>7. \A m \in Node \ {b} : u.range[m] = w.range[m] /\ u.old[m] = w.old[m]
  BY <1>2, <1>5, SpaceParts
<1>8. Reranged(u, w, b)
  BY <1>5, <1>7 DEF Reranged
<1>9. Agree(u, M)
  BY <1>2, <1>5 DEF Agree
<1>10. Linked(u, S, M)
  BY <1>2, <1>4, <1>5, <1>9 DEF Linked
<1>11. ASSUME NEW a \in Axis PROVE Settled(u, b, a, S)
  <2>1. u.old[b][a] = u.x[b][a] /\ Ordered(u.list[a], u.x, a, S)
    BY <1>5 DEF Placed
  <2> QED
    BY <2>1 DEF Settled
<1> QED
  BY <1>8, <1>10, <1>11, RangePlaced

LEMMA RemoveArranged ==
    ASSUME NEW S, NEW l, Arranged(l, S), NEW n \in S, NEW x, NEW a,
           Ordered(l, x, a, S \ {n})
    PROVE  /\ Arranged(RemoveAt(l, Place(l, n)), S \ {n})
           /\ Ordered(RemoveAt(l, Place(l, n)), x, a, S \ {n})
<1> DEFINE i == Place(l, n)
           r == RemoveAt(l, i)
           f(k) == IF k < i THEN k ELSE k + 1
<1>1. l \in Seq(Node) /\ Len(l) \in Nat /\ DOMAIN l = 1..Len(l)
  BY DEF Arranged
<1>2. i \in 1..Len(l) /\ l[i] = n /\ \A k \in 1..Len(l) : l[k] = n => k = i
  BY PlaceIs
<1> HIDE DEF i
<1>3. /\ r \in Seq(Node) /\ Len(r) = Len(l) - 1
      /\ \A k \in 1..Len(l) - 1 : r[k] = IF k < i THEN l[k] ELSE l[k + 1]
  <2>1. Without(r, l, i)
    BY <1>1, <1>2, RemoveAtIs
  <2> HIDE DEF r
  <2> QED
    BY <2>1 DEF Without
<1> HIDE DEF r
<1>4. DOMAIN r = 1..Len(l) - 1 /\ Len(l) - 1 \in Nat
  BY <1>1, <1>2, <1>3
<1>5. \A k \in 1..Len(l) - 1 : f(k) \in 1..Len(l) /\ f(k) # i /\ r[k] = l[f(k)]
  BY <1>1, <1>2, <1>3
<1>6. \A j, k \in 1..Len(l) - 1 : j < k => f(j) < f(k)
  BY <1>1, <1>2
<1>7. ToSet(r) = S \ {n}
  <2>1. ASSUME NEW m \in ToSet(r) PROVE m \in S \ {n}
    <3>1. PICK k \in 1..Len(l) - 1 : m = r[k]
      BY <1>4 DEF ToSet
    <3>2. f(k) \in 1..Len(l) /\ f(k) # i /\ m = l[f(k)]
      BY <1>5, <3>1
    <3> HIDE DEF f
    <3> QED
      BY <1>1, <1>2, <3>2 DEF Arranged, ToSet
  <2>2. ASSUME NEW m \in S \ {n} PROVE m \in ToSet(r)
    <3>1. PICK j \in 1..Len(l) : m = l[j]
      BY <1>1 DEF Arranged, ToSet
    <3>2. j # i
      BY <1>2, <3>1
    <3> DEFINE k == IF j < i THEN j ELSE j - 1
    <3>3. k \in 1..Len(l) - 1 /\ f(k) = j
      BY <1>1, <1>2, <3>2
    <3> HIDE DEF k, f
    <3>4. r[k] = m
      BY <1>5, <3>1, <3>3
    <3> QED
      BY <1>4, <3>3, <3>4 DEF ToSet
  <2> QED
    BY <2>1, <2>2
<1>8. ASSUME NEW j \in 1..Len(l) - 1, NEW k \in 1..Len(l) - 1, r[j] = r[k] PROVE j = k
  <2>1. f(j) = f(k)
    <3> HIDE DEF f
    <3> QED
      BY <1>1, <1>5, <1>8 DEF Arranged
  <2> QED
    BY <1>2, <2>1
<1>9. ASSUME NEW j \in 1..Len(r), NEW k \in 1..Len(r), j < k, r[j] \in S \ {n},
             r[k] \in S \ {n}
      PROVE  x[r[j]][a] <= x[r[k]][a]
  <2>1. j \in 1..Len(l) - 1 /\ k \in 1..Len(l) - 1
    BY <1>3
  <2> HIDE DEF f
  <2>2. f(j) < f(k) /\ f(j) \in 1..Len(l) /\ f(k) \in 1..Len(l)
        /\ r[j] = l[f(j)] /\ r[k] = l[f(k)]
    BY <1>5, <1>6, <1>9, <2>1
  <2> QED
    BY <1>9, <2>2 DEF Ordered
<1>10. Arranged(r, S \ {n})
  BY <1>3, <1>4, <1>7, <1>8 DEF Arranged
<1>11. Ordered(r, x, a, S \ {n})
  BY <1>9 DEF Ordered
<1> QED
  BY <1>10, <1>11 DEF r, i

(* A node goes; the others stay in order. *)
LEMMA RemovePlaced ==
    ASSUME NEW w, NEW S, NEW M, Placed(w, S, {}, M), NEW n \in S
    PROVE  /\ Placed(RemoveNode(w, n), S \ {n}, {}, M)
           /\ RemoveNode(w, n).position = w.position
<1> DEFINE u == [w EXCEPT !.old[n] = w.x[n], !.x[n][1] = -FltMax]
           t == IF IsEntity(n) THEN Update(u, n) ELSE u
           ls == [a \in Axis |-> RemoveAt(t.list[a], Place(t.list[a], n))]
           v == [t EXCEPT !.list = ls, !.x[n] = At(0), !.old[n] = At(0),
                          !.range[n] = 0, !.oldRange[n] = 0]
           T == S \ {n}
<1>1. RemoveNode(w, n) = v
  <2>1. RemoveNode(w, n) = ReleaseNode(t, n)
    BY DEF RemoveNode
  <2> HIDE DEF t
  <2> QED
    BY <2>1 DEF ReleaseNode
<1>2. Linked(w, S, M) /\ w \in Space /\ S \subseteq Node /\ n \in Node /\ Agree(w, M)
  BY DEF Placed, Linked
<1>3. -FltMax \in Int /\ 1 \in Axis /\ w.x[n] \in [Axis -> Int]
  BY <1>2, AoiAssumption, SpaceParts DEF Axis
<1>4. u \in Space
  BY <1>2, <1>3 DEF Space
<1>5. /\ u.position = w.position /\ u.range = w.range /\ u.list = w.list
      /\ u.ref = w.ref /\ u.witnesses = w.witnesses
      /\ u.old = [w.old EXCEPT ![n] = w.x[n]]
      /\ u.x = [w.x EXCEPT ![n][1] = -FltMax]
  BY <1>2 DEF Space
<1> HIDE DEF u
<1>6. \A m \in Node \ {n} : u.x[m] = w.x[m] /\ u.old[m] = w.old[m]
  BY <1>2, <1>5, SpaceParts
<1>7. Linked(u, S, M)
  <2>1. Agree(u, M)
    BY <1>2, <1>5 DEF Agree
  <2> QED
    BY <1>2, <1>4, <1>5, <2>1 DEF Linked
<1>8. ASSUME NEW a \in Axis PROVE Ordered(u.list[a], u.x, a, T)
  <2>1. Ordered(w.list[a], w.x, a, T)
    BY OrderedLess DEF Placed
  <2>2. \A m \in T : u.x[m][a] = w.x[m][a]
    BY <1>2, <1>6
  <2> HIDE DEF T
  <2>3. Ordered(w.list[a], u.x, a, T)
    BY <2>1, <2>2, OrderedSame
  <2> QED
    BY <1>5, <2>3
<1>9. /\ Linked(t, S, M) /\ t.position = w.position /\ t.range = w.range
      /\ \A a \in Axis : Ordered(t.list[a], t.x, a, T)
      /\ \A m \in Node \ {n}, a \in Axis : t.x[m][a] = w.x[m][a] /\ t.old[m][a] = w.old[m][a]
  <2>1. CASE IsEntity(n)
    <3>1. t = Update(u, n)
      BY <2>1
    <3> HIDE DEF t
    <3>2. Linked(t, S, M) /\ Updated(t, u, n, S)
      BY <1>7, <1>8, <3>1, UpdateUpdates
    <3>3. t.position = w.position /\ t.range = w.range
      BY <1>5, <3>2 DEF Updated
    <3>4. \A a \in Axis : Ordered(t.list[a], t.x, a, T)
      BY <3>2 DEF Updated
    <3>5. \A m \in Node \ {n}, a \in Axis :
            t.x[m][a] = u.x[m][a] /\ t.old[m][a] = u.old[m][a]
      BY <3>2 DEF Updated
    <3> QED
      BY <1>6, <3>2, <3>3, <3>4, <3>5
  <2>2. CASE ~IsEntity(n)
    <3>1. t = u
      BY <2>2
    <3> HIDE DEF t
    <3> QED
      BY <1>5, <1>6, <1>7, <1>8, <3>1
  <2> QED
    BY <2>1, <2>2
<1> HIDE DEF t
<1>10. t \in Space /\ Agree(t, M)
  BY <1>9 DEF Linked
<1>11. ASSUME NEW a \in Axis
       PROVE  Arranged(ls[a], T) /\ Ordered(ls[a], t.x, a, T) /\ ls[a] \in Seq(Node)
  <2>1. Arranged(t.list[a], S) /\ Ordered(t.list[a], t.x, a, S \ {n})
    BY <1>9 DEF Linked
  <2>2. Arranged(ls[a], T) /\ Ordered(ls[a], t.x, a, T)
    BY <2>1, RemoveArranged
  <2> QED
    BY <2>2 DEF Arranged
<1>12. ls \in [Axis -> Seq(Node)] /\ At(0) \in [Axis -> Int]
  BY <1>11 DEF At
<1> HIDE DEF ls
<1>13. v \in Space
  <2>1. /\ [t.x EXCEPT ![n] = At(0)] \in [Node -> [Axis -> Int]]
        /\ [t.old EXCEPT ![n] = At(0)] \in [Node -> [Axis -> Int]]
        /\ [t.range EXCEPT ![n] = 0] \in [Node -> Int]
        /\ [t.oldRange EXCEPT ![n] = 0] \in [Node -> Int]
    <3> DEFINE z == At(0)
    <3>1. z \in [Axis -> Int]
      BY <1>12
    <3> HIDE DEF z
    <3>2. /\ t.x \in [Node -> [Axis -> Int]] /\ t.old \in [Node -> [Axis -> Int]]
          /\ t.range \in [Node -> Int] /\ t.oldRange \in [Node -> Int]
      BY <1>10, SpaceParts
    <3>3. /\ [t.x EXCEPT ![n] = z] \in [Node -> [Axis -> Int]]
          /\ [t.old EXCEPT ![n] = z] \in [Node -> [Axis -> Int]]
      BY <3>1, <3>2
    <3> QED
      BY <3>2, <3>3 DEF z
  <2> QED
    BY <1>10, <1>12, <2>1 DEF Space
<1>14. /\ v.position = t.position /\ v.list = ls /\ v.ref = t.ref /\ v.witnesses = t.witnesses
       /\ v.x = [t.x EXCEPT ![n] = At(0)] /\ v.old = [t.old EXCEPT ![n] = At(0)]
       /\ v.range = [t.range EXCEPT ![n] = 0]
  BY <1>10 DEF Space
<1> HIDE DEF v
<1>15. /\ \A m \in Node \ {n} : v.x[m] = t.x[m] /\ v.old[m] = t.old[m] /\ v.range[m] = t.range[m]
       /\ v.range[n] = 0
  BY <1>2, <1>10, <1>14, SpaceParts
<1>16. Linked(v, T, M)
  <2>1. Agree(v, M)
    BY <1>10, <1>14 DEF Agree
  <2>2. \A m \in T : ~IsEntity(m) => m[1] \in M
    BY <1>2 DEF Linked
  <2> QED
    BY <1>2, <1>11, <1>13, <1>14, <2>1, <2>2 DEF Linked
<1>17. ASSUME NEW a \in Axis PROVE Ordered(v.list[a], v.x, a, T)
  <2>1. \A m \in T : v.x[m][a] = t.x[m][a]
    BY <1>2, <1>15
  <2>2. Ordered(v.list[a], t.x, a, T)
    BY <1>11, <1>14
  <2> HIDE DEF T
  <2> QED
    BY <2>1, <2>2, OrderedSame
<1>18. ASSUME NEW m \in T, NEW a \in Axis
       PROVE  v.old[m][a] = v.x[m][a] /\ v.x[m][a] = Coord(v, m, a)
  <2>1. m \in Node \ {n} /\ m \in S
    BY <1>2
  <2>2. v.old[m][a] = w.old[m][a] /\ v.x[m][a] = w.x[m][a] /\ v.range[m] = w.range[m]
    BY <1>9, <1>15, <2>1
  <2>3. Coord(v, m, a) = Coord(w, m, a)
    BY <1>9, <1>14, <2>2 DEF Coord
  <2>4. w.old[m][a] = w.x[m][a] /\ w.x[m][a] = Coord(w, m, a)
    BY <2>1 DEF Placed
  <2> QED
    BY <2>2, <2>3, <2>4
<1>19. ASSUME NEW m \in Node, m \notin T \/ IsEntity(m) PROVE v.range[m] = 0
  <2>1. CASE m = n
    BY <1>15, <2>1
  <2>2. CASE m # n
    <3>1. w.range[m] = 0
      BY <1>19, <2>2 DEF Placed
    <3> QED
      BY <1>9, <1>15, <2>2, <3>1
  <2> QED
    BY <2>1, <2>2
<1>20. Placed(v, T, {}, M)
  BY <1>16, <1>17, <1>18, <1>19 DEF Placed
<1> QED
  BY <1>1, <1>9, <1>14, <1>20

-----------------------------------------------------------------------------
(* The actions. *)

NodesOf(M) == {n \in Node : n[1] \in M}

LEMMA OwnNodes ==
    ASSUME NEW e \in Entity
    PROVE  NodesOf({e}) = {EntityNode(e),
                           Boundary(e, "hysteresis", 1), Boundary(e, "hysteresis", -1),
                           Boundary(e, "aoi", 1), Boundary(e, "aoi", -1)}
  BY DEF NodesOf, Node, EntityNode, Boundary, Area

LEMMA OwnDiffer ==
    ASSUME NEW e \in Entity
    PROVE  /\ \A area \in Area, s \in {-1, 1} : Boundary(e, area, s) # EntityNode(e)
           /\ \A s, t \in {-1, 1} : Boundary(e, "aoi", s) # Boundary(e, "hysteresis", t)
           /\ \A area \in Area : Boundary(e, area, 1) # Boundary(e, area, -1)
  BY DEF EntityNode, Boundary, Area

LEMMA AreaIs == "aoi" \in Area /\ "hysteresis" \in Area
  BY DEF Area

(* The boundaries of a trigger of this range are never at FLT_MAX. *)
Fits(r) == \A p \in World : p + r < FltMax /\ -FltMax < p - r

LEMMA RadiusFits ==
    ASSUME NEW r \in Radii \union {FirstRadius}
    PROVE  r[1] \in Nat /\ r[2] \in Nat /\ Fits(r[1]) /\ Fits(r[1] + r[2])
<1>1. r[1] \in Nat /\ r[2] \in Nat
  BY AoiAssumption
<1>2. \A p \in World : p + r[1] + r[2] < FltMax /\ -FltMax < p - r[1] - r[2]
  BY AoiAssumption
<1>3. ASSUME NEW p \in World
      PROVE  /\ p + r[1] < FltMax /\ -FltMax < p - r[1]
             /\ p + (r[1] + r[2]) < FltMax /\ -FltMax < p - (r[1] + r[2])
  <2>1. p \in Int /\ FltMax \in Nat
    BY WorldIs
  <2> QED
    BY <1>1, <1>2, <2>1
<1> QED
  BY <1>1, <1>3 DEF Fits

LEMMA FitsApart ==
    ASSUME NEW r \in Nat, Fits(r)
    PROVE  /\ \A p \in World : p + r # FltMax /\ p + (-r) # -FltMax
           /\ FltMax \in Int /\ -FltMax \in Int /\ -r \in Int
<1>1. FltMax \in Nat
  BY AoiAssumption
<1>2. ASSUME NEW p \in World PROVE p + r # FltMax /\ p + (-r) # -FltMax
  <2>1. p \in Int
    BY WorldIs
  <2>2. p + r < FltMax /\ -FltMax < p - r
    BY DEF Fits
  <2> QED
    BY <1>1, <2>1, <2>2
<1> QED
  BY <1>1, <1>2

LEMMA ToldPlaced ==
    ASSUME NEW v, NEW w, NEW S, NEW M, Placed(w, S, {}, M), Told(v, w), NEW N,
           Agree(v, N), \A m \in S : ~IsEntity(m) => m[1] \in N
    PROVE  Placed(v, S, {}, N) /\ v.position = w.position
<1>1. Linked(v, S, N)
  BY DEF Placed, Linked, Told
<1>2. \A m, a : Coord(v, m, a) = Coord(w, m, a)
  BY CoordSame DEF Told
<1> QED
  BY <1>1, <1>2 DEF Placed, Told

(* install() leaves both boundaries at their distances. *)
LEMMA InstallPlaced ==
    ASSUME NEW w, NEW S, NEW M, Placed(w, S, {}, M), NEW e \in Entity, e \in M,
           NEW area \in Area, range_xz[e][area] \in Nat, Fits(range_xz[e][area]),
           Boundary(e, area, 1) \notin S, Boundary(e, area, -1) \notin S
    PROVE  Placed(Install(w, e, area),
                  S \union {Boundary(e, area, 1), Boundary(e, area, -1)}, {}, M)
<1> DEFINE r == range_xz[e][area]
           neg == Boundary(e, area, -1)
           pos == Boundary(e, area, 1)
           w1 == InsertNode(w, pos)
           w2 == InsertNode(w1, neg)
           w3 == SetBoundary(w2, neg, -FltMax, -r)
           w4 == SetBoundary(w3, pos, FltMax, r)
           T == S \union {pos, neg}
<1>1. Install(w, e, area) = w4
  BY DEF Install
<1>2. /\ pos \in Node /\ neg \in Node /\ ~IsEntity(pos) /\ ~IsEntity(neg)
      /\ pos[1] \in M /\ neg[1] \in M /\ pos # neg /\ pos \notin S /\ neg \notin S
  BY NodeKinds, OwnDiffer
<1>3. /\ r \in Nat /\ \A p \in World : p + r # FltMax /\ p + (-r) # -FltMax
      /\ FltMax \in Int /\ -FltMax \in Int /\ -r \in Int
  BY FitsApart
<1> HIDE DEF neg, pos, r
<1>4. Placed(w1, S \union {pos}, {}, M)
  BY <1>2, InsertPlaced
<1> HIDE DEF w1
<1>5. Placed(w2, T, {}, M)
  <2>1. (S \union {pos}) \union {neg} = T /\ neg \in Node \ (S \union {pos})
    BY <1>2
  <2>2. Placed(w2, (S \union {pos}) \union {neg}, {}, M)
    BY <1>2, <1>4, <2>1, InsertPlaced
  <2> QED
    BY <2>1, <2>2
<1>6. pos \in T /\ neg \in T
  OBVIOUS
<1> HIDE DEF w2, T
<1>7. Placed(w3, T, {}, M)
  BY <1>2, <1>3, <1>5, <1>6, SetBoundaryPlaced
<1> HIDE DEF w3
<1>8. Placed(w4, T, {}, M)
  BY <1>2, <1>3, <1>6, <1>7, SetBoundaryPlaced
<1> QED
  BY <1>1, <1>8 DEF T, pos, neg

(* uninstall() takes both boundaries out. *)
LEMMA UninstallPlaced ==
    ASSUME NEW w, NEW S, NEW M, Placed(w, S, {}, M), NEW e \in Entity,
           NEW area \in Area, Boundary(e, area, 1) \in S, Boundary(e, area, -1) \in S
    PROVE  Placed(Uninstall(w, e, area),
                  S \ {Boundary(e, area, 1), Boundary(e, area, -1)}, {}, M)
<1> DEFINE neg == Boundary(e, area, -1)
           pos == Boundary(e, area, 1)
           w1 == RemoveNode(w, pos)
           w2 == RemoveNode(w1, neg)
           s == {}
           t == w2.repeated
           v == [w2 EXCEPT !.inside[e][area] = s, !.repeated = t]
           T == (S \ {pos}) \ {neg}
<1>1. Uninstall(w, e, area) = [w2 EXCEPT !.inside[e][area] = s]
  BY DEF Uninstall
<1>2. /\ pos \in Node /\ neg \in Node /\ ~IsEntity(pos) /\ ~IsEntity(neg)
      /\ pos # neg /\ pos \in S /\ neg \in S
  BY NodeKinds, OwnDiffer
<1> HIDE DEF neg, pos
<1>4. Placed(w1, S \ {pos}, {}, M)
  BY <1>2, RemovePlaced
<1> HIDE DEF w1
<1>6. neg \in S \ {pos}
  BY <1>2
<1>7. Placed(w2, T, {}, M)
  BY <1>4, <1>6, RemovePlaced
<1> HIDE DEF w2, T
<1>9. w2 \in Space /\ Agree(w2, M) /\ (\A m \in T : ~IsEntity(m) => m[1] \in M)
  BY <1>7 DEF Placed, Linked
<1>10. s \in SUBSET Entity /\ t \in BOOLEAN
  BY <1>9, SpaceParts
<1>11. Uninstall(w, e, area) = v
  BY <1>1, <1>9 DEF Space
<1>12. Told(v, w2) /\ Agree(v, M)
  <2> HIDE DEF s, t
  <2> QED
    BY <1>9, <1>10, InsideTold
<1> HIDE DEF v
<1>13. Placed(v, T, {}, M)
  BY <1>7, <1>9, <1>12, ToldPlaced
<1>14. T = S \ {pos, neg}
  BY DEF T
<1> QED
  BY <1>11, <1>13, <1>14 DEF pos, neg

(* Witness::onLeaveSpace: e sees nobody any more. *)
LEMMA LeaveSpacePlaced ==
    ASSUME NEW w, NEW M \in SUBSET Entity, NEW e \in M, Placed(w, NodesOf(M), {}, M)
    PROVE  Placed(OnLeaveSpace(w, e), NodesOf(M \ {e}) \union {EntityNode(e)}, {}, M \ {e})
<1> DEFINE S == NodesOf(M)
           w1 == Uninstall(w, e, "aoi")
           u == Uninstall(w1, e, "hysteresis")
           S1 == S \ {Boundary(e, "aoi", 1), Boundary(e, "aoi", -1)}
           T == S1 \ {Boundary(e, "hysteresis", 1), Boundary(e, "hysteresis", -1)}
           f == [b \in Entity |-> "none"]
           g == [b \in Entity |->
                   [u.witnesses[b] EXCEPT ![e] = IF u.ref[e][b] = "enter" THEN 0 ELSE @]]
           v == [u EXCEPT !.ref[e] = f, !.witnesses = g]
<1>1. OnLeaveSpace(w, e) = v
  <2>1. OnLeaveSpace(w, e) = Forget(u, e)
    BY DEF OnLeaveSpace
  <2> HIDE DEF u
  <2> QED
    BY <2>1 DEF Forget
<1>2. e \in Entity /\ "aoi" \in Area /\ "hysteresis" \in Area
  BY DEF Area
<1>3. \A area \in Area, s \in {-1, 1} : Boundary(e, area, s) \in S
  BY <1>2, NodeKinds DEF NodesOf
<1>4. Placed(w1, S1, {}, M)
  <2>1. Boundary(e, "aoi", 1) \in S /\ Boundary(e, "aoi", -1) \in S
    BY <1>2, <1>3
  <2> HIDE DEF S
  <2> QED
    BY <1>2, <2>1, UninstallPlaced DEF S
<1> HIDE DEF w1
<1>5. Placed(u, T, {}, M)
  <2>1. Boundary(e, "hysteresis", 1) \in S1 /\ Boundary(e, "hysteresis", -1) \in S1
    BY <1>2, <1>3, OwnDiffer
  <2> HIDE DEF S1
  <2> QED
    BY <1>2, <1>4, <2>1, UninstallPlaced
<1> HIDE DEF u
<1>6. u \in Space /\ Agree(u, M)
  BY <1>5 DEF Placed, Linked
<1>7. T = NodesOf(M \ {e}) \union {EntityNode(e)}
  <2>1. S = NodesOf(M \ {e}) \union NodesOf({e})
    BY DEF NodesOf
  <2>2. \A n \in NodesOf(M \ {e}) : n[1] # e
    BY DEF NodesOf
  <2>3. \A area \in Area, s \in {-1, 1} : Boundary(e, area, s)[1] = e
    BY <1>2, NodeKinds
  <2>4. NodesOf({e}) = {EntityNode(e),
                        Boundary(e, "hysteresis", 1), Boundary(e, "hysteresis", -1),
                        Boundary(e, "aoi", 1), Boundary(e, "aoi", -1)}
    BY <1>2, OwnNodes
  <2>5. \A area \in Area, s \in {-1, 1} :
          Boundary(e, area, s) # EntityNode(e) /\ Boundary(e, area, s) \notin NodesOf(M \ {e})
    BY <1>2, <2>2, <2>3, OwnDiffer
  <2> HIDE DEF S
  <2> QED
    BY <1>2, <2>1, <2>4, <2>5
<1>8. f \in [Entity -> {"none", "enter", "leave"}] /\ g \in [Entity -> [Entity -> Nat]]
  BY <1>6, SpaceParts
<1>9. /\ \A b \in Entity : g[b][e] = IF u.ref[e][b] = "enter" THEN 0 ELSE u.witnesses[b][e]
      /\ \A b \in Entity, c \in Entity \ {e} : g[b][c] = u.witnesses[b][c]
      /\ \A b \in Entity : f[b] = "none"
  BY <1>2, <1>6, SpaceParts
<1> HIDE DEF f, g
<1>10. v \in Space
  BY <1>2, <1>6, <1>8 DEF Space
<1>11. v.witnesses = g /\ v.ref = [u.ref EXCEPT ![e] = f]
  BY <1>6 DEF Space
<1>12. Told(v, u)
  BY <1>6, <1>10 DEF Told, Space
<1> HIDE DEF v
<1>13. v.ref[e] = f /\ \A c \in Entity \ {e} : v.ref[c] = u.ref[c]
  BY <1>2, <1>6, <1>11, SpaceParts
<1>14. Agree(v, M \ {e})
  <2> SUFFICES ASSUME NEW c \in Entity, NEW b \in Entity
               PROVE  /\ v.witnesses[b][c] = IF v.ref[c][b] = "enter" THEN 1 ELSE 0
                      /\ v.ref[c][b] = "enter" => c \in M \ {e}
    BY DEF Agree
  <2>1. CASE c = e
    <3>1. v.ref[c][b] = "none"
      BY <1>9, <1>13, <2>1
    <3>2. v.witnesses[b][c] = IF u.ref[e][b] = "enter" THEN 0 ELSE u.witnesses[b][e]
      BY <1>9, <1>11, <2>1
    <3>3. u.witnesses[b][e] = IF u.ref[e][b] = "enter" THEN 1 ELSE 0
      BY <1>2, <1>6 DEF Agree
    <3> QED
      BY <3>1, <3>2, <3>3
  <2>2. CASE c # e
    <3>1. v.ref[c][b] = u.ref[c][b] /\ v.witnesses[b][c] = u.witnesses[b][c]
      BY <1>9, <1>11, <1>13, <2>2
    <3> QED
      BY <1>6, <2>2, <3>1 DEF Agree
  <2> QED
    BY <2>1, <2>2
<1>15. \A m \in T : ~IsEntity(m) => m[1] \in M \ {e}
  BY <1>2, <1>7, NodeKinds DEF NodesOf
<1> HIDE DEF T
<1>16. Placed(v, T, {}, M \ {e})
  BY <1>5, <1>12, <1>14, <1>15, ToldPlaced
<1> QED
  BY <1>1, <1>7, <1>16

LEMMA MorePlaced ==
    ASSUME NEW w, NEW S, NEW M, NEW N, Placed(w, S, {}, M), M \subseteq N
    PROVE  Placed(w, S, {}, N)
<1>1. Agree(w, N)
  BY DEF Placed, Linked, Agree
<1> QED
  BY <1>1 DEF Placed, Linked

(* What holds between two requests. *)
AoiInv ==
    /\ m_Entities \subseteq Entity
    /\ range_xz \in [Entity -> [Area -> Nat]]
    /\ \A e \in Entity, area \in Area : Fits(range_xz[e][area])
    /\ Placed(space, NodesOf(m_Entities), {}, m_Entities)

(* The empty space. *)
LEMMA InitInv == Init => AoiInv
<1> SUFFICES ASSUME Init PROVE AoiInv
  OBVIOUS
<1>1. /\ FirstRadius[1] \in Nat /\ FirstRadius[2] \in Nat
      /\ Fits(FirstRadius[1]) /\ Fits(FirstRadius[1] + FirstRadius[2])
  BY RadiusFits
<1>2. ASSUME NEW e \in Entity, NEW area \in Area
      PROVE  range_xz[e][area] \in Nat /\ Fits(range_xz[e][area])
  <2>1. range_xz[e][area] = IF area = "aoi" THEN FirstRadius[1]
                            ELSE FirstRadius[1] + FirstRadius[2]
    BY DEF Init
  <2> QED
    BY <1>1, <2>1
<1>3. range_xz \in [Entity -> [Area -> Nat]]
  BY <1>2 DEF Init
<1>4. m_Entities = {} /\ NodesOf(m_Entities) = {}
  BY DEF Init, NodesOf
<1>5. PICK p \in [Entity -> Start] :
        space = [position  |-> p,
                 list      |-> At(<<>>),
                 x         |-> [n \in Node |-> At(0)],
                 old       |-> [n \in Node |-> At(0)],
                 range     |-> [n \in Node |-> 0],
                 oldRange  |-> [n \in Node |-> 0],
                 ref       |-> [e \in Entity |-> [b \in Entity |-> "none"]],
                 witnesses |-> [e \in Entity |-> [b \in Entity |-> 0]],
                 inside    |-> [e \in Entity |-> [a \in Area |-> {}]],
                 repeated  |-> FALSE]
  BY DEF Init
<1>6. p \in [Entity -> [Axis -> World]]
  BY AoiAssumption
<1>7. space \in Space
  BY <1>5, <1>6 DEF Space, At
<1>8. /\ space.list = At(<<>>) /\ space.range = [n \in Node |-> 0]
      /\ space.ref = [e \in Entity |-> [b \in Entity |-> "none"]]
      /\ space.witnesses = [e \in Entity |-> [b \in Entity |-> 0]]
  BY <1>5
<1>9. \A a \in Axis : Arranged(space.list[a], {}) /\ Ordered(space.list[a], space.x, a, {})
  BY <1>8 DEF At, Arranged, Ordered, ToSet
<1>10. Agree(space, {})
  BY <1>8 DEF Agree
<1>11. Linked(space, {}, {})
  BY <1>7, <1>9, <1>10 DEF Linked
<1>12. Placed(space, {}, {}, {})
  BY <1>8, <1>9, <1>11 DEF Placed
<1> QED
  BY <1>2, <1>3, <1>4, <1>12 DEF AoiInv

(* The entity, then the boundaries of both areas are put in place. *)
LEMMA AddEntityInv ==
    ASSUME AoiInv, NEW e \in Entity, AddEntity(e)
    PROVE  AoiInv'
<1> DEFINE M == m_Entities
           N == M \union {e}
           S == NodesOf(M)
           w1 == InsertNode(space, EntityNode(e))
           w2 == Install(w1, e, "hysteresis")
           w3 == Install(w2, e, "aoi")
           S1 == S \union {EntityNode(e)}
           S2 == S1 \union {Boundary(e, "hysteresis", 1), Boundary(e, "hysteresis", -1)}
           S3 == S2 \union {Boundary(e, "aoi", 1), Boundary(e, "aoi", -1)}
<1>1. /\ e \notin M /\ m_Entities' = N /\ space' = w3 /\ UNCHANGED range_xz
  BY DEF AddEntity, InstallAOITrigger
<1>2. Placed(space, S, {}, N)
  BY MorePlaced DEF AoiInv
<1>3. \A n \in S : n[1] # e
  BY <1>1 DEF NodesOf
<1>4. EntityNode(e) \in Node \ S /\ IsEntity(EntityNode(e))
  BY <1>3, NodeKinds
<1>5. \A area \in Area, s \in {-1, 1} : Boundary(e, area, s) \notin S
  BY <1>3, NodeKinds
<1>6. "aoi" \in Area /\ "hysteresis" \in Area /\ e \in N
  BY DEF Area
<1>7. \A area \in Area : range_xz[e][area] \in Nat /\ Fits(range_xz[e][area])
  BY DEF AoiInv
<1>8. Placed(w1, S1, {}, N)
  <2> HIDE DEF N, S
  <2> QED
    BY <1>2, <1>4, InsertPlaced
<1>9. Placed(w2, S2, {}, N)
  <2>1. Boundary(e, "hysteresis", 1) \notin S1 /\ Boundary(e, "hysteresis", -1) \notin S1
    BY <1>5, <1>6, OwnDiffer
  <2> HIDE DEF S1, w1, N
  <2> QED
    BY <1>6, <1>7, <1>8, <2>1, InstallPlaced
<1>10. Placed(w3, S3, {}, N)
  <2>1. Boundary(e, "aoi", 1) \notin S2 /\ Boundary(e, "aoi", -1) \notin S2
    <3> HIDE DEF S
    <3> QED
      BY <1>5, <1>6, OwnDiffer
  <2> HIDE DEF S2, w2, N
  <2> QED
    BY <1>6, <1>7, <1>9, <2>1, InstallPlaced
<1>11. S3 = NodesOf(N)
  <2>1. NodesOf(N) = S \union NodesOf({e})
    BY DEF NodesOf
  <2> HIDE DEF S
  <2> QED
    BY <2>1, OwnNodes
<1> HIDE DEF w3, S3
<1>12. Placed(space', NodesOf(N), {}, N)
  BY <1>1, <1>10, <1>11
<1> QED
  BY <1>1, <1>12 DEF AoiInv

(* A move puts five nodes out of place and brings them back one by one. *)
LEMMA MoveInv ==
    ASSUME AoiInv, NEW e \in Entity, NEW d \in Step, Move(e, d)
    PROVE  AoiInv'
<1> DEFINE M == m_Entities
           S == NodesOf(M)
           D == NodesOf({e})
           p == [a \in Axis |-> space.position[e][a] + d[a]]
           w == [space EXCEPT !.position[e] = p]
           w1 == Update(w, EntityNode(e))
           w2 == Update(w1, Boundary(e, "hysteresis", 1))
           w3 == Update(w2, Boundary(e, "hysteresis", -1))
           w4 == Update(w3, Boundary(e, "aoi", 1))
           w5 == Update(w4, Boundary(e, "aoi", -1))
<1>1. /\ e \in M /\ (\A a \in Axis : space.position[e][a] + d[a] \in World)
      /\ space' = w5 /\ UNCHANGED <<m_Entities, range_xz>>
  BY DEF Move
<1>2. Placed(space, S, {}, M) /\ space \in Space /\ Linked(space, S, M)
  BY DEF AoiInv, Placed, Linked
<1>3. p \in [Axis -> World]
  BY <1>1
<1> HIDE DEF p
<1>4. w \in Space
  BY <1>2, <1>3 DEF Space
<1>5. /\ w.x = space.x /\ w.old = space.old /\ w.range = space.range /\ w.list = space.list
      /\ w.ref = space.ref /\ w.witnesses = space.witnesses
      /\ w.position = [space.position EXCEPT ![e] = p]
  BY <1>2 DEF Space
<1> HIDE DEF w
<1>6. Placed(w, S, D, M)
  <2>1. Agree(w, M)
    BY <1>2, <1>5 DEF Agree, Linked
  <2>2. Linked(w, S, M)
    BY <1>2, <1>4, <1>5, <2>1 DEF Linked
  <2>3. ASSUME NEW m \in S \ D, NEW a \in Axis PROVE w.x[m][a] = Coord(w, m, a)
    <3>1. m \in Node /\ m[1] # e /\ m[1] \in Entity
      BY NodeKinds DEF NodesOf
    <3>2. w.position[m[1]] = space.position[m[1]]
      BY <1>2, <1>5, <3>1, SpaceParts
    <3>3. Coord(w, m, a) = Coord(space, m, a)
      BY <1>5, <3>2 DEF Coord
    <3> QED
      BY <1>2, <1>5, <3>3 DEF Placed
  <2> HIDE DEF S, D
  <2> QED
    BY <1>2, <1>5, <2>2, <2>3 DEF Placed
<1>7. /\ EntityNode(e) \in S /\ \A area \in Area, s \in {-1, 1} : Boundary(e, area, s) \in S
      /\ "aoi" \in Area /\ "hysteresis" \in Area
  BY <1>1, NodeKinds DEF NodesOf, Area
<1> DEFINE D1 == D \ {EntityNode(e)}
           D2 == D1 \ {Boundary(e, "hysteresis", 1)}
           D3 == D2 \ {Boundary(e, "hysteresis", -1)}
           D4 == D3 \ {Boundary(e, "aoi", 1)}
           D5 == D4 \ {Boundary(e, "aoi", -1)}
<1>d. D5 = {}
  BY OwnNodes
<1> HIDE DEF S, D
<1>8. Placed(w1, S, D1, M)
  BY <1>6, <1>7, UpdatePlaced
<1> HIDE DEF D1, w1
<1>9. Placed(w2, S, D2, M)
  BY <1>7, <1>8, UpdatePlaced
<1> HIDE DEF D2, w2
<1>10. Placed(w3, S, D3, M)
  BY <1>7, <1>9, UpdatePlaced
<1> HIDE DEF D3, w3
<1>11. Placed(w4, S, D4, M)
  BY <1>7, <1>10, UpdatePlaced
<1> HIDE DEF D4, w4
<1>12. Placed(w5, S, D5, M)
  BY <1>7, <1>11, UpdatePlaced
<1> HIDE DEF w5, D5
<1>13. Placed(space', NodesOf(m_Entities'), {}, m_Entities')
  BY <1>1, <1>12, <1>d DEF S
<1> QED
  BY <1>1, <1>13 DEF AoiInv

(* All five nodes of the entity go. *)
LEMMA DeleteEntityInv ==
    ASSUME AoiInv, NEW e \in Entity, DeleteEntity(e)
    PROVE  AoiInv'
<1> DEFINE M == m_Entities
           N == M \ {e}
           n == EntityNode(e)
           w1 == OnLeaveSpace(space, e)
           w2 == RemoveNode(w1, n)
           S1 == NodesOf(N) \union {n}
<1>1. e \in M /\ m_Entities' = N /\ space' = w2 /\ UNCHANGED range_xz
  BY DEF DeleteEntity
<1>2. M \in SUBSET Entity /\ Placed(space, NodesOf(M), {}, M)
  BY DEF AoiInv
<1>3. Placed(w1, S1, {}, N)
  <2> HIDE DEF M
  <2> QED
    BY <1>1, <1>2, LeaveSpacePlaced
<1>4. n \notin NodesOf(N)
  BY NodeKinds DEF NodesOf
<1>5. S1 \ {n} = NodesOf(N) /\ n \in S1
  BY <1>4
<1> HIDE DEF w1, S1, N, n
<1>6. Placed(w2, NodesOf(N), {}, N)
  BY <1>3, <1>5, RemovePlaced
<1> QED
  BY <1>1, <1>2, <1>6 DEF AoiInv, N

(* One area gets its new size. *)
LEMMA ResizeInv ==
    ASSUME NEW w, NEW M, Placed(w, NodesOf(M), {}, M), NEW e \in Entity, e \in M,
           NEW area \in Area, NEW r \in Nat, M = m_Entities
    PROVE  Placed(Resize(w, e, area, r), NodesOf(M), {}, M)
<1> DEFINE S == NodesOf(M)
           pos == Boundary(e, area, 1)
           neg == Boundary(e, area, -1)
           w1 == Update([w EXCEPT !.range[pos] = 1 * r], pos)
           w2 == Update([w1 EXCEPT !.range[neg] = -1 * r], neg)
<1>1. Resize(w, e, area, r) = w2
  BY DEF Resize
<1>2. pos \in S /\ neg \in S /\ ~IsEntity(pos) /\ ~IsEntity(neg)
  BY NodeKinds DEF NodesOf
<1>3. 1 * r \in Int /\ -1 * r \in Int
  OBVIOUS
<1> HIDE DEF S, pos, neg
<1>4. Placed(w1, S, {}, M)
  BY <1>2, <1>3, ResizePlaced DEF S
<1> HIDE DEF w1
<1>5. Placed(w2, S, {}, M)
  BY <1>2, <1>3, <1>4, ResizePlaced
<1> QED
  BY <1>1, <1>5 DEF S

LEMMA SetAoiRadiusInv ==
    ASSUME AoiInv, NEW e \in Entity, NEW r \in Radii, SetAoiRadius(e, r[1], r[2])
    PROVE  AoiInv'
<1> DEFINE radius == r[1]
           outer == r[1] + r[2]
           w1 == Resize(space, e, "aoi", radius)
           w2 == Resize(w1, e, "hysteresis", outer)
<1>1. /\ range_xz' = [range_xz EXCEPT ![e]["aoi"] = radius, ![e]["hysteresis"] = outer]
      /\ space' = w2 /\ m_Entities' = m_Entities
  BY DEF SetAoiRadius
<1>2. radius \in Nat /\ outer \in Nat /\ Fits(radius) /\ Fits(outer)
  BY RadiusFits
<1> HIDE DEF radius, outer
<1>3. /\ range_xz' \in [Entity -> [Area -> Nat]]
      /\ \A f \in Entity, area \in Area : Fits(range_xz'[f][area])
  <2>1. range_xz \in [Entity -> [Area -> Nat]]
        /\ \A f \in Entity, area \in Area : Fits(range_xz[f][area])
    BY DEF AoiInv
  <2>2. range_xz' \in [Entity -> [Area -> Nat]]
    BY <1>1, <1>2, <2>1 DEF Area
  <2>3. ASSUME NEW f \in Entity, NEW area \in Area
        PROVE  range_xz'[f][area] \in {radius, outer, range_xz[f][area]}
    BY <1>1, <2>1, AreaIs
  <2> QED
    BY <1>2, <2>1, <2>2, <2>3
<1>4. Placed(space, NodesOf(m_Entities), {}, m_Entities)
  BY DEF AoiInv
<1>5. CASE e \in m_Entities
  <2>1. Placed(w1, NodesOf(m_Entities), {}, m_Entities)
    BY <1>2, <1>4, <1>5, AreaIs, ResizeInv
  <2> HIDE DEF w1
  <2>2. Placed(w2, NodesOf(m_Entities), {}, m_Entities)
    BY <1>2, <1>5, <2>1, AreaIs, ResizeInv
  <2> HIDE DEF w2
  <2> QED
    BY <1>1, <1>3, <2>2 DEF AoiInv
<1>6. CASE e \notin m_Entities
  <2>1. w2 = space
    BY <1>6 DEF Resize
  <2> QED
    BY <1>1, <1>3, <1>4, <2>1 DEF AoiInv
<1> QED
  BY <1>5, <1>6

LEMMA NextInv == AoiInv /\ [Next]_vars => AoiInv'
<1> SUFFICES ASSUME AoiInv, [Next]_vars PROVE AoiInv'
  OBVIOUS
<1>1. CASE UNCHANGED vars
  BY <1>1 DEF AoiInv, vars
<1>2. CASE Next
  <2>1. PICK e \in Entity : \/ AddEntity(e)
                            \/ \E d \in Step : Move(e, d)
                            \/ DeleteEntity(e)
                            \/ \E r \in Radii : \/ SetAoiRadius(e, r[1], r[2])
                                                \/ RadiusTooLarge(r[1], r[2])
    BY <1>2 DEF Next
  <2>2. CASE AddEntity(e)
    BY <2>2, AddEntityInv
  <2>3. CASE \E d \in Step : Move(e, d)
    BY <2>3, MoveInv
  <2>4. CASE DeleteEntity(e)
    BY <2>4, DeleteEntityInv
  <2>5. CASE \E r \in Radii : SetAoiRadius(e, r[1], r[2])
    BY <2>5, SetAoiRadiusInv
  <2>6. CASE \E r \in Radii : RadiusTooLarge(r[1], r[2])
    BY <2>6 DEF RadiusTooLarge, AoiInv, vars
  <2> QED
    BY <2>1, <2>2, <2>3, <2>4, <2>5, <2>6
<1> QED
  BY <1>1, <1>2

(* The invariant says more than Consistent. *)
LEMMA InvConsistent == AoiInv => Consistent
<1> SUFFICES ASSUME AoiInv PROVE Consistent
  OBVIOUS
<1> DEFINE S == NodesOf(m_Entities)
<1>1. Placed(space, S, {}, m_Entities) /\ Linked(space, S, m_Entities)
      /\ space \in Space /\ Agree(space, m_Entities) /\ m_Entities \subseteq Entity
  BY DEF AoiInv, Placed, Linked
<1>2. TypeOK
  BY <1>1 DEF AoiInv, TypeOK
<1>3. ASSUME NEW a \in Axis
      PROVE  LET l == space.list[a]
             IN  /\ ToSet(l) = {n \in Node : n[1] \in m_Entities}
                 /\ \A i, j \in DOMAIN l : l[i] = l[j] => i = j
                 /\ \A i \in DOMAIN l : space.x[l[i]][a] = Coord(space, l[i], a)
                 /\ \A i \in 1..Len(l) - 1 : space.x[l[i]][a] <= space.x[l[i + 1]][a]
  <2> DEFINE l == space.list[a]
  <2>1. Arranged(l, S) /\ Ordered(l, space.x, a, S)
        /\ \A m \in S : space.x[m][a] = Coord(space, m, a)
    BY <1>1 DEF Placed, Linked
  <2> HIDE DEF l
  <2>2. ToSet(l) = {n \in Node : n[1] \in m_Entities}
    BY <2>1 DEF Arranged, NodesOf
  <2> HIDE DEF S
  <2>3. l \in Seq(Node) /\ Len(l) \in Nat /\ DOMAIN l = 1..Len(l)
    BY <2>1 DEF Arranged
  <2>4. \A i \in 1..Len(l) : l[i] \in S
    BY <2>1, <2>3 DEF Arranged, ToSet
  <2>5. \A i, j \in DOMAIN l : l[i] = l[j] => i = j
    BY <2>1 DEF Arranged
  <2>6. \A i \in DOMAIN l : space.x[l[i]][a] = Coord(space, l[i], a)
    BY <2>1, <2>3, <2>4
  <2>7. ASSUME NEW i \in 1..Len(l) - 1 PROVE space.x[l[i]][a] <= space.x[l[i + 1]][a]
    <3>1. i \in 1..Len(l) /\ i + 1 \in 1..Len(l) /\ i < i + 1
      BY <2>3
    <3> QED
      BY <2>1, <2>4, <3>1 DEF Ordered
  <2> QED
    BY <2>2, <2>5, <2>6, <2>7 DEF l
<1>4. ListsSorted
  BY <1>3 DEF ListsSorted
<1>5. ASSUME NEW e \in Entity, NEW b \in Entity
      PROVE  /\ space.witnesses[b][e] = IF space.ref[e][b] = "enter" THEN 1 ELSE 0
             /\ space.witnesses[b][e] > 0 => e \in m_Entities
  <2>1. /\ space.witnesses[b][e] = IF space.ref[e][b] = "enter" THEN 1 ELSE 0
        /\ space.ref[e][b] = "enter" => e \in m_Entities
    BY <1>1 DEF Agree
  <2> QED
    BY <2>1
<1>6. WitnessesAgree
  BY <1>5 DEF WitnessesAgree
<1> QED
  BY <1>2, <1>4, <1>6 DEF Consistent

-----------------------------------------------------------------------------
(* The search in the lists. *)

(* Those before "near" are not beyond o, those after it not short of o. *)
Parts(P, es, near, o) ==
    /\ \A k \in es : k < near => P[k] <= o
    /\ \A k \in es : k > near => P[k] >= o

Rising(P, es) == \A j, k \in es : j <= k => P[j] <= P[k]

(* Then the walk from "near" to one that is close meets only close ones. *)
LEMMA WalkClose ==
    ASSUME NEW es \in SUBSET Nat, NEW P \in [es -> Int], Rising(P, es), NEW o \in Int,
           NEW near \in Int, Parts(P, es, near, o), NEW radius \in Nat,
           NEW j \in es, Magnitude(P[j] - o) <= radius,
           NEW k \in es, k \in j..near - 1 \/ k \in near + 1..j
    PROVE  Magnitude(P[k] - o) <= radius
<1>1. P[j] \in Int /\ P[k] \in Int /\ j \in Nat /\ k \in Nat
  OBVIOUS
<1>2. CASE k \in j..near - 1
  <2>1. P[j] <= P[k] /\ P[k] <= o
    BY <1>1, <1>2 DEF Rising, Parts
  <2> QED
    BY <1>1, <2>1 DEF Magnitude
<1>3. CASE k \in near + 1..j
  <2>1. P[k] <= P[j] /\ o <= P[k]
    BY <1>1, <1>3 DEF Rising, Parts
  <2> QED
    BY <1>1, <2>1 DEF Magnitude
<1> QED
  BY <1>2, <1>3

(* What findNearestNode returns, from any entity of the list. *)
Nearest(P, es, N, pivot, o) ==
    LET before == {i \in es : i < pivot /\ P[i] <= o}
        after == {i \in es : i > pivot /\ P[i] >= o}
    IN  IF P[pivot] = o THEN pivot
        ELSE IF P[pivot] > o THEN IF before = {} THEN 1 ELSE Max(before)
             ELSE IF after = {} THEN N ELSE Min(after)

(* The entity findNearestNode stops at parts the list at o. *)
LEMMA NearestParts ==
    ASSUME NEW N \in Nat, NEW es \in SUBSET (1..N), NEW P \in [es -> Int],
           Rising(P, es), NEW o \in Int, NEW pivot \in es
    PROVE  Nearest(P, es, N, pivot, o) \in Int /\ Parts(P, es, Nearest(P, es, N, pivot, o), o)
<1> DEFINE before == {i \in es : i < pivot /\ P[i] <= o}
           after == {i \in es : i > pivot /\ P[i] >= o}
           near == Nearest(P, es, N, pivot, o)
<1>1. near = IF P[pivot] = o THEN pivot
             ELSE IF P[pivot] > o THEN IF before = {} THEN 1 ELSE Max(before)
             ELSE IF after = {} THEN N ELSE Min(after)
  BY DEF Nearest
<1>2. /\ \A i \in es : i \in 1..N /\ i \in Nat /\ P[i] \in Int
      /\ \A i : i \in before <=> i \in es /\ i < pivot /\ P[i] <= o
      /\ \A i : i \in after <=> i \in es /\ i > pivot /\ P[i] >= o
  OBVIOUS
<1> SUFFICES near \in Int /\ Parts(P, es, near, o)
  OBVIOUS
<1> HIDE DEF near, before, after
<1>3. before \in SUBSET Nat /\ after \in SUBSET Nat /\ (\A k \in before : k <= N)
  <2>1. \A k \in es : k \in Nat /\ k <= N
    BY <1>2
  <2>2. (\A k \in before : k \in es) /\ (\A k \in after : k \in es)
    BY <1>2
  <2> QED
    BY <2>1, <2>2
<1>4. CASE P[pivot] = o
  <2>1. near = pivot
    BY <1>1, <1>4
  <2> QED
    BY <1>2, <1>4, <2>1 DEF Parts, Rising
<1>5. CASE P[pivot] > o /\ before = {}
  <2>1. near = 1
    BY <1>1, <1>2, <1>5
  <2>2. ASSUME NEW k \in es, k > near PROVE P[k] >= o
    <3>1. CASE k < pivot
      BY <1>2, <1>5, <3>1
    <3>2. CASE ~(k < pivot)
      <4>1. P[pivot] <= P[k]
        BY <1>2, <3>2 DEF Rising
      <4> QED
        BY <1>2, <1>5, <4>1
    <3> QED
      BY <3>1, <3>2
  <2>3. ASSUME NEW k \in es, k < near PROVE FALSE
    BY <1>2, <2>1, <2>3
  <2> QED
    BY <2>1, <2>2, <2>3 DEF Parts
<1>6. CASE P[pivot] > o /\ before # {}
  <2>1. near = Max(before)
    BY <1>1, <1>2, <1>6
  <2>2. near \in before /\ \A k \in before : near >= k
    BY <1>3, <1>6, <2>1, MaxIs
  <2>3. near \in es /\ near \in Nat /\ near < pivot /\ P[near] <= o
    BY <1>2, <2>2
  <2>4. ASSUME NEW k \in es, k > near PROVE P[k] >= o
    <3>1. CASE k < pivot
      <4>1. k \notin before
        BY <1>2, <2>2, <2>3, <2>4
      <4> QED
        BY <1>2, <3>1, <4>1
    <3>2. CASE ~(k < pivot)
      <4>1. P[pivot] <= P[k]
        BY <1>2, <3>2 DEF Rising
      <4> QED
        BY <1>2, <1>6, <4>1
    <3> QED
      BY <3>1, <3>2
  <2>5. ASSUME NEW k \in es, k < near PROVE P[k] <= o
    <3>1. P[k] <= P[near]
      BY <1>2, <2>3, <2>5 DEF Rising
    <3> QED
      BY <1>2, <2>3, <3>1
  <2> QED
    BY <2>3, <2>4, <2>5 DEF Parts
<1>7. CASE P[pivot] < o /\ after = {}
  <2>1. near = N
    BY <1>1, <1>2, <1>7
  <2>2. ASSUME NEW k \in es, k < near PROVE P[k] <= o
    <3>1. CASE k > pivot
      BY <1>2, <1>7, <3>1
    <3>2. CASE ~(k > pivot)
      <4>1. P[k] <= P[pivot]
        BY <1>2, <3>2 DEF Rising
      <4> QED
        BY <1>2, <1>7, <4>1
    <3> QED
      BY <3>1, <3>2
  <2>3. ASSUME NEW k \in es, k > near PROVE FALSE
    BY <1>2, <2>1, <2>3
  <2> QED
    BY <2>1, <2>2, <2>3 DEF Parts
<1>8. CASE P[pivot] < o /\ after # {}
  <2>1. near = Min(after)
    BY <1>1, <1>2, <1>8
  <2>2. near \in after /\ \A k \in after : near <= k
    BY <1>3, <1>8, <2>1, MinIs
  <2>3. near \in es /\ near \in Nat /\ near > pivot /\ P[near] >= o
    BY <1>2, <2>2
  <2>4. ASSUME NEW k \in es, k < near PROVE P[k] <= o
    <3>1. CASE k > pivot
      <4>1. k \notin after
        BY <1>2, <2>2, <2>3, <2>4
      <4> QED
        BY <1>2, <3>1, <4>1
    <3>2. CASE ~(k > pivot)
      <4>1. P[k] <= P[pivot]
        BY <1>2, <3>2 DEF Rising
      <4> QED
        BY <1>2, <1>8, <4>1
    <3> QED
      BY <3>1, <3>2
  <2>5. ASSUME NEW k \in es, k > near PROVE P[k] >= o
    <3>1. P[near] <= P[k]
      BY <1>2, <2>3, <2>5 DEF Rising
    <3> QED
      BY <1>2, <2>3, <3>1
  <2> QED
    BY <2>3, <2>4, <2>5 DEF Parts
<1> QED
  BY <1>2, <1>4, <1>5, <1>6, <1>7, <1>8

(* Where the entities of the list of an axis are. *)
Where(a) == [i \in Entities(a) |-> PositionAt(a, i)]

(* The entities of a list are those of the space, in the order of their    *)
(* positions.                                                              *)
LEMMA ListOfEntities ==
    ASSUME AoiInv, NEW a \in Axis
    PROVE  /\ Len(space.list[a]) \in Nat
           /\ Entities(a) \in SUBSET (1..Len(space.list[a]))
           /\ Where(a) \in [Entities(a) -> Int]
           /\ Rising(Where(a), Entities(a))
           /\ \A i \in Entities(a) : /\ Where(a)[i] = PositionAt(a, i)
                                     /\ space.list[a][i][1] \in m_Entities
                                     /\ PositionAt(a, i)
                                          = space.position[space.list[a][i][1]][a]
           /\ \A e \in m_Entities : \E i \in Entities(a) : space.list[a][i][1] = e
<1> DEFINE S == NodesOf(m_Entities)
           l == space.list[a]
           es == Entities(a)
<1>1. /\ space \in Space /\ Arranged(l, S) /\ Ordered(l, space.x, a, S)
      /\ \A m \in S : space.x[m][a] = Coord(space, m, a)
      /\ \A m \in Node : IsEntity(m) => space.range[m] = 0
      /\ m_Entities \subseteq Entity
  BY DEF AoiInv, Placed, Linked
<1>2. \A m : m \in S <=> m \in Node /\ m[1] \in m_Entities
  BY DEF NodesOf
<1>3. \A i : i \in es <=> i \in DOMAIN l /\ IsEntity(l[i])
  BY DEF Entities
<1>4. \A i : i \in es => PositionAt(a, i) = space.position[l[i][1]][a]
  BY DEF PositionAt
<1>5. \A i \in es : Where(a)[i] = PositionAt(a, i)
  BY DEF Where
<1>6. DOMAIN Where(a) = es /\ Where(a) = [i \in es |-> Where(a)[i]]
  BY DEF Where
<1> HIDE DEF S, l, es
<1>7. l \in Seq(Node) /\ Len(l) \in Nat /\ DOMAIN l = 1..Len(l)
  BY <1>1 DEF Arranged
<1>8. \A i \in 1..Len(l) : l[i] \in S
  BY <1>1, <1>7 DEF Arranged, ToSet
<1>9. es \in SUBSET (1..Len(l))
  BY <1>3, <1>7
<1>10. ASSUME NEW i \in es
       PROVE  /\ l[i] \in S /\ l[i][1] \in m_Entities
              /\ PositionAt(a, i) \in Int /\ space.x[l[i]][a] = PositionAt(a, i)
  <2>1. l[i] \in S /\ IsEntity(l[i])
    BY <1>3, <1>7, <1>8
  <2>2. l[i] \in Node /\ l[i][1] \in m_Entities
    BY <1>2, <2>1
  <2>3. /\ Coord(space, l[i], a) = space.position[l[i][1]][a] + space.range[l[i]]
        /\ space.range[l[i]] = 0
    BY <1>1, <2>1, <2>2, CoordIs
  <2>4. space.position[l[i][1]][a] \in Int
    <3>1. l[i][1] \in Entity
      BY <1>1, <2>2
    <3>2. space.position[l[i][1]][a] \in World
      BY <1>1, <3>1 DEF Space
    <3> QED
      BY <3>2, WorldIs
  <2>5. space.x[l[i]][a] = space.position[l[i][1]][a]
    BY <1>1, <2>1, <2>3, <2>4
  <2> QED
    BY <1>4, <2>1, <2>2, <2>4, <2>5
<1>11. Where(a) \in [es -> Int]
  BY <1>5, <1>6, <1>10
<1>12. ASSUME NEW j \in es, NEW k \in es, j <= k PROVE Where(a)[j] <= Where(a)[k]
  <2>1. j \in 1..Len(l) /\ k \in 1..Len(l)
    BY <1>9
  <2>2. CASE j = k
    BY <1>5, <1>10, <2>2
  <2>3. CASE j < k
    <3>1. space.x[l[j]][a] <= space.x[l[k]][a]
      BY <1>1, <1>10, <2>1, <2>3 DEF Ordered
    <3> QED
      BY <1>5, <1>10, <3>1
  <2> QED
    BY <1>12, <2>1, <2>2, <2>3
<1>13. ASSUME NEW e \in m_Entities PROVE \E i \in es : l[i][1] = e
  <2>1. EntityNode(e) \in Node /\ EntityNode(e)[1] = e /\ IsEntity(EntityNode(e))
    BY <1>1 DEF Node, EntityNode, IsEntity
  <2>2. EntityNode(e) \in S
    BY <1>2, <2>1
  <2>3. PICK i \in DOMAIN l : l[i] = EntityNode(e)
    BY <1>1, <2>2 DEF Arranged, ToSet
  <2>4. i \in es
    BY <1>3, <2>1, <2>3
  <2> QED
    BY <2>1, <2>3, <2>4
<1>14. Rising(Where(a), es)
  BY <1>12 DEF Rising
<1>15. \A i \in es : /\ Where(a)[i] = PositionAt(a, i) /\ l[i][1] \in m_Entities
                     /\ PositionAt(a, i) = space.position[l[i][1]][a]
  BY <1>4, <1>5, <1>10
<1> QED
  BY <1>7, <1>9, <1>11, <1>13, <1>14, <1>15 DEF l, es

(* findNearestNode is Nearest, from the entity next to the root. *)
LEMMA NearestFound ==
    ASSUME AoiInv, NEW a \in Axis, NEW root \in ToSet(space.list[1]), NEW o \in Int
    PROVE  \E pivot \in Entities(a) :
             FindNearestNode(a, root, o)
               = Nearest(Where(a), Entities(a), Len(space.list[a]), pivot, o)
<1> DEFINE es == Entities(a)
           N == Len(space.list[a])
           start == Place(space.list[a], root)
           low == {i \in es : i <= start}
           pivot == IF \E i \in es : i <= start THEN Max(low) ELSE Min(es)
<1>1. /\ N \in Nat /\ es \in SUBSET (1..N)
      /\ \A i \in es : Where(a)[i] = PositionAt(a, i)
      /\ \A e \in m_Entities : \E i \in es : space.list[a][i][1] = e
  BY ListOfEntities
<1>2. es # {}
  <2>1. Arranged(space.list[1], NodesOf(m_Entities))
    BY DEF AoiInv, Placed, Linked, Axis
  <2>2. root \in NodesOf(m_Entities)
    BY <2>1 DEF Arranged
  <2>3. root[1] \in m_Entities
    BY <2>2 DEF NodesOf
  <2> QED
    BY <1>1, <2>3
<1>3. \A i : i \in low <=> i \in es /\ i <= start
  OBVIOUS
<1>4. pivot = IF \E i \in es : i <= start THEN Max(low) ELSE Min(es)
  OBVIOUS
<1>5. FindNearestNode(a, root, o)
        = LET before == {i \in es : i < pivot /\ PositionAt(a, i) <= o}
              after == {i \in es : i > pivot /\ PositionAt(a, i) >= o}
          IN  IF PositionAt(a, pivot) = o THEN pivot
              ELSE IF PositionAt(a, pivot) > o
                   THEN IF before = {} THEN 1 ELSE Max(before)
                   ELSE IF after = {} THEN N ELSE Min(after)
  BY DEF FindNearestNode
<1> HIDE DEF low, start, pivot, es, N
<1>6. es \in SUBSET Nat /\ \A i \in es : i <= N
  BY <1>1
<1>7. pivot \in es
  <2>1. CASE \E i \in es : i <= start
    <3>1. low \in SUBSET Nat /\ low # {} /\ \A i \in low : i <= N
      BY <1>3, <1>6, <2>1
    <3>2. Max(low) \in low
      BY <1>1, <3>1, MaxIs
    <3> QED
      BY <1>3, <1>4, <2>1, <3>2
  <2>2. CASE ~(\E i \in es : i <= start)
    <3>1. Min(es) \in es
      BY <1>2, <1>6, MinIs
    <3> QED
      BY <1>4, <2>2, <3>1
  <2> QED
    BY <2>1, <2>2
<1>8. /\ {i \in es : i < pivot /\ PositionAt(a, i) <= o}
           = {i \in es : i < pivot /\ Where(a)[i] <= o}
      /\ {i \in es : i > pivot /\ PositionAt(a, i) >= o}
           = {i \in es : i > pivot /\ Where(a)[i] >= o}
      /\ PositionAt(a, pivot) = Where(a)[pivot]
  BY <1>1, <1>7
<1>9. FindNearestNode(a, root, o) = Nearest(Where(a), es, N, pivot, o)
  BY <1>5, <1>8 DEF Nearest
<1> QED
  BY <1>7, <1>9 DEF es, N

(* One axis of the search. *)
LEMMA AxisSearch ==
    ASSUME AoiInv, NEW a \in Axis, NEW root \in ToSet(space.list[1]), NEW o \in Int,
           NEW radius \in Nat, NEW e \in m_Entities
    PROVE  e \in EntitiesInAxisRange(a, root, o, radius)
             <=> Magnitude(space.position[e][a] - o) <= radius
<1> DEFINE es == Entities(a)
           N == Len(space.list[a])
           P == Where(a)
           near == FindNearestNode(a, root, o)
           close(i) == Magnitude(PositionAt(a, i) - o) <= radius
           between(i) == {j \in es : j \in i..near - 1 \/ j \in near + 1..i}
           met == {j \in es : close(j) /\ \A k \in between(j) : close(k)}
<1>1. /\ N \in Nat /\ es \in SUBSET (1..N) /\ P \in [es -> Int] /\ Rising(P, es)
      /\ \A i \in es : /\ P[i] = PositionAt(a, i)
                       /\ PositionAt(a, i) = space.position[space.list[a][i][1]][a]
      /\ \E i \in es : space.list[a][i][1] = e
  BY ListOfEntities
<1>2. PICK pivot \in es : near = Nearest(P, es, N, pivot, o)
  BY NearestFound
<1>3. EntitiesInAxisRange(a, root, o, radius) = {space.list[a][i][1] : i \in met}
  BY DEF EntitiesInAxisRange
<1>4. \A j : j \in met <=> j \in es /\ Magnitude(PositionAt(a, j) - o) <= radius
                           /\ \A k \in es : k \in j..near - 1 \/ k \in near + 1..j
                                => Magnitude(PositionAt(a, k) - o) <= radius
  OBVIOUS
<1> HIDE DEF es, N, P, near, met
<1>5. near \in Int /\ Parts(P, es, near, o)
  BY <1>1, <1>2, NearestParts
<1>6. es \in SUBSET Nat
  BY <1>1
<1>7. ASSUME NEW j \in es, Magnitude(PositionAt(a, j) - o) <= radius PROVE j \in met
  <2>1. ASSUME NEW k \in es, k \in j..near - 1 \/ k \in near + 1..j
        PROVE  Magnitude(PositionAt(a, k) - o) <= radius
    <3>1. Magnitude(P[j] - o) <= radius
      BY <1>1, <1>7
    <3>2. Magnitude(P[k] - o) <= radius
      BY <1>1, <1>5, <1>6, <2>1, <3>1, WalkClose
    <3> QED
      BY <1>1, <3>2
  <2> QED
    BY <1>4, <1>7, <2>1
<1>8. CASE Magnitude(space.position[e][a] - o) <= radius
  <2>1. PICK i \in es : space.list[a][i][1] = e
    BY <1>1
  <2>2. i \in met
    BY <1>1, <1>7, <1>8, <2>1
  <2> QED
    BY <1>3, <1>8, <2>1, <2>2
<1>9. ASSUME e \in EntitiesInAxisRange(a, root, o, radius)
      PROVE  Magnitude(space.position[e][a] - o) <= radius
  <2>1. PICK i \in met : e = space.list[a][i][1]
    BY <1>3, <1>9
  <2> QED
    BY <1>1, <1>4, <2>1
<1> QED
  BY <1>8, <1>9

(* In lists that are in order the search is exact. *)
LEMMA InvSearchExact == AoiInv => SearchExact
<1> SUFFICES ASSUME AoiInv, NEW root \in ToSet(space.list[1]), NEW o \in Start,
                    NEW radius \in {FirstRadius[1], FirstRadius[2]}
             PROVE  EntitiesInRange(root, o, radius) =
                      {e \in m_Entities :
                         \A a \in Axis : Magnitude(space.position[e][a] - o[a]) <= radius}
  BY DEF SearchExact
<1>1. radius \in Nat
  BY RadiusFits
<1>2. ASSUME NEW a \in Axis PROVE o[a] \in Int
  <2>1. o[a] \in World
    BY AoiAssumption
  <2> QED
    BY <2>1, WorldIs
<1>3. ASSUME NEW e \in m_Entities, NEW a \in Axis
      PROVE  e \in EntitiesInAxisRange(a, root, o[a], radius)
               <=> Magnitude(space.position[e][a] - o[a]) <= radius
  BY <1>1, <1>2, AxisSearch
<1> QED
  BY <1>3 DEF EntitiesInRange

-----------------------------------------------------------------------------
(* Whatever entities enter, move, change their radius and leave, in        *)
(* whatever order, between two requests every list holds exactly the nodes *)
(* of those in the space in the order of where they really are, and        *)
(* references and witnesses agree.                                         *)
THEOREM AoiConsistent == Spec => []Consistent
<1>1. Spec => []AoiInv
  BY InitInv, NextInv, PTL DEF Spec
<1> QED
  BY <1>1, InvConsistent, PTL

(* entitiesInRange finds exactly the entities within the radius, from any  *)
(* node and any position an entity may have.                               *)
THEOREM AoiSearchExact == Spec => []SearchExact
<1>1. Spec => []AoiInv
  BY InitInv, NextInv, PTL DEF Spec
<1> QED
  BY <1>1, InvSearchExact, PTL
=============================================================================
