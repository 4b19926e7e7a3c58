--------------------------- MODULE PlayfieldProofs ---------------------------
(***************************************************************************)
(* What the tile screen, the playfield, its actors and the camera promise  *)
(* for every size of tiles, screen and map, and for every cartridge.       *)
(***************************************************************************)
EXTENDS Playfield, WellFoundedInduction, TLAPS

(* Division and remainder. *)
LEMMA DivMod ==
    ASSUME NEW a \in Int, NEW t \in Nat \ {0}
    PROVE  /\ a = t * (a \div t) + (a % t)
           /\ a \div t \in Int /\ a % t \in 0 .. t - 1
<1>1. a = t * (a \div t) + (a % t)
  BY Z3
<1>2. a \div t \in Int /\ a % t \in 0 .. t - 1
  OBVIOUS
<1>3. QED  BY <1>1, <1>2

(* Quotient and remainder are unique. *)
LEMMA DivUnique ==
    ASSUME NEW a \in Int, NEW t \in Nat \ {0}, NEW q \in Int, NEW r \in 0 .. t - 1,
           a = t * q + r
    PROVE  a \div t = q /\ a % t = r
<1> DEFINE q2 == a \div t
           r2 == a % t
<1>1. a = t * q2 + r2 /\ q2 \in Int /\ r2 \in 0 .. t - 1
  BY DivMod
<1> HIDE DEF q2, r2
<1>2. q2 > q => t * q2 >= t * q + t
  <2>1. q2 > q => t * q2 >= t * (q + 1)
    BY <1>1
  <2>2. t * (q + 1) = t * q + t
    OBVIOUS
  <2>3. QED  BY <2>1, <2>2
<1>3. q2 < q => t * q >= t * q2 + t
  <2>1. q2 < q => t * q >= t * (q2 + 1)
    BY <1>1
  <2>2. t * (q2 + 1) = t * q2 + t
    BY <1>1
  <2>3. QED  BY <2>1, <2>2
<1>4. t * q \in Int /\ t * q2 \in Int
  BY <1>1
<1>5. q2 = q
  BY <1>1, <1>2, <1>3, <1>4
<1>6. r2 = r
  BY <1>1, <1>4, <1>5
<1>7. QED  BY <1>5, <1>6 DEF q2, r2

(* A number is negative if its division, rounded down, is. *)
LEMMA DivSign ==
    ASSUME NEW a \in Int, NEW t \in Nat \ {0}
    PROVE  a < 0 <=> a \div t < 0
<1> DEFINE q == a \div t
           r == a % t
<1>1. a = t * q + r /\ q \in Int /\ r \in 0 .. t - 1
  BY DivMod
<1> HIDE DEF q, r
<1>2. q >= 0 => t * q >= 0
  BY <1>1
<1>3. q < 0 => t * q <= -t
  <2>1. q < 0 => t * q <= t * (-1)
    BY <1>1
  <2>2. QED  BY <2>1
<1>4. t * q \in Int
  BY <1>1
<1>5. a < 0 <=> q < 0
  BY <1>1, <1>2, <1>3, <1>4
<1>6. QED  BY <1>5 DEF q

(* What is less than n times t is in one of the first n intervals of length t. *)
LEMMA DivBound ==
    ASSUME NEW a \in Nat, NEW t \in Nat \ {0}, NEW n \in Nat, a < n * t
    PROVE  a \div t \in 0 .. n - 1
<1>1. a = t * (a \div t) + (a % t)
  BY DivMod
<1>2. a \div t \in Nat /\ a % t \in 0 .. t - 1
  OBVIOUS
<1>3. \A q \in Nat : q >= n => t * q >= n * t
  OBVIOUS
<1>4. QED  BY <1>1, <1>2, <1>3

(* The cell of a pixel of the framebuffer is a cell of the tile screen. *)
Cell(p) == <<p[1] \div T, p[2] \div T>>
(* Every pixel of the screen is in one of its cells. *)
LEMMA CellOfPixel ==
    ASSUME NEW p \in Pixels
    PROVE  Cell(p) \in Cells
<1>1. /\ T \in Nat \ {0} /\ ScreenCols \in Nat /\ ScreenRows \in Nat
  BY PlayfieldAssumption
<1>2. /\ W = ScreenCols * T /\ W \in Nat /\ H = ScreenRows * T /\ H \in Nat
  BY <1>1 DEF W, H
<1>3. p[1] \in Nat /\ p[1] < W /\ p[2] \in Nat /\ p[2] < H
  BY <1>2 DEF Pixels
<1>4. p[1] \div T \in 0 .. ScreenCols - 1 /\ p[2] \div T \in 0 .. ScreenRows - 1
  BY <1>1, <1>2, <1>3, DivBound
<1>5. QED  BY <1>4 DEF Cell, Cells

(* The pixel the tile of a cell shows. *)
Shown(p) == TilePixel(tiles[screen[Cell(p)]], <<p[1] % T, p[2] % T>>)
CleanPixels == \A p \in Pixels : Cell(p) \notin dirty \cup covered => fb[p] = Shown(p)

(* The property, pixel by pixel. *)
LEMMA CleanIsCleanPixels == CleanCellsShowTheirTile <=> CleanPixels
BY DEF CleanCellsShowTheirTile, CleanPixels, Shown, Cell

(* The tile calls. *)
LEMMA TileStep ==
    ASSUME TileTypeOK, CleanPixels, TileCall
    PROVE  TileTypeOK' /\ CleanPixels'
<1> USE PlayfieldAssumption DEF TileTypeOK, CleanPixels
<1>1. ASSUME NEW c \in Colours, TileClear(c)
      PROVE  TileTypeOK' /\ CleanPixels'
  <2>1. TileTypeOK'
    <3>1. [bits |-> {}, fg |-> c, bg |-> c] \in TileType
      BY DEF TileType
    <3>2. QED  BY <1>1, <3>1 DEF TileClear
  <2>2. CleanPixels'
    BY <1>1, CellOfPixel DEF TileClear
  <2>3. QED  BY <2>1, <2>2
<1>2. ASSUME NEW id \in TileIds, NEW t \in TileDefs, TileDefine(id, t)
      PROVE  TileTypeOK' /\ CleanPixels'
  <2>1. TileTypeOK'
    BY <1>2 DEF TileDefine
  <2>2. ASSUME NEW p \in Pixels, Cell(p) \notin dirty' \cup covered'
        PROVE  fb'[p] = Shown(p)'
    <3>1. Cell(p) \in Cells /\ screen[Cell(p)] # id /\ Cell(p) \notin dirty \cup covered
      BY <1>2, <2>2, CellOfPixel DEF TileDefine
    <3>2. tiles'[screen[Cell(p)]] = tiles[screen[Cell(p)]]
      BY <1>2, <3>1 DEF TileDefine
    <3>3. fb[p] = Shown(p) /\ fb' = fb /\ screen' = screen
      BY <1>2, <3>1 DEF TileDefine
    <3>4. QED  BY <3>2, <3>3 DEF Shown
  <2>3. QED  BY <2>1, <2>2
<1>3. ASSUME NEW k \in Cells, NEW id \in TileIds, TilePut(k, id)
      PROVE  TileTypeOK' /\ CleanPixels'
  <2>1. TileTypeOK'
    BY <1>3 DEF TilePut
  <2>2. ASSUME NEW p \in Pixels, Cell(p) \notin dirty' \cup covered'
        PROVE  fb'[p] = Shown(p)'
    <3>1. Cell(p) \in Cells /\ Cell(p) # k /\ Cell(p) \notin dirty \cup covered
      BY <1>3, <2>2, CellOfPixel DEF TilePut
    <3>2. screen'[Cell(p)] = screen[Cell(p)]
      BY <1>3, <3>1 DEF TilePut
    <3>3. fb[p] = Shown(p) /\ fb' = fb /\ tiles' = tiles
      BY <1>3, <3>1 DEF TilePut
    <3>4. QED  BY <3>2, <3>3 DEF Shown
  <2>3. QED  BY <2>1, <2>2
<1>4. CASE TilePresent
  <2>1. TileTypeOK'
    BY <1>4 DEF TilePresent
  <2>2. ASSUME NEW p \in Pixels, Cell(p) \notin dirty' \cup covered'
        PROVE  fb'[p] = Shown(p)'
    <3>1. fb'[p] = IF Cell(p) \in dirty THEN Shown(p) ELSE fb[p]
      BY <1>4 DEF TilePresent, Shown, Cell
    <3>2. Cell(p) \notin dirty => Cell(p) \notin dirty \cup covered
      BY <1>4, <2>2 DEF TilePresent
    <3>3. tiles' = tiles /\ screen' = screen
      BY <1>4 DEF TilePresent
    <3>4. fb'[p] = Shown(p)
      BY <3>1, <3>2
    <3>5. QED  BY <3>3, <3>4 DEF Shown
  <2>3. QED  BY <2>1, <2>2
<1>5. ASSUME NEW r \in Rects, NEW c \in Colours, DrawRect(r[1], r[2], r[3], r[4], c)
      PROVE  TileTypeOK' /\ CleanPixels'
  <2> DEFINE InRect(p) == p[1] \in r[1] .. r[1] + r[3] - 1 /\ p[2] \in r[2] .. r[2] + r[4] - 1
  <2>1. TileTypeOK'
    BY <1>5 DEF DrawRect, tileVars
  <2>2. ASSUME NEW p \in Pixels, Cell(p) \notin dirty' \cup covered'
        PROVE  fb'[p] = Shown(p)'
    <3>1. tiles' = tiles /\ screen' = screen /\ dirty' = dirty
      BY <1>5 DEF DrawRect, tileVars
    <3>2. covered' = covered \cup CellsOf({q \in Pixels : InRect(q)})
      BY <1>5 DEF DrawRect
    <3>3. InRect(p) => Cell(p) \in CellsOf({q \in Pixels : InRect(q)})
      BY DEF CellsOf, Cell
    <3>4. ~InRect(p)
      BY <2>2, <3>2, <3>3
    <3>5. fb'[p] = fb[p]
      BY <1>5, <3>4 DEF DrawRect, Rect
    <3>6. fb[p] = Shown(p)
      BY <2>2, <3>1, <3>2
    <3>7. QED  BY <3>1, <3>5, <3>6 DEF Shown
  <2>3. QED  BY <2>1, <2>2
<1>6. QED  BY <1>1, <1>2, <1>3, <1>4, <1>5 DEF TileCall

(* A call that draws a layer covers every cell, or draws nothing. *)
LEMMA FieldStep ==
    ASSUME TileTypeOK, CleanPixels, FieldCall \/ ActorCall \/ UNCHANGED vars
    PROVE  TileTypeOK' /\ CleanPixels'
<1>1. CASE UNCHANGED <<tiles, screen, dirty, fb, covered>>
  BY <1>1 DEF TileTypeOK, CleanPixels, Shown
<1>2. CASE UNCHANGED <<tiles, screen, dirty>> /\ covered' = Cells
  BY <1>2, CellOfPixel DEF TileTypeOK, CleanPixels
<1>3. CASE FieldCall
  <2>1. CASE \E l \in Layers, t \in BOOLEAN : PlayfieldDraw(l, t)
    BY <1>1, <1>2, <2>1 DEF PlayfieldDraw, tileVars
  <2>2. CASE PlayfieldDrawBoth
    BY <1>2, <2>2 DEF PlayfieldDrawBoth, tileVars
  <2>3. CASE \E l \in Layers, id \in TileIds : PlayfieldClear(l, id)
    BY <1>1, <2>3 DEF PlayfieldClear, tileVars
  <2>4. CASE \E l \in Layers, k \in Puts, id \in TileIds : PlayfieldPut(l, k, id)
    BY <1>1, <2>4 DEF PlayfieldPut, tileVars
  <2>5. CASE \E l \in Layers, s \in Scrolls : SetScroll(l, s) \/ ScrollBy(l, s) \/ SetParallax(l, s)
    BY <1>1, <2>5 DEF SetScroll, ScrollBy, SetParallax, tileVars
  <2>6. CASE \E s \in Scrolls : SetCamera(s)
    BY <1>1, <2>6 DEF SetCamera, tileVars
  <2>7. QED  BY <1>3, <2>1, <2>2, <2>3, <2>4, <2>5, <2>6 DEF FieldCall
<1>4. CASE ActorCall
  <2>1. UNCHANGED <<tileVars, fb, covered>>
    BY <1>4 DEF ActorCall, SetTileFlags, ActorInit, ActorMove, ActorStep, Remember, CameraFollow
  <2>2. QED  BY <1>1, <2>1 DEF tileVars
<1>5. CASE UNCHANGED vars
  BY <1>1, <1>5 DEF vars, tileVars
<1>6. QED  BY <1>3, <1>4, <1>5

(* Nothing is dirty at first and every cell shows a black tile. *)
LEMMA TileInit == Init => TileTypeOK /\ CleanPixels
<1> SUFFICES ASSUME Init
             PROVE  TileTypeOK /\ CleanPixels
  OBVIOUS
<1>1. TileTypeOK
  <2>1. NoTile \in TileType
    BY PlayfieldAssumption DEF NoTile, TileType
  <2>2. QED  BY <2>1, PlayfieldAssumption DEF Init, TileTypeOK
<1>2. ASSUME NEW p \in Pixels
      PROVE  fb[p] = Shown(p)
  <2>1. Cell(p) \in Cells
    BY CellOfPixel
  <2>2. tiles[screen[Cell(p)]] = NoTile
    BY <2>1, PlayfieldAssumption DEF Init
  <2>3. QED  BY <2>2 DEF Init, Shown, NoTile, TilePixel
<1>3. QED  BY <1>1, <1>2 DEF CleanPixels

(* Painting the dirty cells only is enough: a cell that is neither dirty nor *)
(* drawn over shows its tile as it is defined now, whatever a cartridge puts *)
(* defines, clears and draws.                                                *)
THEOREM DirtyCellsAreEnough == Spec => []DirtyCellsSuffice
<1>1. TileTypeOK /\ CleanPixels /\ [Next]_vars => TileTypeOK' /\ CleanPixels'
  BY TileStep, FieldStep DEF Next
<1>2. TileTypeOK /\ CleanPixels => DirtyCellsSuffice
  BY CleanIsCleanPixels DEF DirtyCellsSuffice
<1>3. QED  BY TileInit, <1>1, <1>2, PTL DEF Spec
-----------------------------------------------------------------------------
(* The camera, on one axis. *)

(* A clamped value is within its limits, and itself if it was. *)
LEMMA ClampProperties ==
    ASSUME NEW v \in Int, NEW lo \in Int, NEW hi \in Int, lo <= hi
    PROVE  /\ Clamp(v, lo, hi) \in lo .. hi
           /\ v \in lo .. hi => Clamp(v, lo, hi) = v
           /\ Clamp(v, lo, hi) \in {v, lo, hi}
BY DEF Clamp

(* cameraFollow shows nothing beyond the map and brings an actor of any size *)
(* between its dead zones, from any place, unless the edge of the map is in  *)
(* the way or the actor does not fit.                                        *)
THEOREM FollowedShowsActor ==
    ASSUME NEW at \in Int, NEW size \in Int, NEW cam \in Int, NEW dead \in Int,
           NEW screenSize \in Nat, NEW mapSize \in Nat, screenSize <= mapSize
    PROVE  Between(at, size, Followed(at, size, cam, dead, screenSize, mapSize), dead,
                   screenSize, mapSize)
<1> DEFINE d == Clamp(dead, 0, screenSize \div 2)
           far == mapSize - screenSize
           goal == IF at - cam < d THEN at - d
                   ELSE IF at - cam + size > screenSize - d THEN at + size - (screenSize - d)
                   ELSE cam
           c == Clamp(goal, 0, far)
<1>1. d \in Int /\ far \in Int /\ 0 <= far
  BY DEF Clamp
<1>2. Followed(at, size, cam, dead, screenSize, mapSize) = c
  BY DEF Followed
<1> HIDE DEF d
<1>3. goal \in Int
  BY <1>1
<1>4. size <= screenSize - 2 * d => at - goal >= d /\ at - goal + size <= screenSize - d
  BY <1>1
<1> HIDE DEF goal, far
<1>5. c \in 0 .. far /\ (c = goal \/ c \in {0, far})
  BY <1>1, <1>3, ClampProperties
<1> HIDE DEF c
<1>6. /\ c \in 0 .. far
      /\ \/ at - c >= d /\ at - c + size <= screenSize - d
         \/ c \in {0, far}
         \/ size > screenSize - 2 * d
  BY <1>1, <1>3, <1>4, <1>5
<1>7. QED  BY <1>2, <1>6 DEF Between, d, far
-----------------------------------------------------------------------------
(* Repeating a step. *)

(* A set with 0 and the successors of its members has every natural number: *)
(* there is no least one outside it.                                        *)
LEMMA NatInd ==
    ASSUME NEW S, 0 \in S, \A n \in Nat : n \in S => n + 1 \in S
    PROVE  Nat \subseteq S
<1> DEFINE Out == Nat \ S
           R == OpToRel(<, Nat)
<1>1. SUFFICES ASSUME Out # {} PROVE FALSE
  OBVIOUS
<1>2. IsWellFoundedOn(R, Nat)
  BY NatLessThanWellFounded
<1>3. \A y, z \in Nat : y < z => <<y, z>> \in R
  BY DEF OpToRel
<1>4. Out \subseteq Nat
  OBVIOUS
<1> HIDE DEF R
<1>5. \E z \in Out : \A y \in Out : ~(<<y, z>> \in R)
  <2> HIDE DEF Out
  <2>1. QED  BY <1>1, <1>2, <1>4, WFMin
<1>6. PICK z \in Out : \A y \in Out : ~(<<y, z>> \in R)
  BY <1>5
<1>7. z \in Nat /\ z # 0
  OBVIOUS
<1>8. z - 1 \in Nat /\ z - 1 < z /\ (z - 1) + 1 = z
  BY <1>7
<1>9. z - 1 \in Out
  BY <1>7, <1>8
<1>10. QED  BY <1>3, <1>6, <1>7, <1>8, <1>9

(* Repeating a step that stays in a set is a sequence in that set. *)
Repeats(g, n, s0, F) == g = [i \in 0 .. n |-> IF i = 0 THEN s0 ELSE F[g[i - 1]]]
(* Such a sequence exists for every number of steps. *)
LEMMA Repeated ==
    ASSUME NEW S, NEW s0 \in S, NEW F \in [S -> S]
    PROVE  \A n \in Nat : \E g \in [0 .. n -> S] : Repeats(g, n, s0, F)
<1> DEFINE P(n) == \E g \in [0 .. n -> S] : Repeats(g, n, s0, F)
           Good == {n \in Nat : P(n)}
<1>1. P(0)
  <2> DEFINE g == [i \in 0 .. 0 |-> s0]
  <2>1. g \in [0 .. 0 -> S]
    OBVIOUS
  <2>2. Repeats(g, 0, s0, F)
    BY DEF Repeats
  <2> HIDE DEF g
  <2>3. QED  BY <2>1, <2>2
<1>2. ASSUME NEW n \in Nat, P(n)
      PROVE  P(n + 1)
  <2>1. PICK g \in [0 .. n -> S] : Repeats(g, n, s0, F)
    BY <1>2
  <2> DEFINE new == F[g[n]]
             h == [i \in 0 .. n + 1 |-> IF i = n + 1 THEN new ELSE g[i]]
  <2>2. new \in S
    OBVIOUS
  <2>3. h \in [0 .. n + 1 -> S]
    <3> HIDE DEF new
    <3>1. QED  BY <2>2
  <2>4. \A i \in 0 .. n : g[i] = IF i = 0 THEN s0 ELSE F[g[i - 1]]
    BY <2>1 DEF Repeats
  <2>5. /\ \A i \in 0 .. n : h[i] = g[i]
        /\ h[n + 1] = F[g[n]] /\ h = [i \in 0 .. n + 1 |-> h[i]]
    OBVIOUS
  <2> HIDE DEF h
  <2>6. ASSUME NEW i \in 0 .. n + 1
        PROVE  h[i] = IF i = 0 THEN s0 ELSE F[h[i - 1]]
    <3>1. CASE i \in 0 .. n
      <4>1. i # 0 => i - 1 \in 0 .. n
        BY <3>1
      <4>2. QED  BY <2>4, <2>5, <3>1, <4>1
    <3>2. CASE i = n + 1
      <4>1. i # 0 /\ i - 1 = n /\ n \in 0 .. n
        BY <3>2
      <4>2. QED  BY <2>5, <3>2, <4>1
    <3>3. QED  BY <3>1, <3>2
  <2>7. Repeats(h, n + 1, s0, F)
    BY <2>5, <2>6 DEF Repeats
  <2>8. QED  BY <2>3, <2>7
<1> HIDE DEF P
<1>3. 0 \in Good /\ \A n \in Nat : n \in Good => n + 1 \in Good
  BY <1>1, <1>2
<1>4. Nat \subseteq Good
  <2> HIDE DEF Good
  <2>1. QED  BY <1>3, NatInd
<1>5. QED  BY <1>4 DEF P
-----------------------------------------------------------------------------
(* Where an actor is sampled. *)

(* Every coordinate has a sample in its tile. *)
LEMMA Sampled ==
    ASSUME NEW from \in Int, NEW to \in Int, NEW p \in from .. to
    PROVE  \E v \in Samples(from, to) : v \in from .. to /\ v \div T = p \div T
<1>0. T \in Nat \ {0} /\ p \in Int
  BY PlayfieldAssumption
<1> DEFINE d == p - from
           k == d \div T
           e == d % T
           n == T * k
           v == from + n
           u == IF v + T <= to THEN v + T ELSE to
           P == p \div T
           r == p % T
           m == T * P
<1>1. d \in Nat
  OBVIOUS
<1>2. d = n + e /\ k \in Int /\ e \in 0 .. T - 1
  <2> HIDE DEF d
  <2>1. d = T * (d \div T) + (d % T) /\ k \in Int /\ e \in 0 .. T - 1
    BY <1>0, <1>1, DivMod
  <2>2. QED  BY <2>1
<1>3. p = m + r /\ P \in Int /\ r \in 0 .. T - 1
  BY <1>0, DivMod
<1>4. k >= 0 => n >= 0
  BY <1>0, <1>2
<1>5. k >= 0
  BY <1>0, <1>1, <1>2, DivSign
<1>6. n \in Nat
  BY <1>0, <1>2, <1>4, <1>5
<1>7. n % T = 0
  <2> DEFINE a == n
  <2> HIDE DEF k
  <2>1. a = T * k + 0 /\ 0 \in 0 .. T - 1 /\ a \in Int
    BY <1>0, <1>2, <1>6
  <2> HIDE DEF n, a
  <2>2. a % T = 0
    BY <1>0, <1>2, <2>1, DivUnique
  <2>3. QED  BY <2>2 DEF a
<1>8. (n + T) % T = 0
  <2> DEFINE a == n + T
  <2> HIDE DEF k
  <2>1. a = T * (k + 1) + 0 /\ 0 \in 0 .. T - 1
    BY <1>0, <1>2
  <2>2. a \in Int /\ k + 1 \in Int
    BY <1>0, <1>2, <1>6
  <2> HIDE DEF n, a
  <2>3. a % T = 0
    BY <1>0, <2>1, <2>2, DivUnique
  <2>4. QED  BY <2>3 DEF a
<1>9. m \in Int
  BY <1>0, <1>3
<1>10. \A w \in Int : w \in m .. m + T - 1 => w \div T = P
  <2> SUFFICES ASSUME NEW w \in Int, w \in m .. m + T - 1
               PROVE  w \div T = P
    OBVIOUS
  <2> DEFINE f == w - m
  <2>1. f \in 0 .. T - 1 /\ w = m + f
    BY <1>0, <1>9
  <2> HIDE DEF P, f
  <2>2. QED  BY <1>0, <1>3, <2>1, DivUnique
<1> HIDE DEF P, r, m, n, k, e
<1>11. v \in from .. to /\ v <= p /\ p < v + T
  BY <1>0, <1>2, <1>6
<1>12. v \in Samples(from, to)
  <2>1. v - from = n
    BY <1>6
  <2> HIDE DEF v
  <2>2. QED  BY <1>7, <1>11, <2>1 DEF Samples
<1>13. u \in Samples(from, to) /\ u \in from .. to /\ p <= u /\ u <= v + T
  <2>1. CASE v + T <= to
    <3>1. (v + T) - from = n + T /\ v + T \in from .. to
      BY <1>0, <1>6, <1>11, <2>1
    <3>2. v + T \in Samples(from, to)
      <4> DEFINE w == v + T
      <4>1. w \in from .. to /\ w - from = n + T
        BY <3>1
      <4> HIDE DEF w
      <4>2. w \in Samples(from, to)
        BY <1>8, <4>1 DEF Samples
      <4>3. QED  BY <4>2 DEF w
    <3>3. QED  BY <1>0, <1>6, <1>11, <2>1, <3>1, <3>2
  <2>2. CASE ~(v + T <= to)
    <3>1. u = to /\ to \in Samples(from, to)
      BY <2>2 DEF Samples
    <3>2. QED  BY <1>0, <1>6, <1>11, <2>2, <3>1
  <2>3. QED  BY <2>1, <2>2
<1>14. CASE v >= m
  <2>1. v \div T = P
    <3>1. v \in Int /\ v \in m .. m + T - 1
      BY <1>0, <1>3, <1>6, <1>9, <1>11, <1>14
    <3> HIDE DEF v
    <3>2. QED  BY <1>10, <3>1
  <2>2. QED  BY <1>11, <1>12, <2>1 DEF P
<1>15. CASE v < m
  <2>1. u \div T = P
    <3>1. u \in Int /\ u \in m .. m + T - 1
      BY <1>0, <1>3, <1>6, <1>9, <1>13, <1>15
    <3> HIDE DEF u
    <3>2. QED  BY <1>10, <3>1
  <2>2. QED  BY <1>13, <2>1 DEF P
<1>16. v \in Int
  BY <1>6
<1>17. QED  BY <1>9, <1>14, <1>15, <1>16

(* Samples are between the ends. *)
LEMMA SamplesInside ==
    ASSUME NEW from \in Int, NEW to \in Int, from <= to
    PROVE  Samples(from, to) \subseteq from .. to
BY DEF Samples

(* The map's tiles and their flags. *)
MapType == field \in [Layers -> [MapCells -> TileIds]] /\ flags \in [TileIds -> SUBSET Flags]

(* Places in one tile find the same flags. *)
LEMMA TileAtSame ==
    ASSUME NEW l, NEW x \in Int, NEW y \in Int, NEW u \in Int, NEW v \in Int,
           x \div T = u \div T, y \div T = v \div T
    PROVE  FlagsAt(l, x, y) = FlagsAt(l, u, v)
<1>1. T \in Nat \ {0}
  BY PlayfieldAssumption
<1>2. (x < 0 <=> u < 0) /\ (y < 0 <=> v < 0)
  BY <1>1, DivSign
<1> DEFINE i == x \div T
           j == y \div T
<1>3. TileAt(l, x, y) = IF x < 0 \/ y < 0 \/ i >= MapCols \/ j >= MapRows THEN 0 ELSE field[l][<<i, j>>]
  BY DEF TileAt
<1>4. TileAt(l, u, v) = IF u < 0 \/ v < 0 \/ i >= MapCols \/ j >= MapRows THEN 0 ELSE field[l][<<i, j>>]
  BY DEF TileAt
<1> HIDE DEF i, j
<1>5. TileAt(l, x, y) = TileAt(l, u, v)
  BY <1>2, <1>3, <1>4
<1>6. QED  BY <1>5 DEF FlagsAt

(* Every place has a tile, and it flags. *)
LEMMA TileAtType ==
    ASSUME MapType, NEW l \in Layers, NEW x \in Int, NEW y \in Int
    PROVE  TileAt(l, x, y) \in TileIds /\ FlagsAt(l, x, y) \in SUBSET Flags
<1>1. T \in Nat \ {0} /\ MapCols \in Nat /\ MapRows \in Nat /\ 0 \in TileIds
  BY PlayfieldAssumption
<1>2. x >= 0 => x \div T \in Nat
  BY <1>1
<1>3. y >= 0 => y \div T \in Nat
  BY <1>1
<1> DEFINE i == x \div T
           j == y \div T
<1>4. i \in Int /\ j \in Int
  BY <1>1, DivMod
<1>5. TileAt(l, x, y) = IF x < 0 \/ y < 0 \/ i >= MapCols \/ j >= MapRows THEN 0 ELSE field[l][<<i, j>>]
  BY DEF TileAt
<1>6. (x >= 0 => i >= 0) /\ (y >= 0 => j >= 0)
  BY <1>2, <1>3
<1> HIDE DEF i, j
<1>7. (i \in 0 .. MapCols - 1 /\ j \in 0 .. MapRows - 1) => <<i, j>> \in MapCells
  BY DEF MapCells
<1>8. TileAt(l, x, y) \in TileIds
  BY <1>1, <1>4, <1>5, <1>6, <1>7 DEF MapType
<1>9. QED  BY <1>8 DEF FlagsAt, MapType
(* The samples of an actor find every flag its pixels lie on. *)
Within(a, x, y) == x \in a.x .. a.x + a.w - 1 /\ y \in a.y .. a.y + a.h - 1
(* So Overlapping is what the box lies on. *)
LEMMA OverlappingIsBox ==
    ASSUME NEW a \in ActorType, NEW f
    PROVE  f \in Overlapping(a) <=>
             \E x, y \in Int : Within(a, x, y) /\ f \in FlagsAt(a.layer, x, y)
<1> DEFINE x1 == a.x + a.w - 1
           y1 == a.y + a.h - 1
           XS == Samples(a.x, x1)
           YS == Samples(a.y, y1)
<1>1. a.x \in Int /\ a.y \in Int /\ a.w \in Nat \ {0} /\ a.h \in Nat \ {0}
  BY DEF ActorType
<1>2. a.x <= x1 /\ a.y <= y1 /\ x1 \in Int /\ y1 \in Int
  BY <1>1
<1>3. XS \subseteq a.x .. x1 /\ YS \subseteq a.y .. y1
  <2> HIDE DEF x1, y1
  <2>1. QED  BY <1>1, <1>2, SamplesInside
<1>4. f \in Overlapping(a) <=> \E x \in XS, y \in YS : f \in FlagsAt(a.layer, x, y)
  BY SMT DEF Overlapping
<1>5. ASSUME NEW x \in XS, NEW y \in YS, f \in FlagsAt(a.layer, x, y)
      PROVE  \E u, v \in Int : Within(a, u, v) /\ f \in FlagsAt(a.layer, u, v)
  <2>1. x \in Int /\ y \in Int /\ Within(a, x, y)
    <3>1. x \in a.x .. x1 /\ y \in a.y .. y1
      BY <1>3
    <3>2. QED  BY <1>1, <3>1 DEF Within
  <2>2. QED  BY <1>5, <2>1
<1>6. ASSUME NEW x \in Int, NEW y \in Int, Within(a, x, y), f \in FlagsAt(a.layer, x, y)
      PROVE  \E u \in XS, v \in YS : f \in FlagsAt(a.layer, u, v)
  <2>1. x \in a.x .. x1 /\ y \in a.y .. y1
    BY <1>6 DEF Within
  <2> HIDE DEF x1, y1
  <2>2. PICK u \in XS : u \in a.x .. x1 /\ u \div T = x \div T
    BY <1>1, <1>2, <2>1, Sampled
  <2>3. PICK v \in YS : v \in a.y .. y1 /\ v \div T = y \div T
    BY <1>1, <1>2, <2>1, Sampled
  <2>4. u \in Int /\ v \in Int
    BY <1>1, <1>2, <2>2, <2>3
  <2>5. FlagsAt(a.layer, u, v) = FlagsAt(a.layer, x, y)
    BY <2>2, <2>3, <2>4, TileAtSame
  <2>6. QED  BY <1>6, <2>5
<1>7. QED  BY <1>4, <1>5, <1>6

(* Whether a box of w by h pixels fits at a place of a layer, and the platform tiles it would be *)
(* in whose top row is below y0's box.                                                          *)
Fits(l, w, h, x, y) ==
    \A i, j \in Int : (i \in x .. x + w - 1 /\ j \in y .. y + h - 1) => "solid" \notin FlagsAt(l, i, j)
Above(l, w, h, x, y, y0) ==
    \A i, j \in Int : (/\ i \in x .. x + w - 1 /\ j \in y .. y + h - 1
                       /\ "platform" \in FlagsAt(l, i, j) /\ j % T = 0) => j <= y0 + h - 1

(* The property's words for the box, in the words above: *)
LEMMA FreeFits ==
    ASSUME NEW a \in ActorType
    PROVE  Free(a) <=> Fits(a.layer, a.w, a.h, a.x, a.y)
<1>1. a.x \in Int /\ a.y \in Int /\ a.w \in Nat \ {0} /\ a.h \in Nat \ {0}
  BY DEF ActorType
<1>2. \A i \in a.x .. a.x + a.w - 1, j \in a.y .. a.y + a.h - 1 : <<i, j>> \in Box(a)
  BY DEF Box
<1>3. \A p \in Box(a) : p[1] \in a.x .. a.x + a.w - 1 /\ p[2] \in a.y .. a.y + a.h - 1
                        /\ p[1] \in Int /\ p[2] \in Int
  BY <1>1 DEF Box
<1>4. ASSUME Free(a)
      PROVE  Fits(a.layer, a.w, a.h, a.x, a.y)
  <2>1. \A i \in a.x .. a.x + a.w - 1, j \in a.y .. a.y + a.h - 1 : "solid" \notin FlagsAt(a.layer, i, j)
    <3> TAKE i \in a.x .. a.x + a.w - 1, j \in a.y .. a.y + a.h - 1
    <3> DEFINE p == <<i, j>>
    <3>1. p \in Box(a) /\ p[1] = i /\ p[2] = j
      BY <1>2
    <3> HIDE DEF p
    <3>2. QED  BY <1>4, <3>1 DEF Free
  <2>2. QED  BY <2>1 DEF Fits
<1>5. ASSUME Fits(a.layer, a.w, a.h, a.x, a.y)
      PROVE  Free(a)
  BY <1>3, <1>5 DEF Fits, Free
<1>6. QED  BY <1>4, <1>5

(* the same for platforms, *)
LEMMA AboveAbove ==
    ASSUME NEW a \in ActorType, NEW y0 \in Int
    PROVE  AbovePlatform(a, y0) <=> Above(a.layer, a.w, a.h, a.x, a.y, y0)
<1>1. a.x \in Int /\ a.y \in Int /\ a.w \in Nat \ {0} /\ a.h \in Nat \ {0}
  BY DEF ActorType
<1>2. \A i \in a.x .. a.x + a.w - 1, j \in a.y .. a.y + a.h - 1 : <<i, j>> \in Box(a)
  BY DEF Box
<1>3. \A p \in Box(a) : p[1] \in a.x .. a.x + a.w - 1 /\ p[2] \in a.y .. a.y + a.h - 1
                        /\ p[1] \in Int /\ p[2] \in Int
  BY <1>1 DEF Box
<1> DEFINE Bad(i, j) == "platform" \in FlagsAt(a.layer, i, j) /\ j % T = 0
<1>4. AbovePlatform(a, y0) <=> \A p \in Box(a) : Bad(p[1], p[2]) => p[2] <= y0 + a.h - 1
  BY DEF AbovePlatform
<1>5. Above(a.layer, a.w, a.h, a.x, a.y, y0) <=>
        \A i, j \in Int : (i \in a.x .. a.x + a.w - 1 /\ j \in a.y .. a.y + a.h - 1 /\ Bad(i, j))
                            => j <= y0 + a.h - 1
  BY DEF Above
<1> HIDE DEF Bad
<1>6. ASSUME AbovePlatform(a, y0)
      PROVE  Above(a.layer, a.w, a.h, a.x, a.y, y0)
  <2>1. \A i \in a.x .. a.x + a.w - 1, j \in a.y .. a.y + a.h - 1 : Bad(i, j) => j <= y0 + a.h - 1
    <3> TAKE i \in a.x .. a.x + a.w - 1, j \in a.y .. a.y + a.h - 1
    <3> DEFINE p == <<i, j>>
    <3>1. p \in Box(a) /\ p[1] = i /\ p[2] = j
      BY <1>2
    <3> HIDE DEF p
    <3>2. QED  BY <1>4, <1>6, <3>1
  <2>2. QED  BY <1>5, <2>1
<1>7. ASSUME Above(a.layer, a.w, a.h, a.x, a.y, y0)
      PROVE  AbovePlatform(a, y0)
  BY <1>3, <1>4, <1>5, <1>7
<1>8. QED  BY <1>6, <1>7

(* and for the flags the code looks at. *)
LEMMA FitsOverlapping ==
    ASSUME NEW a \in ActorType
    PROVE  "solid" \notin Overlapping(a) <=> Fits(a.layer, a.w, a.h, a.x, a.y)
<1>1. "solid" \in Overlapping(a) <=>
        \E x, y \in Int : Within(a, x, y) /\ "solid" \in FlagsAt(a.layer, x, y)
  BY OverlappingIsBox
<1>2. QED  BY <1>1 DEF Fits, Within
-----------------------------------------------------------------------------
(* How an actor moves. *)

Touches == {"hazard", "collect"}
(* Touched flags are flags of an actor. *)
LEMMA TouchedTouches == \A fs : Touched(fs) \subseteq Touches
BY DEF Touched, Touches

(* One pixel along the x axis: an actor is only held back by a solid. *)
LEMMA OnePixelX ==
    ASSUME NEW a \in ActorType, NEW step \in {-1, 1}
    PROVE  LET r == StepX(a, step)
               fits == Fits(a.layer, a.w, a.h, a.x + step, a.y)
           IN  /\ r \in [a : ActorType, stopped : BOOLEAN]
               /\ r.a.y = a.y /\ r.a.w = a.w /\ r.a.h = a.h /\ r.a.layer = a.layer
               /\ fits => /\ ~r.stopped /\ r.a.x = a.x + step
                          /\ r.a.state \subseteq a.state \cup Touches
               /\ ~fits => /\ r.stopped /\ r.a.x = a.x
                           /\ r.a.state \subseteq a.state \cup Touches
                                                   \cup {IF step < 0 THEN "left" ELSE "right"}
<1> DEFINE b == [a EXCEPT !.x = @ + step]
           fs == Overlapping(b)
           t == Touched(fs)
           side == IF step < 0 THEN "left" ELSE "right"
           r == StepX(a, step)
           go == [b EXCEPT !.state = @ \cup t]
           off == [go EXCEPT !.x = @ - step]
           still == [off EXCEPT !.vx = 0]
           back == [still EXCEPT !.state = @ \cup {side}]
<1>1. b \in ActorType /\ b.x = a.x + step /\ b.y = a.y /\ b.w = a.w /\ b.h = a.h
      /\ b.layer = a.layer /\ b.state = a.state
  BY DEF ActorType
<1>2. "solid" \notin fs <=> Fits(a.layer, a.w, a.h, a.x + step, a.y)
  <2> HIDE DEF b
  <2>1. "solid" \notin fs <=> Fits(b.layer, b.w, b.h, b.x, b.y)
    BY <1>1, FitsOverlapping
  <2>2. QED  BY <1>1, <2>1
<1>3. r = IF "solid" \notin fs THEN [a |-> go, stopped |-> FALSE] ELSE [a |-> back, stopped |-> TRUE]
  BY DEF StepX
<1>4. t \subseteq Touches
  BY TouchedTouches
<1> HIDE DEF t, b
<1>5. /\ go \in ActorType /\ go.x = b.x /\ go.y = b.y /\ go.w = b.w /\ go.h = b.h
      /\ go.layer = b.layer /\ go.state = b.state \cup t
  BY <1>1, <1>4 DEF ActorType, Touches
<1> HIDE DEF go
<1>6a. /\ off \in ActorType /\ off.x = go.x - step /\ off.y = go.y /\ off.w = go.w
      /\ off.h = go.h /\ off.layer = go.layer /\ off.state = go.state
  BY <1>5 DEF ActorType
<1> HIDE DEF off
<1>6b. /\ still \in ActorType /\ still.x = off.x /\ still.y = off.y /\ still.w = off.w
      /\ still.h = off.h /\ still.layer = off.layer /\ still.state = off.state
  BY <1>6a DEF ActorType
<1> HIDE DEF still
<1>6c. /\ back \in ActorType /\ back.x = still.x /\ back.y = still.y /\ back.w = still.w
      /\ back.h = still.h /\ back.layer = still.layer /\ back.state = still.state \cup {side}
  BY <1>6b DEF ActorType
<1>6. /\ back \in ActorType /\ back.x = go.x - step /\ back.y = go.y /\ back.w = go.w
      /\ back.h = go.h /\ back.layer = go.layer /\ back.state = go.state \cup {side}
  BY <1>6a, <1>6b, <1>6c
<1>7. a.x \in Int
  BY DEF ActorType
<1> HIDE DEF back, r, fs, side
<1>8. back.x = a.x
  BY <1>1, <1>5, <1>6, <1>7
<1>9. r \in [a : ActorType, stopped : BOOLEAN]
  BY <1>3, <1>5, <1>6
<1>10. r.a.y = a.y /\ r.a.w = a.w /\ r.a.h = a.h /\ r.a.layer = a.layer
  BY <1>1, <1>3, <1>5, <1>6
<1>11. Fits(a.layer, a.w, a.h, a.x + step, a.y) =>
         ~r.stopped /\ r.a.x = a.x + step /\ r.a.state \subseteq a.state \cup Touches
  BY <1>1, <1>2, <1>3, <1>4, <1>5
<1>12. ~Fits(a.layer, a.w, a.h, a.x + step, a.y) =>
         r.stopped /\ r.a.x = a.x /\ r.a.state \subseteq a.state \cup Touches \cup {side}
  BY <1>1, <1>2, <1>3, <1>4, <1>5, <1>6, <1>8
<1>13. QED  BY <1>9, <1>10, <1>11, <1>12 DEF r, side

(* The feet cross into a platform's row exactly when the row they enter is the top one of its tile. *)
LEMMA CrossesTop ==
    ASSUME NEW j \in Int
    PROVE  /\ j % T = 0 => CDiv(j, T) * T = j
           /\ j >= 0 => (j - 1 < CDiv(j, T) * T <=> j % T = 0)
<1>0. T \in Nat \ {0}
  BY PlayfieldAssumption
<1> DEFINE q == j \div T
           e == j % T
<1>1. j = T * q + e /\ q \in Int /\ e \in 0 .. T - 1
  BY <1>0, DivMod
<1>2. CASE j >= 0
  <2>1. CDiv(j, T) = q
    BY <1>2 DEF CDiv
  <2> HIDE DEF q, e
  <2>2. T * q = q * T /\ q * T \in Int
    BY <1>0, <1>1
  <2>3. e = 0 => q * T = j
    BY <1>1, <2>2
  <2>4. j - 1 < q * T <=> e = 0
    BY <1>0, <1>1, <2>2
  <2>5. QED  BY <2>1, <2>3, <2>4 DEF e
<1>3. CASE j < 0
  <2> SUFFICES ASSUME e = 0
               PROVE  CDiv(j, T) * T = j
    BY <1>3
  <2>1. CDiv(j, T) = -((-j) \div T)
    BY <1>3 DEF CDiv
  <2> DEFINE n == -j
             k == -q
  <2>2. n = T * k + 0 /\ n \in Int /\ k \in Int /\ 0 \in 0 .. T - 1
    <3> HIDE DEF q, e
    <3>1. -(T * q) = T * (-q)
      BY <1>0, <1>1
    <3>2. QED  BY <1>0, <1>1, <3>1
  <2> HIDE DEF n, k
  <2>3. n \div T = k
    BY <1>0, <2>2, DivUnique
  <2>4. CDiv(j, T) = -k
    BY <2>1, <2>3 DEF n
  <2>5. (-k) * T = -(T * k)
    BY <1>0, <2>2
  <2>6. -n = j
    BY DEF n
  <2>7. QED  BY <1>0, <2>2, <2>4, <2>5, <2>6
<1>4. QED  BY <1>2, <1>3

(* A platform floor is hit when one pixel further down a platform's top row would be entered, and *)
(* above the map perhaps before.                                                                  *)
LEMMA FloorIsHit ==
    ASSUME NEW b \in ActorType
    PROVE  LET y == b.y - 1
               above == Above(b.layer, b.w, b.h, b.x, b.y, y)
           IN  /\ Above(b.layer, b.w, b.h, b.x, y, y) /\ ~HitsPlatformFloor(b, y) => above
               /\ HitsPlatformFloor(b, y) /\ b.y + b.h >= 1 => ~above
<1> DEFINE y == b.y - 1
           j == b.y + b.h - 1
           x1 == b.x + b.w - 1
<1>0. T \in Nat \ {0}
  BY PlayfieldAssumption
<1>1. b.x \in Int /\ b.y \in Int /\ b.w \in Nat \ {0} /\ b.h \in Nat \ {0}
  BY DEF ActorType
<1>2. j \in Int /\ x1 \in Int /\ b.x <= x1 /\ y + b.h - 1 = j - 1
  BY <1>1
<1>3. HitsPlatformFloor(b, y) <=>
        /\ j >= j - 1 /\ j - 1 < CDiv(j, T) * T
        /\ \E x \in Samples(b.x, x1) : "platform" \in FlagsAt(b.layer, x, j)
  BY <1>2 DEF HitsPlatformFloor
<1>4. \A x \in Samples(b.x, x1) : x \in b.x .. x1
  <2> HIDE DEF x1
  <2>1. QED  BY <1>1, <1>2, SamplesInside
<1>5. ASSUME NEW x \in b.x .. x1, "platform" \in FlagsAt(b.layer, x, j)
      PROVE  \E u \in Samples(b.x, x1) : "platform" \in FlagsAt(b.layer, u, j)
  <2> HIDE DEF x1, j
  <2>1. PICK u \in Samples(b.x, x1) : u \in b.x .. x1 /\ u \div T = x \div T
    BY <1>1, <1>2, Sampled
  <2>2. u \in Int /\ x \in Int
    BY <1>1, <1>2, <2>1
  <2>3. FlagsAt(b.layer, u, j) = FlagsAt(b.layer, x, j)
    BY <1>2, <2>1, <2>2, TileAtSame
  <2>4. QED  BY <1>5, <2>3
<1>6. ASSUME Above(b.layer, b.w, b.h, b.x, y, y), ~HitsPlatformFloor(b, y)
      PROVE  Above(b.layer, b.w, b.h, b.x, b.y, y)
  <2> SUFFICES ASSUME NEW i \in Int, NEW k \in Int, i \in b.x .. x1, k \in b.y .. j,
                      "platform" \in FlagsAt(b.layer, i, k), k % T = 0
               PROVE  k <= y + b.h - 1
    BY DEF Above
  <2>1. k # j
    <3> SUFFICES ASSUME k = j PROVE FALSE
      OBVIOUS
    <3>1. CDiv(j, T) * T = j
      <4> HIDE DEF j
      <4>1. QED  BY <1>2, CrossesTop
    <3>2. \E u \in Samples(b.x, x1) : "platform" \in FlagsAt(b.layer, u, j)
      <4> HIDE DEF j, x1
      <4>1. QED  BY <1>5
    <3> HIDE DEF j, x1, y
    <3>3. QED  BY <1>2, <1>3, <1>6, <3>1, <3>2
  <2> HIDE DEF j, x1
  <2>2. k <= j - 1
    BY <1>1, <1>2, <2>1
  <2>3. QED  BY <1>2, <2>2
<1>7. ASSUME HitsPlatformFloor(b, y), b.y + b.h >= 1
      PROVE  ~Above(b.layer, b.w, b.h, b.x, b.y, y)
  <2>1. j >= 0
    BY <1>1, <1>7
  <2>2. j % T = 0
    <3> HIDE DEF j, y
    <3>1. QED  BY <1>2, <1>3, <1>7, <2>1, CrossesTop
  <2>3. PICK x \in Samples(b.x, x1) : "platform" \in FlagsAt(b.layer, x, j)
    <3> HIDE DEF j, y, x1
    <3>1. QED  BY <1>3, <1>7
  <2>4. x \in b.x .. x1 /\ x \in Int
    <3> HIDE DEF x1
    <3>1. QED  BY <1>1, <1>2, <1>4
  <2>5. j \in b.y .. b.y + b.h - 1 /\ ~(j <= y + b.h - 1)
    BY <1>1
  <2> HIDE DEF j, y
  <2>6. QED  BY <1>2, <2>2, <2>3, <2>4, <2>5 DEF Above
<1>8. QED  BY <1>6, <1>7
(* One pixel along the y axis: an actor is held back by a solid, and on its way down by a floor. *)
LEMMA OnePixelY ==
    ASSUME NEW a \in ActorType, NEW step \in {-1, 1}
    PROVE  LET r == StepY(a, step)
               fits == Fits(a.layer, a.w, a.h, a.x, a.y + step)
               above == Above(a.layer, a.w, a.h, a.x, a.y + step, a.y)
           IN  /\ r \in [a : ActorType, stopped : BOOLEAN]
               /\ r.a.x = a.x /\ r.a.w = a.w /\ r.a.h = a.h /\ r.a.layer = a.layer
               /\ ~r.stopped => /\ fits /\ (step = 1 => above)
                                /\ r.a.y = a.y + step /\ r.a.state \subseteq a.state \cup Touches
               /\ r.stopped => /\ ~fits \/ (step = 1 /\ (a.y + a.h >= 0 => ~above))
                               /\ r.a.y = a.y
                               /\ r.a.state \subseteq a.state \cup Touches
                                                       \cup {IF step < 0 THEN "head" ELSE "ground"}
<1> DEFINE b == [a EXCEPT !.y = @ + step]
           fs == Overlapping(b)
           hit == HitsPlatformFloor(b, a.y)
           t == Touched(fs)
           side == IF step < 0 THEN "head" ELSE "ground"
           r == StepY(a, step)
           go == [b EXCEPT !.state = @ \cup t]
           off == [go EXCEPT !.y = @ - step]
           still == [off EXCEPT !.vy = 0]
           back == [still EXCEPT !.state = @ \cup {side}]
           fits == Fits(a.layer, a.w, a.h, a.x, a.y + step)
           above == Above(a.layer, a.w, a.h, a.x, a.y + step, a.y)
<1>0. a.x \in Int /\ a.y \in Int /\ a.w \in Nat \ {0} /\ a.h \in Nat \ {0}
  BY DEF ActorType
<1>1. b \in ActorType /\ b.y = a.y + step /\ b.x = a.x /\ b.w = a.w /\ b.h = a.h
      /\ b.layer = a.layer /\ b.state = a.state
  BY DEF ActorType
<1>2. "solid" \notin fs <=> fits
  <2> HIDE DEF b
  <2>1. "solid" \notin fs <=> Fits(b.layer, b.w, b.h, b.x, b.y)
    BY <1>1, FitsOverlapping
  <2>2. QED  BY <1>1, <2>1
<1>3. ASSUME step = 1
      PROVE  (~hit => above) /\ (hit /\ a.y + a.h >= 0 => ~above)
  <2>1. b.y - 1 = a.y
    BY <1>0, <1>1, <1>3
  <2>2. Above(b.layer, b.w, b.h, b.x, b.y - 1, b.y - 1)
    <3> DEFINE y == b.y - 1
    <3>1. y \in Int
      BY <1>0, <2>1
    <3> HIDE DEF b, y
    <3>2. Above(b.layer, b.w, b.h, b.x, y, y)
      BY <1>0, <1>1, <3>1 DEF Above
    <3>3. QED  BY <3>2 DEF y
  <2> HIDE DEF b
  <2>3. /\ ~HitsPlatformFloor(b, b.y - 1) => Above(b.layer, b.w, b.h, b.x, b.y, b.y - 1)
        /\ HitsPlatformFloor(b, b.y - 1) /\ b.y + b.h >= 1
             => ~Above(b.layer, b.w, b.h, b.x, b.y, b.y - 1)
    BY <1>1, <2>2, FloorIsHit
  <2>4. a.y + a.h >= 0 => b.y + b.h >= 1
    BY <1>0, <1>1, <1>3
  <2>5. QED  BY <1>1, <2>1, <2>3, <2>4
<1>4. r = IF "solid" \notin fs /\ (step < 0 \/ ~hit) THEN [a |-> go, stopped |-> FALSE]
          ELSE [a |-> back, stopped |-> TRUE]
  BY DEF StepY
<1>5. t \subseteq Touches
  BY TouchedTouches
<1> HIDE DEF t, b, hit
<1>6. /\ go \in ActorType /\ go.x = b.x /\ go.y = b.y /\ go.w = b.w /\ go.h = b.h
      /\ go.layer = b.layer /\ go.state = b.state \cup t
  BY <1>1, <1>5 DEF ActorType, Touches
<1> HIDE DEF go
<1>7. /\ off \in ActorType /\ off.y = go.y - step /\ off.x = go.x /\ off.w = go.w
      /\ off.h = go.h /\ off.layer = go.layer /\ off.state = go.state
  BY <1>6 DEF ActorType
<1> HIDE DEF off
<1>8. /\ still \in ActorType /\ still.x = off.x /\ still.y = off.y /\ still.w = off.w
      /\ still.h = off.h /\ still.layer = off.layer /\ still.state = off.state
  BY <1>7 DEF ActorType
<1> HIDE DEF still
<1>9. /\ back \in ActorType /\ back.x = still.x /\ back.y = still.y /\ back.w = still.w
      /\ back.h = still.h /\ back.layer = still.layer /\ back.state = still.state \cup {side}
  BY <1>8 DEF ActorType
<1> HIDE DEF back, r, fs, side, fits, above
<1>10. back.y = a.y
  BY <1>0, <1>1, <1>6, <1>7, <1>8, <1>9
<1>11. r \in [a : ActorType, stopped : BOOLEAN]
  BY <1>4, <1>6, <1>9
<1>12. r.a.x = a.x /\ r.a.w = a.w /\ r.a.h = a.h /\ r.a.layer = a.layer
  BY <1>1, <1>4, <1>6, <1>7, <1>8, <1>9
<1>13. r.stopped <=> ("solid" \in fs \/ (step = 1 /\ hit))
  BY <1>4
<1>14. ~r.stopped => r.a.y = a.y + step /\ r.a.state \subseteq a.state \cup Touches
  BY <1>1, <1>4, <1>5, <1>6
<1>15. r.stopped => r.a.y = a.y /\ r.a.state \subseteq a.state \cup Touches \cup {side}
  <2>1. r.stopped => r.a = back
    BY <1>4
  <2>2. back.state = a.state \cup t \cup {side}
    BY <1>1, <1>6, <1>7, <1>8, <1>9
  <2>3. QED  BY <1>5, <1>10, <2>1, <2>2
<1>16. ~r.stopped => fits /\ (step = 1 => above)
  BY <1>2, <1>3, <1>13
<1>17. r.stopped => ~fits \/ (step = 1 /\ (a.y + a.h >= 0 => ~above))
  BY <1>2, <1>3, <1>13
<1>18. QED  BY <1>11, <1>12, <1>14, <1>15, <1>16, <1>17 DEF r, side, fits, above

(* Along the x axis an actor reaches a place where it fits, if it fitted, and next to a solid if  *)
(* it says that it hit one.                                                                       *)
MovedX(a, b) ==
    /\ b.y = a.y /\ b.w = a.w /\ b.h = a.h /\ b.layer = a.layer
    /\ Fits(a.layer, a.w, a.h, a.x, a.y) => Fits(a.layer, a.w, a.h, b.x, a.y)
    /\ "left" \in b.state => ~Fits(a.layer, a.w, a.h, b.x - 1, a.y)
    /\ "right" \in b.state => ~Fits(a.layer, a.w, a.h, b.x + 1, a.y)
    /\ b.state \subseteq Touches \cup {"left", "right"}
(* By induction over the pixels. *)
LEMMA AlongXMoves ==
    ASSUME NEW a \in ActorType, a.state \subseteq Touches, NEW dx \in Int
    PROVE  AlongX(a, dx) \in ActorType /\ MovedX(a, AlongX(a, dx))
<1> DEFINE step == IF dx < 0 THEN -1 ELSE 1
           n == step * dx
           S == {s \in [a : ActorType, stopped : BOOLEAN] :
                   MovedX(a, s.a) /\ (~s.stopped => s.a.state \subseteq Touches)}
           s0 == [a |-> a, stopped |-> FALSE]
           Then(s) == IF s.stopped THEN s ELSE StepX(s.a, step)
           F == [s \in S |-> Then(s)]
           at[i \in 0 .. n] == IF i = 0 THEN s0 ELSE IF at[i - 1].stopped THEN at[i - 1]
                                                   ELSE StepX(at[i - 1].a, step)
<1>1. n \in Nat /\ step \in {-1, 1}
  OBVIOUS
<1>2. s0 \in S
  <2>1. "left" \notin a.state /\ "right" \notin a.state
    BY DEF Touches
  <2>2. MovedX(a, a)
    BY <2>1 DEF MovedX
  <2>3. s0 \in [a : ActorType, stopped : BOOLEAN]
    OBVIOUS
  <2>4. QED  BY <2>2, <2>3
<1> HIDE DEF step
<1>3. ASSUME NEW s \in S
      PROVE  Then(s) \in S
  <2>1. CASE s.stopped
    BY <2>1
  <2>2. CASE ~s.stopped
    <3> DEFINE b == s.a
               r == StepX(b, step)
    <3>1. b \in ActorType /\ MovedX(a, b) /\ b.state \subseteq Touches
      BY <2>2
    <3> HIDE DEF b
    <3>2. LET fits == Fits(b.layer, b.w, b.h, b.x + step, b.y)
          IN  /\ r \in [a : ActorType, stopped : BOOLEAN]
              /\ r.a.y = b.y /\ r.a.w = b.w /\ r.a.h = b.h /\ r.a.layer = b.layer
              /\ fits => /\ ~r.stopped /\ r.a.x = b.x + step
                         /\ r.a.state \subseteq b.state \cup Touches
              /\ ~fits => /\ r.stopped /\ r.a.x = b.x
                          /\ r.a.state \subseteq b.state \cup Touches
                                                  \cup {IF step < 0 THEN "left" ELSE "right"}
      BY <1>1, <3>1, OnePixelX
    <3> HIDE DEF r
    <3>3. CASE Fits(b.layer, b.w, b.h, b.x + step, b.y)
      <4>1. ~r.stopped /\ r.a.x = b.x + step /\ r.a.state \subseteq Touches
        BY <3>1, <3>2, <3>3
      <4>2. "left" \notin r.a.state /\ "right" \notin r.a.state
        BY <4>1 DEF Touches
      <4>3. MovedX(a, r.a)
        BY <3>1, <3>2, <3>3, <4>1, <4>2 DEF MovedX
      <4>4. r \in S
        BY <3>2, <4>1, <4>3
      <4>5. QED  BY <2>2, <4>4 DEF r, b
    <3>4. CASE ~Fits(b.layer, b.w, b.h, b.x + step, b.y)
      <4>1. /\ r.stopped /\ r.a.x = b.x
            /\ r.a.state \subseteq Touches \cup {IF step < 0 THEN "left" ELSE "right"}
        BY <3>1, <3>2, <3>4
      <4>2. ("left" \in r.a.state => step = -1) /\ ("right" \in r.a.state => step = 1)
        BY <1>1, <4>1 DEF Touches
      <4>3. b.x \in Int /\ b.x + (-1) = b.x - 1
        BY <3>1 DEF ActorType
      <4>4. "left" \in r.a.state => ~Fits(b.layer, b.w, b.h, b.x - 1, b.y)
        BY <3>4, <4>2, <4>3
      <4>5. "right" \in r.a.state => ~Fits(b.layer, b.w, b.h, b.x + 1, b.y)
        BY <3>4, <4>2
      <4>6. r.a.state \subseteq Touches \cup {"left", "right"}
        BY <4>1
      <4>7. MovedX(a, r.a)
        BY <3>1, <3>2, <4>1, <4>4, <4>5, <4>6 DEF MovedX
      <4>8. r \in S
        BY <3>2, <4>1, <4>7
      <4>9. QED  BY <2>2, <4>8 DEF r, b
    <3>5. QED  BY <3>3, <3>4
  <2>3. QED  BY <2>1, <2>2
<1>4. F \in [S -> S]
  <2> HIDE DEF S, Then
  <2>1. QED  BY <1>3
<1>5. PICK g \in [0 .. n -> S] : Repeats(g, n, s0, F)
  <2> HIDE DEF S, F, s0, n
  <2>1. QED  BY <1>1, <1>2, <1>4, Repeated
<1>6. g = [i \in 0 .. n |-> IF i = 0 THEN s0 ELSE IF g[i - 1].stopped THEN g[i - 1]
                                               ELSE StepX(g[i - 1].a, step)]
  <2>1. \A i \in 0 .. n : i # 0 => i - 1 \in 0 .. n
    BY <1>1
  <2>2. \A i \in 0 .. n : i # 0 => F[g[i - 1]] = Then(g[i - 1])
    <3> HIDE DEF S, Then, n
    <3>1. QED  BY <2>1
  <2>3. g = [i \in 0 .. n |-> IF i = 0 THEN s0 ELSE F[g[i - 1]]]
    BY <1>5 DEF Repeats
  <2> HIDE DEF F, n, s0
  <2>4. QED  BY <2>2, <2>3
<1>7. at = [i \in 0 .. n |-> IF i = 0 THEN s0 ELSE IF at[i - 1].stopped THEN at[i - 1]
                                                ELSE StepX(at[i - 1].a, step)]
  <2> HIDE DEF n, s0
  <2>1. QED  BY <1>6
<1>8. AlongX(a, dx) = at[n].a
  BY DEF AlongX, step
<1>9. at[n] \in S
  <2> DEFINE Good == {i \in Nat : i <= n => at[i] \in S}
  <2>1. \A i \in 0 .. n : at[i] = IF i = 0 THEN s0 ELSE IF at[i - 1].stopped THEN at[i - 1]
                                                       ELSE StepX(at[i - 1].a, step)
    <3> HIDE DEF at, n, s0
    <3>1. QED  BY <1>7
  <2> HIDE DEF at, n, s0, S
  <2>2. 0 \in Good
    BY <1>1, <1>2, <2>1
  <2>3. ASSUME NEW i \in Nat, i \in Good
        PROVE  i + 1 \in Good
    <3> SUFFICES ASSUME i + 1 <= n
                 PROVE  at[i + 1] \in S
      OBVIOUS
    <3> DEFINE s == at[i]
    <3>1. s \in S
      BY <1>1, <2>3
    <3>2. at[i + 1] = Then(s)
      <4>1. i + 1 \in 0 .. n /\ i + 1 # 0 /\ (i + 1) - 1 = i
        BY <1>1
      <4>2. QED  BY <2>1, <4>1
    <3> HIDE DEF s, Then
    <3>3. QED  BY <1>3, <3>1, <3>2
  <2> HIDE DEF Good
  <2>4. Nat \subseteq Good
    BY <2>2, <2>3, NatInd
  <2>5. n \in Good /\ n <= n
    BY <1>1, <2>4
  <2>6. QED  BY <2>5 DEF Good
<1> HIDE DEF at, n
<1>10. QED  BY <1>8, <1>9
(* Along the y axis likewise, on the ground at a solid or a platform it has not passed. *)
MovedY(a, b) ==
    /\ b.x = a.x /\ b.w = a.w /\ b.h = a.h /\ b.layer = a.layer
    /\ Fits(a.layer, a.w, a.h, a.x, a.y) => Fits(a.layer, a.w, a.h, a.x, b.y)
    /\ Above(a.layer, a.w, a.h, a.x, b.y, a.y)
    /\ "head" \in b.state => ~Fits(a.layer, a.w, a.h, a.x, b.y - 1)
    /\ ("ground" \in b.state /\ b.y + b.h >= 0) =>
          ~Fits(a.layer, a.w, a.h, a.x, b.y + 1) \/ ~Above(a.layer, a.w, a.h, a.x, b.y + 1, b.y)
    /\ b.state \subseteq a.state \cup Touches \cup {"head", "ground"}
(* By induction over the pixels. *)
LEMMA AlongYMoves ==
    ASSUME NEW a \in ActorType, "head" \notin a.state, "ground" \notin a.state, NEW dy \in Int
    PROVE  AlongY(a, dy) \in ActorType /\ MovedY(a, AlongY(a, dy))
<1> DEFINE step == IF dy < 0 THEN -1 ELSE 1
           n == step * dy
           S == {s \in [a : ActorType, stopped : BOOLEAN] :
                   /\ MovedY(a, s.a) /\ (~s.stopped => s.a.state \subseteq a.state \cup Touches)
                   /\ step = -1 => s.a.y <= a.y}
           s0 == [a |-> a, stopped |-> FALSE]
           Then(s) == IF s.stopped THEN s ELSE StepY(s.a, step)
           F == [s \in S |-> Then(s)]
           at[i \in 0 .. n] == IF i = 0 THEN s0 ELSE IF at[i - 1].stopped THEN at[i - 1]
                                                   ELSE StepY(at[i - 1].a, step)
<1>0. a.y \in Int /\ a.h \in Nat \ {0}
  BY DEF ActorType
<1>1. n \in Nat /\ step \in {-1, 1}
  OBVIOUS
<1>2. s0 \in S
  <2>1. Above(a.layer, a.w, a.h, a.x, a.y, a.y)
    BY <1>0 DEF Above
  <2>2. MovedY(a, a)
    BY <2>1 DEF MovedY
  <2>3. s0 \in [a : ActorType, stopped : BOOLEAN]
    OBVIOUS
  <2>4. s0.a = a /\ a.y <= a.y /\ a.state \subseteq a.state \cup Touches
    BY <1>0
  <2> HIDE DEF s0
  <2>5. QED  BY <2>2, <2>3, <2>4
<1> HIDE DEF step
<1>3. ASSUME NEW s \in S
      PROVE  Then(s) \in S
  <2>1. CASE s.stopped
    BY <2>1
  <2>2. CASE ~s.stopped
    <3> DEFINE b == s.a
               r == StepY(b, step)
               y == b.y + step
               fits == Fits(b.layer, b.w, b.h, b.x, y)
               above == Above(b.layer, b.w, b.h, b.x, y, b.y)
    <3>1. b \in ActorType /\ MovedY(a, b) /\ b.state \subseteq a.state \cup Touches
          /\ (step = -1 => b.y <= a.y)
      BY <2>2
    <3> HIDE DEF b
    <3>2. /\ r \in [a : ActorType, stopped : BOOLEAN]
          /\ r.a.x = b.x /\ r.a.w = b.w /\ r.a.h = b.h /\ r.a.layer = b.layer
          /\ ~r.stopped => /\ fits /\ (step = 1 => above)
                           /\ r.a.y = y /\ r.a.state \subseteq b.state \cup Touches
          /\ r.stopped => /\ ~fits \/ (step = 1 /\ (b.y + b.h >= 0 => ~above))
                          /\ r.a.y = b.y
                          /\ r.a.state \subseteq b.state \cup Touches
                                                  \cup {IF step < 0 THEN "head" ELSE "ground"}
      BY <1>1, <3>1, OnePixelY
    <3> HIDE DEF r
    <3>3. /\ b.x = a.x /\ b.w = a.w /\ b.h = a.h /\ b.layer = a.layer
          /\ Above(a.layer, a.w, a.h, a.x, b.y, a.y)
          /\ Fits(a.layer, a.w, a.h, a.x, a.y) => Fits(a.layer, a.w, a.h, a.x, b.y)
      BY <3>1 DEF MovedY
    <3>4. b.y \in Int /\ y \in Int
      BY <1>1, <3>1 DEF ActorType
    <3>5. CASE ~r.stopped
      <4>1. fits /\ (step = 1 => above) /\ r.a.y = y /\ r.a.state \subseteq a.state \cup Touches
        BY <3>1, <3>2, <3>5
      <4>2. "head" \notin r.a.state /\ "ground" \notin r.a.state
        BY <4>1 DEF Touches
      <4>3. Above(a.layer, a.w, a.h, a.x, y, a.y)
        <5>1. CASE step = 1
          <6>1. above
            BY <4>1, <5>1
          <6>2. y = b.y + 1
            BY <5>1
          <6> HIDE DEF y
          <6>3. QED  BY <1>0, <3>3, <3>4, <6>1, <6>2 DEF Above
        <5>2. CASE step = -1
          <6>1. y <= a.y
            BY <1>0, <3>1, <3>4, <5>2
          <6> HIDE DEF y
          <6>2. QED  BY <1>0, <3>4, <6>1 DEF Above
        <5>3. QED  BY <1>1, <5>1, <5>2
      <4>4. step = -1 => r.a.y <= a.y
        BY <1>0, <3>1, <3>4, <4>1
      <4>5. Fits(a.layer, a.w, a.h, a.x, y)
        BY <3>3, <4>1
      <4> HIDE DEF y, fits, above
      <4>6. MovedY(a, r.a)
        BY <3>2, <3>3, <4>1, <4>2, <4>3, <4>5 DEF MovedY
      <4>7. r \in S
        BY <3>2, <4>1, <4>4, <4>6
      <4>8. QED  BY <2>2, <4>7 DEF r, b
    <3>6. CASE r.stopped
      <4>1. /\ ~fits \/ (step = 1 /\ (b.y + b.h >= 0 => ~above))
            /\ r.a.y = b.y
            /\ r.a.state \subseteq a.state \cup Touches \cup {IF step < 0 THEN "head" ELSE "ground"}
        BY <3>1, <3>2, <3>6
      <4>2. ("head" \in r.a.state => step = -1) /\ ("ground" \in r.a.state => step = 1)
        BY <1>1, <4>1 DEF Touches
      <4>3. step = -1 => y = b.y - 1
        BY <3>4
      <4>4. step = 1 => y = b.y + 1
        OBVIOUS
      <4> HIDE DEF y
      <4>5. "head" \in r.a.state => ~Fits(a.layer, a.w, a.h, a.x, b.y - 1)
        BY <3>3, <4>1, <4>2, <4>3
      <4>6. ("ground" \in r.a.state /\ b.y + b.h >= 0) =>
              ~Fits(a.layer, a.w, a.h, a.x, b.y + 1) \/ ~Above(a.layer, a.w, a.h, a.x, b.y + 1, b.y)
        BY <3>3, <4>1, <4>2, <4>4
      <4>7. r.a.state \subseteq a.state \cup Touches \cup {"head", "ground"}
        BY <4>1
      <4>8. MovedY(a, r.a)
        BY <3>2, <3>3, <4>1, <4>5, <4>6, <4>7 DEF MovedY
      <4>9. step = -1 => r.a.y <= a.y
        BY <3>1, <4>1
      <4>10. r \in S
        BY <3>2, <3>6, <4>8, <4>9
      <4>11. QED  BY <2>2, <4>10 DEF r, b
    <3>7. QED  BY <3>5, <3>6
  <2>3. QED  BY <2>1, <2>2
<1>4. F \in [S -> S]
  <2> HIDE DEF S, Then
  <2>1. QED  BY <1>3
<1>5. PICK g \in [0 .. n -> S] : Repeats(g, n, s0, F)
  <2> HIDE DEF S, F, s0, n
  <2>1. QED  BY <1>1, <1>2, <1>4, Repeated
<1>6. g = [i \in 0 .. n |-> IF i = 0 THEN s0 ELSE IF g[i - 1].stopped THEN g[i - 1]
                                               ELSE StepY(g[i - 1].a, step)]
  <2>1. \A i \in 0 .. n : i # 0 => i - 1 \in 0 .. n
    BY <1>1
  <2>2. \A i \in 0 .. n : i # 0 => F[g[i - 1]] = Then(g[i - 1])
    <3> HIDE DEF S, Then, n
    <3>1. QED  BY <2>1
  <2>3. g = [i \in 0 .. n |-> IF i = 0 THEN s0 ELSE F[g[i - 1]]]
    BY <1>5 DEF Repeats
  <2> HIDE DEF F, n, s0
  <2>4. QED  BY <2>2, <2>3
<1>7. at = [i \in 0 .. n |-> IF i = 0 THEN s0 ELSE IF at[i - 1].stopped THEN at[i - 1]
                                                ELSE StepY(at[i - 1].a, step)]
  <2> HIDE DEF n, s0
  <2>1. QED  BY <1>6
<1>8. AlongY(a, dy) = at[n].a
  BY DEF AlongY, step
<1>9. at[n] \in S
  <2> DEFINE Good == {i \in Nat : i <= n => at[i] \in S}
  <2>1. \A i \in 0 .. n : at[i] = IF i = 0 THEN s0 ELSE IF at[i - 1].stopped THEN at[i - 1]
                                                       ELSE StepY(at[i - 1].a, step)
    <3> HIDE DEF at, n, s0
    <3>1. QED  BY <1>7
  <2> HIDE DEF at, n, s0, S
  <2>2. 0 \in Good
    BY <1>1, <1>2, <2>1
  <2>3. ASSUME NEW i \in Nat, i \in Good
        PROVE  i + 1 \in Good
    <3> SUFFICES ASSUME i + 1 <= n
                 PROVE  at[i + 1] \in S
      OBVIOUS
    <3> DEFINE s == at[i]
    <3>1. s \in S
      BY <1>1, <2>3
    <3>2. at[i + 1] = Then(s)
      <4>1. i + 1 \in 0 .. n /\ i + 1 # 0 /\ (i + 1) - 1 = i
        BY <1>1
      <4>2. QED  BY <2>1, <4>1
    <3> HIDE DEF s, Then
    <3>3. QED  BY <1>3, <3>1, <3>2
  <2> HIDE DEF Good
  <2>4. Nat \subseteq Good
    BY <2>2, <2>3, NatInd
  <2>5. n \in Good /\ n <= n
    BY <1>1, <2>4
  <2>6. QED  BY <2>5 DEF Good
<1> HIDE DEF at, n
<1>10. QED  BY <1>8, <1>9
(* A whole move. *)
LEMMA MovedActor ==
    ASSUME NEW a \in ActorType, NEW dx \in Int, NEW dy \in Int
    PROVE  LET m == Moved(a, dx, dy)
           IN  /\ m \in ActorType /\ m.w = a.w /\ m.h = a.h /\ m.layer = a.layer
               /\ Fits(a.layer, a.w, a.h, a.x, a.y) => Fits(a.layer, a.w, a.h, m.x, m.y)
               /\ Above(a.layer, a.w, a.h, m.x, m.y, a.y)
               /\ "left" \in m.state => ~Fits(a.layer, a.w, a.h, m.x - 1, a.y)
               /\ "right" \in m.state => ~Fits(a.layer, a.w, a.h, m.x + 1, a.y)
               /\ "head" \in m.state => ~Fits(a.layer, a.w, a.h, m.x, m.y - 1)
               /\ ("ground" \in m.state /\ m.y + m.h >= 0) =>
                     \/ ~Fits(a.layer, a.w, a.h, m.x, m.y + 1)
                     \/ ~Above(a.layer, a.w, a.h, m.x, m.y + 1, m.y)
<1> DEFINE c == [a EXCEPT !.state = Touched(@)]
           d == AlongX(c, dx)
           b == AlongY(d, dy)
           t == Touched(Overlapping(b))
           m == Moved(a, dx, dy)
<1>1. /\ c \in ActorType /\ c.x = a.x /\ c.y = a.y /\ c.w = a.w /\ c.h = a.h
      /\ c.layer = a.layer /\ c.state \subseteq Touches
  <2> DEFINE u == Touched(a.state)
  <2>1. u \subseteq Touches /\ c = [a EXCEPT !.state = u]
    BY TouchedTouches
  <2> HIDE DEF u
  <2>2. QED  BY <2>1 DEF ActorType, Touches
<1>2. m = [b EXCEPT !.state = @ \cup t] /\ t \subseteq Touches
  BY TouchedTouches DEF Moved
<1> HIDE DEF c, t
<1>3. d \in ActorType /\ MovedX(c, d)
  BY <1>1, AlongXMoves
<1> HIDE DEF d
<1>4. "head" \notin d.state /\ "ground" \notin d.state
  BY <1>3 DEF MovedX, Touches
<1>5. b \in ActorType /\ MovedY(d, b)
  BY <1>3, <1>4, AlongYMoves
<1> HIDE DEF b, m
<1>6. /\ m \in ActorType /\ m.x = b.x /\ m.y = b.y /\ m.w = b.w /\ m.h = b.h
      /\ m.layer = b.layer /\ m.state = b.state \cup t
  BY <1>2, <1>5 DEF ActorType, Touches
<1>7. /\ d.y = a.y /\ d.w = a.w /\ d.h = a.h /\ d.layer = a.layer
      /\ Fits(a.layer, a.w, a.h, a.x, a.y) => Fits(a.layer, a.w, a.h, d.x, a.y)
      /\ "left" \in d.state => ~Fits(a.layer, a.w, a.h, d.x - 1, a.y)
      /\ "right" \in d.state => ~Fits(a.layer, a.w, a.h, d.x + 1, a.y)
  BY <1>1, <1>3 DEF MovedX
<1>8. /\ b.x = d.x /\ b.w = a.w /\ b.h = a.h /\ b.layer = a.layer
      /\ Fits(a.layer, a.w, a.h, d.x, a.y) => Fits(a.layer, a.w, a.h, d.x, b.y)
      /\ Above(a.layer, a.w, a.h, d.x, b.y, a.y)
      /\ "head" \in b.state => ~Fits(a.layer, a.w, a.h, d.x, b.y - 1)
      /\ ("ground" \in b.state /\ b.y + b.h >= 0) =>
            ~Fits(a.layer, a.w, a.h, d.x, b.y + 1) \/ ~Above(a.layer, a.w, a.h, d.x, b.y + 1, b.y)
      /\ b.state \subseteq d.state \cup Touches \cup {"head", "ground"}
  BY <1>5, <1>7 DEF MovedY
<1>9. /\ "left" \in m.state => "left" \in d.state
      /\ "right" \in m.state => "right" \in d.state
      /\ "head" \in m.state => "head" \in b.state
      /\ "ground" \in m.state => "ground" \in b.state
  BY <1>2, <1>6, <1>8 DEF Touches
<1>10. QED  BY <1>6, <1>7, <1>8, <1>9 DEF m

(* What a move promises, of the actor it starts from and the one it ends with. *)
Collides(f, b) ==
    /\ Free(f) => /\ Free(b)
                  /\ "left" \in b.state => ~Free([b EXCEPT !.x = @ - 1, !.y = f.y])
                  /\ "right" \in b.state => ~Free([b EXCEPT !.x = @ + 1, !.y = f.y])
                  /\ "head" \in b.state => ~Free([b EXCEPT !.y = @ - 1])
    /\ AbovePlatform(b, f.y)
    /\ ("ground" \in b.state /\ b.y + b.h >= 0) =>
          LET below == [b EXCEPT !.y = @ + 1]
          IN  ~Free(below) \/ ~AbovePlatform(below, b.y)
(* The property is of the last move. *)
LEMMA CollidesIs == last.op = "move" => (Collides(last.from, actor) <=> StaysOutOfSolids /\ LandsOnPlatforms)
BY DEF Collides, StaysOutOfSolids, LandsOnPlatforms

(* A whole move keeps what it promises. *)
LEMMA MoveCollides ==
    ASSUME NEW f \in ActorType, NEW a \in ActorType, NEW dx \in Int, NEW dy \in Int,
           a.x = f.x, a.y = f.y, a.w = f.w, a.h = f.h, a.layer = f.layer
    PROVE  Moved(a, dx, dy) \in ActorType /\ Collides(f, Moved(a, dx, dy))
<1> DEFINE m == Moved(a, dx, dy)
           west == [m EXCEPT !.x = @ - 1]
           east == [m EXCEPT !.x = @ + 1]
           l == [west EXCEPT !.y = f.y]
           r == [east EXCEPT !.y = f.y]
           h == [m EXCEPT !.y = @ - 1]
           g == [m EXCEPT !.y = @ + 1]
<1>1. /\ m \in ActorType /\ m.w = a.w /\ m.h = a.h /\ m.layer = a.layer
      /\ Fits(a.layer, a.w, a.h, a.x, a.y) => Fits(a.layer, a.w, a.h, m.x, m.y)
      /\ Above(a.layer, a.w, a.h, m.x, m.y, a.y)
      /\ "left" \in m.state => ~Fits(a.layer, a.w, a.h, m.x - 1, a.y)
      /\ "right" \in m.state => ~Fits(a.layer, a.w, a.h, m.x + 1, a.y)
      /\ "head" \in m.state => ~Fits(a.layer, a.w, a.h, m.x, m.y - 1)
      /\ ("ground" \in m.state /\ m.y + m.h >= 0) =>
            \/ ~Fits(a.layer, a.w, a.h, m.x, m.y + 1)
            \/ ~Above(a.layer, a.w, a.h, m.x, m.y + 1, m.y)
  BY MovedActor
<1> HIDE DEF m
<1>2. f.y \in Int /\ m.y \in Int
  BY <1>1 DEF ActorType
<1>3. /\ l \in ActorType /\ l.x = m.x - 1 /\ l.y = f.y /\ l.w = m.w /\ l.h = m.h /\ l.layer = m.layer
      /\ r \in ActorType /\ r.x = m.x + 1 /\ r.y = f.y /\ r.w = m.w /\ r.h = m.h /\ r.layer = m.layer
  <2>1. /\ west \in ActorType /\ west.x = m.x - 1 /\ west.w = m.w /\ west.h = m.h
        /\ west.layer = m.layer
    BY <1>1 DEF ActorType
  <2>2. /\ east \in ActorType /\ east.x = m.x + 1 /\ east.w = m.w /\ east.h = m.h
        /\ east.layer = m.layer
    BY <1>1 DEF ActorType
  <2> HIDE DEF west, east
  <2>3. /\ l \in ActorType /\ l.x = west.x /\ l.y = f.y /\ l.w = west.w /\ l.h = west.h
        /\ l.layer = west.layer
    BY <1>2, <2>1 DEF ActorType
  <2>4. /\ r \in ActorType /\ r.x = east.x /\ r.y = f.y /\ r.w = east.w /\ r.h = east.h
        /\ r.layer = east.layer
    BY <1>2, <2>2 DEF ActorType
  <2>5. QED  BY <2>1, <2>2, <2>3, <2>4
<1>4. /\ h \in ActorType /\ h.x = m.x /\ h.y = m.y - 1 /\ h.w = m.w /\ h.h = m.h /\ h.layer = m.layer
      /\ g \in ActorType /\ g.x = m.x /\ g.y = m.y + 1 /\ g.w = m.w /\ g.h = m.h /\ g.layer = m.layer
  BY <1>1 DEF ActorType
<1> HIDE DEF l, r, h, g
<1>5. /\ Free(f) <=> Fits(a.layer, a.w, a.h, a.x, a.y)
      /\ Free(m) <=> Fits(a.layer, a.w, a.h, m.x, m.y)
      /\ Free(l) <=> Fits(a.layer, a.w, a.h, m.x - 1, a.y)
      /\ Free(r) <=> Fits(a.layer, a.w, a.h, m.x + 1, a.y)
      /\ Free(h) <=> Fits(a.layer, a.w, a.h, m.x, m.y - 1)
      /\ Free(g) <=> Fits(a.layer, a.w, a.h, m.x, m.y + 1)
  <2>1. Free(f) <=> Fits(f.layer, f.w, f.h, f.x, f.y)
    BY FreeFits
  <2>2. Free(m) <=> Fits(m.layer, m.w, m.h, m.x, m.y)
    BY <1>1, FreeFits
  <2>3. Free(l) <=> Fits(l.layer, l.w, l.h, l.x, l.y)
    BY <1>3, FreeFits
  <2>4. Free(r) <=> Fits(r.layer, r.w, r.h, r.x, r.y)
    BY <1>3, FreeFits
  <2>5. Free(h) <=> Fits(h.layer, h.w, h.h, h.x, h.y)
    BY <1>4, FreeFits
  <2>6. Free(g) <=> Fits(g.layer, g.w, g.h, g.x, g.y)
    BY <1>4, FreeFits
  <2>7. QED  BY <1>1, <1>3, <1>4, <2>1, <2>2, <2>3, <2>4, <2>5, <2>6
<1>6. AbovePlatform(m, f.y) <=> Above(a.layer, a.w, a.h, m.x, m.y, a.y)
  BY <1>1, <1>2, AboveAbove
<1>7. AbovePlatform(g, m.y) <=> Above(a.layer, a.w, a.h, m.x, m.y + 1, m.y)
  <2>1. AbovePlatform(g, m.y) <=> Above(g.layer, g.w, g.h, g.x, g.y, m.y)
    BY <1>2, <1>4, AboveAbove
  <2>2. QED  BY <1>1, <1>4, <2>1
<1>8. Collides(f, m)
  BY <1>1, <1>5, <1>6, <1>7 DEF Collides, l, r, west, east, h, g
<1>9. QED  BY <1>1, <1>8 DEF m
-----------------------------------------------------------------------------
(* What a layer shows. *)

(* The first tile drawn and the pixels of it off screen are division and remainder of the origin. *)
LEMMA StartIsFloor ==
    ASSUME NEW o \in Int
    PROVE  Start(o) = o \div T /\ Offset(o) = o % T
<1>0. T \in Nat \ {0}
  BY PlayfieldAssumption
<1> DEFINE q == o \div T
           r == o % T
<1>1. o = T * q + r /\ q \in Int /\ r \in 0 .. T - 1
  BY <1>0, DivMod
<1>2. Start(o) = q
  <2>1. CASE o >= 0
    BY <2>1 DEF Start
  <2>2. CASE o < 0
    <3> DEFINE n == (-o + T) - 1
               k == -q
               e == (T - 1) - r
    <3>1. n = T * k + e /\ n \in Int /\ k \in Int /\ e \in 0 .. T - 1
      <4> HIDE DEF q, r
      <4>1. T * (-q) = -(T * q)
        BY <1>0, <1>1
      <4>2. QED  BY <1>0, <1>1, <4>1
    <3>2. Start(o) = -(n \div T)
      <4>1. -o + T - 1 = n
        BY <1>0
      <4> HIDE DEF n
      <4>2. QED  BY <2>2, <4>1 DEF Start
    <3> HIDE DEF n, k, e
    <3>3. n \div T = k
      BY <1>0, <3>1, DivUnique
    <3>4. Start(o) = -k
      BY <3>2, <3>3
    <3> HIDE DEF q, r
    <3>5. QED  BY <1>1, <3>4 DEF k
  <2>3. QED  BY <2>1, <2>2
<1>3. Offset(o) = r
  <2> HIDE DEF q, r
  <2>1. Offset(o) = o - q * T
    BY <1>2 DEF Offset
  <2>2. q * T = T * q /\ T * q \in Int
    BY <1>0, <1>1
  <2>3. QED  BY <1>1, <2>1, <2>2
<1>4. QED  BY <1>2, <1>3

(* C++'s remainder, made positive, is the one that repeats. *)
LEMMA MapIndexRepeats ==
    ASSUME NEW start \in Int, NEW n \in Int, NEW size \in Nat \ {0}
    PROVE  MapIndex(start, n, size) = (start + n) % size
<1> DEFINE x == start + n
           q == x \div size
           e == x % size
           r == CMod(x, size)
<1>1. x \in Int
  OBVIOUS
<1>2. x = size * q + e /\ q \in Int /\ e \in 0 .. size - 1
  <2> HIDE DEF x
  <2>1. QED  BY <1>1, DivMod
<1>3. MapIndex(start, n, size) = IF r < 0 THEN r + size ELSE r
  BY DEF MapIndex
<1>4. CASE x >= 0
  <2>1. r = e
    BY <1>4 DEF CMod
  <2> HIDE DEF r, e, x
  <2>2. MapIndex(start, n, size) = e
    BY <1>2, <1>3, <2>1
  <2>3. QED  BY <2>2 DEF e, x
<1>5. CASE x < 0
  <2> DEFINE y == -x
             q2 == y \div size
             e2 == y % size
             k == IF e2 = 0 THEN -q2 ELSE -q2 - 1
             f == IF e2 = 0 THEN 0 ELSE size - e2
  <2>1. r = -e2
    BY <1>5 DEF CMod
  <2>2. y \in Int
    BY <1>1
  <2>3. y = size * q2 + e2 /\ q2 \in Int /\ e2 \in 0 .. size - 1
    <3> HIDE DEF y
    <3>1. QED  BY <2>2, DivMod
  <2>4. x = -y
    BY <1>1
  <2> HIDE DEF x, y, q2, e2, r, e
  <2>5. x = size * k + f
    <3>1. size * (-q2) = -(size * q2) /\ size * (-q2 - 1) = -(size * q2) - size
          /\ size * q2 \in Int
      BY <2>3
    <3>2. QED  BY <2>2, <2>3, <2>4, <3>1
  <2>6. k \in Int /\ f \in 0 .. size - 1
    BY <2>3
  <2>7. f = IF r < 0 THEN r + size ELSE r
    BY <2>1, <2>3
  <2> HIDE DEF k, f
  <2>8. x % size = f
    BY <1>1, <2>5, <2>6, DivUnique
  <2>9. QED  BY <1>3, <2>7, <2>8 DEF x
<1>6. QED  BY <1>1, <1>4, <1>5

(* So the tile drawn at a pixel is that of the map repeated. *)
LEMMA MapAtRepeats ==
    ASSUME NEW o \in Int, NEW p \in Nat, NEW size \in Nat \ {0}
    PROVE  /\ MapAt(o, p, size) = ((o + p) \div T) % size
           /\ WithinTile(o, p) = (o + p) % T
           /\ ~(p + Offset(o) < 0)
<1>0. T \in Nat \ {0}
  BY PlayfieldAssumption
<1> DEFINE q == o \div T
           r == o % T
           n == p + r
           k == n \div T
           e == n % T
           x == o + p
           z == q + k
<1>1. o = T * q + r /\ q \in Int /\ r \in 0 .. T - 1
  BY <1>0, DivMod
<1>2. Start(o) = q /\ Offset(o) = r
  BY StartIsFloor
<1> HIDE DEF q, r
<1>3. n \in Nat
  BY <1>0, <1>1
<1>4. n = T * k + e /\ k \in Int /\ e \in 0 .. T - 1
  <2> HIDE DEF n
  <2>1. QED  BY <1>0, <1>3, DivMod
<1>5. p + Offset(o) = n
  BY <1>2
<1>6. x = T * q + n /\ x \in Int /\ n \in Int
  BY <1>0, <1>1
<1> HIDE DEF n, k, e, x
<1>7. T * z = T * q + T * k /\ T * q \in Int /\ T * k \in Int /\ z \in Int
  BY <1>0, <1>1, <1>4
<1> HIDE DEF z
<1>8. x = T * z + e
  BY <1>0, <1>4, <1>6, <1>7
<1>9. x \div T = z /\ x % T = e
  <2>1. x \in Int /\ z \in Int /\ e \in 0 .. T - 1
    BY <1>4, <1>6, <1>7
  <2>2. QED  BY <1>0, <1>8, <2>1, DivUnique
<1>10. MapAt(o, p, size) = z % size
  <2>1. MapAt(o, p, size) = MapIndex(q, k, size)
    BY <1>2, <1>5 DEF MapAt, k
  <2>2. MapIndex(q, k, size) = (q + k) % size
    BY <1>1, <1>4, MapIndexRepeats
  <2>3. QED  BY <2>1, <2>2 DEF z
<1>11. WithinTile(o, p) = e
  BY <1>5 DEF WithinTile, e
<1>12. QED  BY <1>3, <1>5, <1>9, <1>10, <1>11 DEF x

(* A layer drawn over f shows the map repeated for ever, and leaves f where tile 0 is transparent. *)
DrawType ==
    /\ tiles \in [TileIds -> TileType] /\ field \in [Layers -> [MapCells -> TileIds]]
    /\ view \in [Layers -> ViewType] /\ camera \in Place
IdAt(l, p) == field[l][<<((Origin(l, 1) + p[1]) \div T) % MapCols, ((Origin(l, 2) + p[2]) \div T) % MapRows>>]
(* An origin is a number. *)
LEMMA OriginInt ==
    ASSUME DrawType, NEW l \in Layers, NEW a \in {1, 2}
    PROVE  Origin(l, a) \in Int
<1>0. ParallaxUnit \in Nat \ {0}
  BY PlayfieldAssumption
<1>1. view[l].scroll[a] \in Int /\ view[l].parallax[a] \in Int /\ camera[a] \in Int
  BY DEF DrawType, ViewType, Place
<1> DEFINE n == camera[a] * view[l].parallax[a]
<1>2. n \in Int
  BY <1>1
<1> HIDE DEF n
<1>3. CDiv(n, ParallaxUnit) \in Int
  <2>1. n \div ParallaxUnit \in Int
    BY <1>0, <1>2
  <2> DEFINE k == -n
  <2>2. k \in Int
    BY <1>2
  <2> HIDE DEF k
  <2>3. k \div ParallaxUnit \in Int
    BY <1>0, <2>2
  <2>4. QED  BY <2>1, <2>3 DEF CDiv, k
<1>4. QED  BY <1>1, <1>3 DEF Origin, n

(* Pixel by pixel, a layer drawn is its map repeated. *)
LEMMA LayerRepeats ==
    ASSUME DrawType, NEW l \in Layers, NEW t \in BOOLEAN, NEW f \in [Pixels -> Colours]
    PROVE  /\ DrawnLayer(f, l, t) \in [Pixels -> Colours]
           /\ \A p \in Pixels :
                DrawnLayer(f, l, t)[p] =
                  IF t /\ IdAt(l, p) = 0 THEN f[p]
                  ELSE TilePixel(tiles[IdAt(l, p)], <<(Origin(l, 1) + p[1]) % T, (Origin(l, 2) + p[2]) % T>>)
<1>0. /\ T \in Nat \ {0} /\ MapCols \in Nat \ {0} /\ MapRows \in Nat \ {0}
      /\ ScreenCols \in Nat \ {0} /\ ScreenRows \in Nat \ {0}
  BY PlayfieldAssumption
<1> DEFINE ox == Origin(l, 1)
           oy == Origin(l, 2)
           Drawn(p) ==
             IF p[1] + Offset(ox) < 0 \/ p[2] + Offset(oy) < 0
                \/ (t /\ field[l][<<MapAt(ox, p[1], MapCols), MapAt(oy, p[2], MapRows)>>] = 0) THEN f[p]
             ELSE TilePixel(tiles[field[l][<<MapAt(ox, p[1], MapCols), MapAt(oy, p[2], MapRows)>>]],
                            <<WithinTile(ox, p[1]), WithinTile(oy, p[2])>>)
<1>1. ox \in Int /\ oy \in Int
  BY OriginInt
<1>2. DrawnLayer(f, l, t) = [p \in Pixels |-> Drawn(p)]
  BY DEF DrawnLayer
<1> HIDE DEF ox, oy
<1>3. ASSUME NEW p \in Pixels
      PROVE  /\ Drawn(p) = IF t /\ IdAt(l, p) = 0 THEN f[p]
                           ELSE TilePixel(tiles[IdAt(l, p)], <<(ox + p[1]) % T, (oy + p[2]) % T>>)
             /\ Drawn(p) \in Colours
  <2>1. p[1] \in Nat /\ p[2] \in Nat
    <3>1. W \in Nat /\ H \in Nat
      BY <1>0 DEF W, H
    <3>2. QED  BY <3>1 DEF Pixels
  <2>2. /\ MapAt(ox, p[1], MapCols) = ((ox + p[1]) \div T) % MapCols
        /\ WithinTile(ox, p[1]) = (ox + p[1]) % T
        /\ ~(p[1] + Offset(ox) < 0)
    BY <1>0, <1>1, <2>1, MapAtRepeats
  <2>3. /\ MapAt(oy, p[2], MapRows) = ((oy + p[2]) \div T) % MapRows
        /\ WithinTile(oy, p[2]) = (oy + p[2]) % T
        /\ ~(p[2] + Offset(oy) < 0)
    BY <1>0, <1>1, <2>1, MapAtRepeats
  <2> DEFINE i == ((ox + p[1]) \div T) % MapCols
             j == ((oy + p[2]) \div T) % MapRows
             id == field[l][<<i, j>>]
             q == <<(ox + p[1]) % T, (oy + p[2]) % T>>
  <2>4. IdAt(l, p) = id
    BY DEF IdAt, ox, oy
  <2>5. i \in 0 .. MapCols - 1 /\ j \in 0 .. MapRows - 1
    <3> DEFINE u == (ox + p[1]) \div T
               v == (oy + p[2]) \div T
    <3>1. ox + p[1] \in Int /\ oy + p[2] \in Int
      BY <1>1, <2>1
    <3>2. u \in Int /\ v \in Int
      BY <1>0, <3>1
    <3> HIDE DEF u, v
    <3>3. u % MapCols \in 0 .. MapCols - 1 /\ v % MapRows \in 0 .. MapRows - 1
      BY <1>0, <3>2
    <3>4. QED  BY <3>3 DEF u, v
  <2>6. Drawn(p) = IF t /\ id = 0 THEN f[p] ELSE TilePixel(tiles[id], q)
    <3> HIDE DEF i, j
    <3>1. MapAt(ox, p[1], MapCols) = i /\ MapAt(oy, p[2], MapRows) = j
      BY <2>2, <2>3 DEF i, j
    <3>2. QED  BY <2>2, <2>3, <3>1
  <2> HIDE DEF i, j, q
  <2>7. <<i, j>> \in MapCells
    BY <2>5 DEF MapCells
  <2>8. id \in TileIds
    BY <2>7 DEF DrawType
  <2> HIDE DEF id, Drawn
  <2>9. tiles[id] \in TileType
    BY <2>8 DEF DrawType
  <2>10. TilePixel(tiles[id], q) \in Colours
    BY <2>9 DEF TilePixel, TileType
  <2>11. Drawn(p) \in Colours
    BY <2>6, <2>10
  <2>12. QED  BY <2>4, <2>6, <2>11 DEF q
<1> HIDE DEF Drawn
<1>4. DrawnLayer(f, l, t) \in [Pixels -> Colours]
  BY <1>2, <1>3
<1>5. QED  BY <1>2, <1>3, <1>4 DEF ox, oy
-----------------------------------------------------------------------------
(* What the calls keep. *)

(* The tile calls leave the playfield alone. *)
LEMMA TileCallKeeps ==
    ASSUME TileTypeOK, FieldTypeOK, TileCall
    PROVE  FieldTypeOK' /\ last'.op = "none"
<1>1. CASE UNCHANGED <<fb, fieldVars, camera, flags, actor>> /\ last' = [op |-> "none"]
  BY <1>1 DEF FieldTypeOK, fieldVars
<1>2. ASSUME NEW g \in [Pixels -> Colours], fb' = g,
             UNCHANGED <<fieldVars, camera, flags, actor>>, last' = [op |-> "none"]
      PROVE  FieldTypeOK' /\ last'.op = "none"
  BY <1>2 DEF FieldTypeOK, fieldVars
<1>3. CASE \E c \in Colours : TileClear(c)
  BY <1>1, <1>3 DEF TileClear
<1>4. CASE \E id \in TileIds, t \in TileDefs : TileDefine(id, t)
  BY <1>1, <1>4 DEF TileDefine
<1>5. CASE \E k \in Cells, id \in TileIds : TilePut(k, id)
  BY <1>1, <1>5 DEF TilePut
<1>6. CASE TilePresent
  <2> DEFINE New(p) == IF <<p[1] \div T, p[2] \div T>> \in dirty
                       THEN TilePixel(tiles[screen[<<p[1] \div T, p[2] \div T>>]], <<p[1] % T, p[2] % T>>)
                       ELSE fb[p]
             g == [p \in Pixels |-> New(p)]
  <2>1. fb' = g /\ UNCHANGED <<fieldVars, camera, flags, actor>> /\ last' = [op |-> "none"]
    BY <1>6 DEF TilePresent
  <2>2. ASSUME NEW p \in Pixels
        PROVE  New(p) \in Colours
    <3> DEFINE k == <<p[1] \div T, p[2] \div T>>
               q == <<p[1] % T, p[2] % T>>
    <3>1. New(p) = IF k \in dirty THEN TilePixel(tiles[screen[k]], q) ELSE fb[p]
      OBVIOUS
    <3> HIDE DEF k, q, New
    <3>2. k \in dirty => tiles[screen[k]] \in TileType
      BY DEF TileTypeOK
    <3>3. k \in dirty => TilePixel(tiles[screen[k]], q) \in Colours
      BY <3>2 DEF TileType, TilePixel
    <3>4. fb[p] \in Colours
      BY DEF FieldTypeOK
    <3>5. QED  BY <3>1, <3>3, <3>4
  <2> HIDE DEF New
  <2>3. g \in [Pixels -> Colours]
    BY <2>2
  <2>4. QED  BY <1>2, <2>1, <2>3
<1>7. ASSUME NEW r \in Rects, NEW c \in Colours, DrawRect(r[1], r[2], r[3], r[4], c)
      PROVE  FieldTypeOK' /\ last'.op = "none"
  <2> DEFINE g == IF r[3] <= 0 \/ r[4] <= 0 THEN fb ELSE Rect(fb, r[1], r[2], r[3], r[4], c)
  <2>1. fb' = g /\ UNCHANGED <<fieldVars, camera, flags, actor>> /\ last' = [op |-> "none"]
    BY <1>7 DEF DrawRect
  <2>2. g \in [Pixels -> Colours]
    BY DEF Rect, FieldTypeOK
  <2> HIDE DEF g
  <2>3. QED  BY <1>2, <2>1, <2>2
<1>8. QED  BY <1>3, <1>4, <1>5, <1>6, <1>7 DEF TileCall

(* What drawing needs of the types. *)
LEMMA DrawTypes == TileTypeOK /\ FieldTypeOK => DrawType
BY DEF TileTypeOK, FieldTypeOK, DrawType

(* The layers, their maps and views; drawing one shows the map repeated. *)
LEMMA FieldCallKeeps ==
    ASSUME TileTypeOK, FieldTypeOK, FieldCall
    PROVE  FieldTypeOK' /\ PlayfieldRepeats' /\ last'.op \in {"none", "draw"}
<1>1. last'.op = "none" => PlayfieldRepeats'
  BY DEF PlayfieldRepeats
<1>2. ASSUME NEW v \in [Layers -> ViewType], view' = v,
             UNCHANGED <<fb, field, ready, camera, flags, actor>>, last' = [op |-> "none"]
      PROVE  FieldTypeOK' /\ last'.op = "none"
  BY <1>2 DEF FieldTypeOK
<1>3. ASSUME NEW l \in Layers, NEW id \in TileIds, PlayfieldClear(l, id)
      PROVE  FieldTypeOK' /\ last'.op = "none"
  <2> DEFINE f == [field EXCEPT ![l] = [k \in MapCells |-> id]]
             w == [scroll |-> <<0, 0>>, parallax |-> <<ParallaxUnit, ParallaxUnit>>]
             v == [view EXCEPT ![l] = w]
  <2>1. f \in [Layers -> [MapCells -> TileIds]]
    BY DEF FieldTypeOK
  <2>2. w \in ViewType
    BY PlayfieldAssumption DEF ViewType, Place
  <2>3. field' = f /\ ready' = TRUE /\ view' = v /\ UNCHANGED <<fb, camera, flags, actor>>
        /\ last' = [op |-> "none"]
    BY <1>3 DEF PlayfieldClear
  <2> HIDE DEF f, w
  <2>4. v \in [Layers -> ViewType]
    BY <2>2 DEF FieldTypeOK
  <2> HIDE DEF v
  <2>5. QED  BY <2>1, <2>3, <2>4 DEF FieldTypeOK
<1>4. ASSUME NEW l \in Layers, NEW k \in Puts, NEW id \in TileIds, PlayfieldPut(l, k, id)
      PROVE  FieldTypeOK' /\ last'.op = "none"
  <2> DEFINE f == [field EXCEPT ![l][k] = id]
  <2>1. f \in [Layers -> [MapCells -> TileIds]]
    BY PlayfieldAssumption DEF FieldTypeOK
  <2>2. field' = f /\ ready' = TRUE /\ UNCHANGED <<fb, view, camera, flags, actor>>
        /\ last' = [op |-> "none"]
    BY <1>4 DEF PlayfieldPut
  <2> HIDE DEF f
  <2>3. QED  BY <2>1, <2>2 DEF FieldTypeOK
<1>5. ASSUME NEW l \in Layers, NEW s \in Scrolls, SetScroll(l, s) \/ ScrollBy(l, s) \/ SetParallax(l, s)
      PROVE  FieldTypeOK' /\ last'.op = "none"
  <2>1. s \in Place /\ s[1] \in Int /\ s[2] \in Int
    BY PlayfieldAssumption DEF Place
  <2>2. view[l] \in ViewType /\ view[l].scroll[1] \in Int /\ view[l].scroll[2] \in Int
    BY DEF FieldTypeOK, ViewType, Place
  <2> DEFINE u == <<view[l].scroll[1] + s[1], view[l].scroll[2] + s[2]>>
  <2>3. u \in Place
    BY <2>1, <2>2 DEF Place
  <2>4. \A w \in Place : /\ [view EXCEPT ![l].scroll = w] \in [Layers -> ViewType]
                         /\ [view EXCEPT ![l].parallax = w] \in [Layers -> ViewType]
    <3> HIDE DEF u
    <3>1. QED  BY <2>2 DEF FieldTypeOK, ViewType
  <2>5. CASE SetScroll(l, s)
    BY <1>2, <2>1, <2>4, <2>5 DEF SetScroll
  <2>6. CASE ScrollBy(l, s)
    <3>1. view' = [view EXCEPT ![l].scroll = u]
          /\ UNCHANGED <<fb, field, ready, camera, flags, actor>> /\ last' = [op |-> "none"]
      BY <2>6 DEF ScrollBy
    <3> HIDE DEF u
    <3>2. QED  BY <1>2, <2>3, <2>4, <3>1
  <2>7. CASE SetParallax(l, s)
    BY <1>2, <2>1, <2>4, <2>7 DEF SetParallax
  <2>8. QED  BY <1>5, <2>5, <2>6, <2>7
<1>6. CASE \E s \in Scrolls : SetCamera(s)
  <2>1. PICK s \in Scrolls : SetCamera(s)
    BY <1>6
  <2>2. s \in Place
    BY PlayfieldAssumption
  <2>3. camera' = s /\ last' = [op |-> "none"] /\ UNCHANGED <<fb, field, ready, view, flags, actor>>
    BY <2>1 DEF SetCamera, fieldVars
  <2>4. FieldTypeOK' /\ last'.op = "none"
    BY <2>2, <2>3 DEF FieldTypeOK
  <2>5. QED  BY <1>1, <2>4
<1>7. ASSUME NEW l \in Layers, NEW t \in BOOLEAN, PlayfieldDraw(l, t)
      PROVE  FieldTypeOK' /\ PlayfieldRepeats' /\ last'.op = "draw"
  <2> DEFINE g == DrawnLayer(fb, l, t)
  <2>1. /\ fb' = IF ready THEN g ELSE fb
        /\ last' = [op |-> "draw", layer |-> l, transparent |-> t, fb |-> fb]
        /\ UNCHANGED <<tiles, field, ready, view, camera, flags, actor>>
    BY <1>7 DEF PlayfieldDraw, tileVars, fieldVars
  <2>2. fb \in [Pixels -> Colours] /\ DrawType
    BY DrawTypes DEF FieldTypeOK
  <2>3. /\ g \in [Pixels -> Colours]
        /\ \A p \in Pixels :
             g[p] = IF t /\ IdAt(l, p) = 0 THEN fb[p]
                    ELSE TilePixel(tiles[IdAt(l, p)], <<(Origin(l, 1) + p[1]) % T, (Origin(l, 2) + p[2]) % T>>)
    BY <2>2, LayerRepeats
  <2> HIDE DEF g
  <2>4. FieldTypeOK'
    BY <2>1, <2>2, <2>3 DEF FieldTypeOK
  <2>5. ASSUME ready', NEW p \in Pixels
        PROVE  LET x == Origin(last.layer, 1)' + p[1]
                   y == Origin(last.layer, 2)' + p[2]
                   id == field'[last'.layer][<<(x \div T) % MapCols, (y \div T) % MapRows>>]
               IN  fb'[p] = IF last'.transparent /\ id = 0 THEN last'.fb[p]
                            ELSE TilePixel(tiles'[id], <<x % T, y % T>>)
    <3>1. /\ Origin(last.layer, 1)' = Origin(l, 1) /\ Origin(last.layer, 2)' = Origin(l, 2)
          /\ field'[last'.layer] = field[l] /\ last'.transparent = t /\ last'.fb = fb /\ tiles' = tiles
          /\ fb'[p] = g[p]
      BY <2>1, <2>5 DEF Origin
    <3>2. QED  BY <2>3, <3>1 DEF IdAt
  <2>6. PlayfieldRepeats'
    BY <2>5 DEF PlayfieldRepeats
  <2>7. QED  BY <2>1, <2>4, <2>6
<1>8. CASE PlayfieldDrawBoth
  <2> DEFINE g == DrawnLayer(fb, 0, FALSE)
             h == DrawnLayer(g, 1, TRUE)
  <2>1. fb' = h /\ last' = [op |-> "none"] /\ UNCHANGED <<field, ready, view, camera, flags, actor>>
    BY <1>8 DEF PlayfieldDrawBoth, fieldVars
  <2>2. fb \in [Pixels -> Colours] /\ DrawType /\ 0 \in Layers /\ 1 \in Layers
    BY DrawTypes DEF FieldTypeOK, Layers
  <2>3. g \in [Pixels -> Colours]
    BY <2>2, LayerRepeats
  <2> HIDE DEF g
  <2>4. h \in [Pixels -> Colours]
    BY <2>2, <2>3, LayerRepeats
  <2> HIDE DEF h
  <2>5. QED  BY <1>1, <2>1, <2>4 DEF FieldTypeOK
<1>9. QED  BY <1>1, <1>3, <1>4, <1>5, <1>6, <1>7, <1>8 DEF FieldCall

(* The actor's moves and the camera that follows it. *)
LEMMA MoveKeeps ==
    ASSUME FieldTypeOK, NEW a \in ActorType, NEW dx \in Int, NEW dy \in Int,
           a.x = actor.x, a.y = actor.y, a.w = actor.w, a.h = actor.h, a.layer = actor.layer,
           Remember(Moved(a, dx, dy))
    PROVE  FieldTypeOK' /\ StaysOutOfSolids' /\ LandsOnPlatforms' /\ last'.op = "move"
<1> DEFINE m == Moved(a, dx, dy)
<1>1. actor \in ActorType
  BY DEF FieldTypeOK
<1>2. m \in ActorType /\ Collides(actor, m)
  BY <1>1, MoveCollides
<1>3. /\ actor' = m /\ last' = [op |-> "move", from |-> actor]
      /\ UNCHANGED <<fb, field, ready, view, camera, flags>>
  BY DEF Remember, fieldVars
<1> HIDE DEF m
<1>4. FieldTypeOK'
  BY <1>2, <1>3 DEF FieldTypeOK
<1>5. Collides(last.from, actor)'
  <2>1. last'.from = actor
    BY <1>3
  <2>2. QED  BY <1>2, <1>3, <2>1 DEF Collides, Free, AbovePlatform, Box, FlagsAt, TileAt
<1>6. StaysOutOfSolids' /\ LandsOnPlatforms'
  BY <1>5 DEF Collides, StaysOutOfSolids, LandsOnPlatforms
<1>7. QED  BY <1>3, <1>4, <1>6

(* The calls on scrolls, actors and the camera. *)
LEMMA ActorCallKeeps ==
    ASSUME FieldTypeOK, ActorCall
    PROVE  /\ FieldTypeOK' /\ StaysOutOfSolids' /\ LandsOnPlatforms' /\ CameraShowsActor'
           /\ last'.op # "draw"
<1>1. last'.op \in {"none", "follow"} => StaysOutOfSolids' /\ LandsOnPlatforms'
  BY DEF StaysOutOfSolids, LandsOnPlatforms
<1>2. last'.op \in {"none", "move"} => CameraShowsActor'
  BY DEF CameraShowsActor
<1>3. actor \in ActorType
  BY DEF FieldTypeOK
<1>4. CASE \E id \in TileIds, f \in FlagSets : SetTileFlags(id, f)
  <2>1. FieldTypeOK' /\ last'.op = "none"
    BY <1>4, PlayfieldAssumption DEF SetTileFlags, FieldTypeOK, fieldVars
  <2>2. QED  BY <1>1, <1>2, <2>1
<1>5. CASE \E level \in Levels : ActorInit([level.actor EXCEPT !.state = {}, !.vx = 0, !.vy = 0])
  <2>1. PICK level \in Levels : ActorInit([level.actor EXCEPT !.state = {}, !.vx = 0, !.vy = 0])
    BY <1>5
  <2> DEFINE a == level.actor
             b == [a EXCEPT !.state = {}]
             c == [b EXCEPT !.vx = 0]
             d == [c EXCEPT !.vy = 0]
  <2>2. a \in ActorType
    BY PlayfieldAssumption
  <2> HIDE DEF a
  <2>3. b \in ActorType
    BY <2>2 DEF ActorType
  <2> HIDE DEF b
  <2>4. c \in ActorType
    BY <2>3 DEF ActorType
  <2> HIDE DEF c
  <2>5. d \in ActorType
    BY <2>4 DEF ActorType
  <2>6. actor' = d /\ last' = [op |-> "none"] /\ UNCHANGED <<fb, field, ready, view, camera, flags>>
    BY <2>1 DEF ActorInit, fieldVars, a, b, c
  <2> HIDE DEF d
  <2>7. QED  BY <1>1, <1>2, <2>5, <2>6 DEF FieldTypeOK
<1>6. CASE \E dx, dy \in Moves : ActorMove(dx, dy)
  <2>1. PICK dx, dy \in Moves : ActorMove(dx, dy)
    BY <1>6
  <2>2. dx \in Int /\ dy \in Int
    BY PlayfieldAssumption
  <2>3. FieldTypeOK' /\ StaysOutOfSolids' /\ LandsOnPlatforms' /\ last'.op = "move"
    BY <1>3, <2>1, <2>2, MoveKeeps DEF ActorMove
  <2>4. QED  BY <1>2, <2>3
<1>7. ASSUME NEW dir \in {-1, 0, 1}, NEW jumps \in BOOLEAN, NEW p \in Steps,
             ActorStep(dir, jumps, p.move, p.jump, p.gravity, p.maxFall)
      PROVE  FieldTypeOK' /\ StaysOutOfSolids' /\ LandsOnPlatforms' /\ CameraShowsActor' /\ last'.op # "draw"
  <2> DEFINE vx == dir * p.move
             up == IF jumps /\ "ground" \in actor.state THEN p.jump ELSE actor.vy
             fall == IF p.maxFall < 0 THEN -p.maxFall ELSE p.maxFall
             vy == Clamp(up + p.gravity, -fall, fall)
             b == [actor EXCEPT !.vx = vx]
             c == [b EXCEPT !.vy = vy]
             a == [c EXCEPT !.state = {}]
  <2>1. p.move \in Int /\ p.jump \in Int /\ p.gravity \in Int /\ p.maxFall \in Int
    BY PlayfieldAssumption
  <2>2. vx \in Int
    BY <2>1
  <2>3. up \in Int /\ fall \in Int
    BY <1>3, <2>1 DEF ActorType
  <2>4. vy \in Int
    <3> HIDE DEF up, fall
    <3>1. QED  BY <2>1, <2>3 DEF Clamp
  <2>5. Remember(Moved(a, a.vx, a.vy))
    BY <1>7 DEF ActorStep
  <2> HIDE DEF vx, vy
  <2>6. b \in ActorType /\ b.x = actor.x /\ b.y = actor.y /\ b.w = actor.w /\ b.h = actor.h
        /\ b.layer = actor.layer /\ b.vx = vx
    BY <1>3, <2>2 DEF ActorType
  <2> HIDE DEF b
  <2>7. c \in ActorType /\ c.x = b.x /\ c.y = b.y /\ c.w = b.w /\ c.h = b.h
        /\ c.layer = b.layer /\ c.vx = b.vx /\ c.vy = vy
    BY <2>4, <2>6 DEF ActorType
  <2> HIDE DEF c
  <2>8. a \in ActorType /\ a.x = c.x /\ a.y = c.y /\ a.w = c.w /\ a.h = c.h
        /\ a.layer = c.layer /\ a.vx = c.vx /\ a.vy = c.vy
    BY <2>7 DEF ActorType
  <2> HIDE DEF a
  <2>9. a.vx \in Int /\ a.vy \in Int
    BY <2>2, <2>4, <2>6, <2>7, <2>8
  <2>10. FieldTypeOK' /\ StaysOutOfSolids' /\ LandsOnPlatforms' /\ last'.op = "move"
    BY <2>5, <2>6, <2>7, <2>8, <2>9, MoveKeeps
  <2>11. QED  BY <1>2, <2>10
<1>8. ASSUME NEW dzx \in DeadZones, NEW dzy \in DeadZones, CameraFollow(dzx, dzy)
      PROVE  FieldTypeOK' /\ StaysOutOfSolids' /\ LandsOnPlatforms' /\ CameraShowsActor' /\ last'.op # "draw"
  <2> DEFINE fx == Followed(actor.x, actor.w, camera[1], dzx, W, MapCols * T)
             fy == Followed(actor.y, actor.h, camera[2], dzy, H, MapRows * T)
  <2>1. /\ camera' = <<fx, fy>> /\ last' = [op |-> "follow", dead |-> <<dzx, dzy>>]
        /\ UNCHANGED <<fb, field, ready, view, flags, actor>>
    BY <1>8 DEF CameraFollow, fieldVars
  <2>2. dzx \in Int /\ dzy \in Int /\ camera[1] \in Int /\ camera[2] \in Int
    BY PlayfieldAssumption DEF FieldTypeOK, Place
  <2>3. actor.x \in Int /\ actor.y \in Int /\ actor.w \in Int /\ actor.h \in Int
    BY <1>3 DEF ActorType
  <2>4. W \in Nat /\ W <= MapCols * T /\ MapCols * T \in Nat
        /\ H \in Nat /\ H <= MapRows * T /\ MapRows * T \in Nat
    BY PlayfieldAssumption DEF W, H
  <2>5. Between(actor.x, actor.w, fx, dzx, W, MapCols * T)
    BY <2>2, <2>3, <2>4, FollowedShowsActor
  <2>6. Between(actor.y, actor.h, fy, dzy, H, MapRows * T)
    BY <2>2, <2>3, <2>4, FollowedShowsActor
  <2> HIDE DEF fx, fy
  <2>7. fx \in Int /\ fy \in Int
    BY <2>4, <2>5, <2>6 DEF Between
  <2>8. FieldTypeOK'
    BY <2>1, <2>7 DEF FieldTypeOK, Place
  <2>9. CameraShowsActor'
    <3>1. camera'[1] = fx /\ camera'[2] = fy /\ last'.dead[1] = dzx /\ last'.dead[2] = dzy /\ actor' = actor
      BY <2>1
    <3>2. QED  BY <2>5, <2>6, <3>1 DEF CameraShowsActor
  <2>10. QED  BY <1>1, <2>1, <2>8, <2>9
<1>9. QED  BY <1>4, <1>5, <1>6, <1>7, <1>8 DEF ActorCall
(* What the playfield's calls leave, inductively: types, and what the last call promised. *)
FieldInv ==
    /\ TileTypeOK /\ CleanPixels /\ FieldTypeOK
    /\ PlayfieldRepeats /\ StaysOutOfSolids /\ LandsOnPlatforms /\ CameraShowsActor
(* A level that has been set up. *)
LEMMA FieldInit == Init => FieldInv
<1> SUFFICES ASSUME Init
             PROVE  FieldInv
  OBVIOUS
<1>1. TileTypeOK /\ CleanPixels
  BY TileInit
<1>2. PICK level \in Levels :
         /\ field = [l \in Layers |-> IF l = 0 THEN level.map ELSE [k \in MapCells |-> 0]]
         /\ view = [l \in Layers |-> level.view] /\ camera = level.camera
         /\ flags = level.flags /\ actor = level.actor
  BY DEF Init
<1>3. /\ level.map \in [MapCells -> TileIds] /\ level.flags \in [TileIds -> SUBSET Flags]
      /\ level.view \in ViewType /\ level.camera \in Place /\ level.actor \in ActorType
  BY PlayfieldAssumption
<1>4. field \in [Layers -> [MapCells -> TileIds]]
  <2>1. [k \in MapCells |-> 0] \in [MapCells -> TileIds]
    BY PlayfieldAssumption
  <2>2. QED  BY <1>2, <1>3, <2>1
<1>5. fb \in [Pixels -> Colours] /\ ready \in BOOLEAN /\ last.op = "none"
  BY PlayfieldAssumption DEF Init
<1>6. FieldTypeOK
  BY <1>2, <1>3, <1>4, <1>5 DEF FieldTypeOK
<1>7. QED
  BY <1>1, <1>5, <1>6 DEF FieldInv, PlayfieldRepeats, StaysOutOfSolids, LandsOnPlatforms, CameraShowsActor

(* Every call keeps it. *)
LEMMA FieldKept == FieldInv /\ [Next]_vars => FieldInv'
<1> SUFFICES ASSUME FieldInv, [Next]_vars
             PROVE  FieldInv'
  OBVIOUS
<1>1. TileTypeOK' /\ CleanPixels'
  BY TileStep, FieldStep DEF FieldInv, Next
<1>2. TileTypeOK /\ FieldTypeOK
  BY DEF FieldInv
<1>3. CASE TileCall
  <2>1. FieldTypeOK' /\ last'.op = "none"
    BY <1>2, <1>3, TileCallKeeps
  <2>2. QED
    BY <1>1, <2>1 DEF FieldInv, PlayfieldRepeats, StaysOutOfSolids, LandsOnPlatforms, CameraShowsActor
<1>4. CASE FieldCall
  <2>1. FieldTypeOK' /\ PlayfieldRepeats' /\ last'.op \in {"none", "draw"}
    BY <1>2, <1>4, FieldCallKeeps
  <2>2. QED
    BY <1>1, <2>1 DEF FieldInv, StaysOutOfSolids, LandsOnPlatforms, CameraShowsActor
<1>5. CASE ActorCall
  <2>1. /\ FieldTypeOK' /\ StaysOutOfSolids' /\ LandsOnPlatforms' /\ CameraShowsActor'
        /\ last'.op # "draw"
    BY <1>2, <1>5, ActorCallKeeps
  <2>2. QED  BY <1>1, <2>1 DEF FieldInv, PlayfieldRepeats
<1>6. CASE UNCHANGED vars
  <2>1. UNCHANGED <<tiles, fb, field, ready, view, camera, flags, actor, last>>
    BY <1>6 DEF vars, tileVars, fieldVars
  <2>2. FieldTypeOK'
    BY <1>2, <2>1 DEF FieldTypeOK
  <2>3. StaysOutOfSolids' /\ LandsOnPlatforms'
    <3>1. StaysOutOfSolids /\ LandsOnPlatforms
      BY DEF FieldInv
    <3>2. QED
      BY <2>1, <3>1 DEF StaysOutOfSolids, LandsOnPlatforms, Free, AbovePlatform, Box, FlagsAt, TileAt
  <2>4. CameraShowsActor'
    BY <2>1 DEF FieldInv, CameraShowsActor
  <2>5. PlayfieldRepeats'
    BY <2>1 DEF FieldInv, PlayfieldRepeats, Origin
  <2>6. QED  BY <1>1, <2>2, <2>3, <2>4, <2>5 DEF FieldInv
<1>7. QED  BY <1>3, <1>4, <1>5, <1>6 DEF Next

(* A drawn layer shows the map as if it repeated for ever, for origins on    *)
(* either side of zero, however the layer is scrolled and the camera moved.  *)
THEOREM LayersRepeat == Spec => []PlayfieldRepeats
<1>1. FieldInv => PlayfieldRepeats
  BY DEF FieldInv
<1>2. QED  BY <1>1, FieldInit, FieldKept, PTL DEF Spec

(* However large an actor and its moves, and whatever the map: it enters no  *)
(* solid tile, passes no platform on its way down, and is stopped only by    *)
(* what is there.                                                            *)
THEOREM ActorsAreStopped == Spec => []ActorsCollide
<1>1. FieldInv => ActorsCollide
  BY DEF FieldInv, ActorsCollide
<1>2. QED  BY <1>1, FieldInit, FieldKept, PTL DEF Spec

(* A camera that follows shows the map only and its actor between the dead   *)
(* zones, wherever moves and scrolls have left both.                         *)
THEOREM CameraFollows == Spec => []CameraShowsActor
<1>1. FieldInv => CameraShowsActor
  BY DEF FieldInv
<1>2. QED  BY <1>1, FieldInit, FieldKept, PTL DEF Spec
=============================================================================
