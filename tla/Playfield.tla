----------------------------- MODULE Playfield -----------------------------
(***************************************************************************)
(* The tile screen, the scrolling playfield, its actors and its camera     *)
(* (ABI calls #80-#103 of Runtime.cpp), over the framebuffer they draw in. *)
(*                                                                         *)
(* A colour stands for its palette entry: the palette does not change      *)
(* here.  An actor is the record in guest memory that the calls load and   *)
(* store back; there is one.  Arguments out of the 8-bit or 16-bit range   *)
(* of their fields are left out.                                           *)
(***************************************************************************)
EXTENDS Integers

CONSTANTS
    T,                       \* pixels of a tile's side (8)
    ScreenCols, ScreenRows,  \* tiles of the tile screen (40, 25), which fills the framebuffer
    MapCols, MapRows,        \* tiles of a playfield layer (64, 32)
    ParallaxUnit,            \* parallax of a layer that moves with the camera (256)
    TileIds,                 \* tile ids (0..255)
    Colours,                 \* colours a cartridge draws with; 0 is black
    TileDefs,                \* tiles a cartridge defines: [bits (a set of pixels), fg, bg]
    Rects,                   \* rectangles a cartridge draws: <<x, y, w, h>>
    FlagSets,                \* flags a cartridge gives a tile
    Puts,                    \* map cells a cartridge changes as it plays
    Scrolls,                 \* scroll and camera positions and parallaxes a cartridge sets
    Moves,                   \* distances an actor is moved by in a direction
    Steps,                   \* [move, jump, gravity, maxFall] of actor_step
    DeadZones,               \* dead zones the camera follows with
    Levels,                  \* what a cartridge has set up when it starts to play:
                             \* [map, flags, view, camera, actor]
    MaxCalls                 \* bound: calls since, a playfield or actor call counting as two

W == ScreenCols * T
H == ScreenRows * T
Pixels == (0 .. W - 1) \X (0 .. H - 1)
Cells == (0 .. ScreenCols - 1) \X (0 .. ScreenRows - 1)
MapCells == (0 .. MapCols - 1) \X (0 .. MapRows - 1)
InTile == (0 .. T - 1) \X (0 .. T - 1)
Layers == {0, 1}
Flags == {"solid", "platform", "hazard", "collect"}
Place == Int \X Int
TileType == [bits : SUBSET InTile, fg : Colours, bg : Colours]
ViewType == [scroll : Place, parallax : Place]
\* An actor has at least one pixel: actor_init makes a smaller one of size 1.
ActorType == [x : Int, y : Int, vx : Int, vy : Int, w : Nat \ {0}, h : Nat \ {0}, layer : Layers,
              state : SUBSET {"hazard", "collect", "left", "right", "head", "ground"}]

ASSUME PlayfieldAssumption ==
    /\ {T, ScreenCols, ScreenRows, MapCols, MapRows, ParallaxUnit} \subseteq Nat \ {0}
    /\ MapCols >= ScreenCols /\ MapRows >= ScreenRows
    /\ 0 \in TileIds /\ 0 \in Colours
    /\ TileDefs \subseteq TileType /\ FlagSets \subseteq SUBSET Flags
    /\ Levels \subseteq [map : [MapCells -> TileIds], flags : [TileIds -> SUBSET Flags],
                         view : ViewType, camera : Place, actor : ActorType]
    /\ Puts \subseteq MapCells /\ Scrolls \subseteq Place
    /\ Moves \subseteq Int /\ DeadZones \subseteq Int
    /\ Steps \subseteq [move : Int, jump : Int, gravity : Int, maxFall : Int]

VARIABLES
    tiles,     \* tiles_: [TileIds -> [bits, fg, bg]]
    screen,    \* tileScreen_
    dirty,     \* tileDirty_: the cells that are dirty
    fb,        \* the framebuffer's pixels
    field,     \* playfield_: [Layers -> maps]
    ready,     \* playfieldReady_
    view,      \* scroll and parallax of each layer
    camera,    \* cameraX_, cameraY_
    flags,     \* tileFlags_
    actor,     \* the actor in guest memory
    calls,     \* calls made
    covered,   \* history: cells another call drew in since tile_present last painted them
    last       \* history: the last call that moved, followed or drew, and what it started from

tileVars == <<tiles, screen, dirty>>
fieldVars == <<field, ready, view>>
vars == <<tileVars, fb, fieldVars, camera, flags, actor, calls, covered, last>>

----------------------------------------------------------------------------
(* Drawing *)

NoTile == [bits |-> {}, fg |-> 0, bg |-> 0]

\* Framebuffer::rect, clipped to the framebuffer.
Rect(f, x, y, w, h, c) ==
    [p \in Pixels |-> IF p[1] \in x .. x + w - 1 /\ p[2] \in y .. y + h - 1 THEN c ELSE f[p]]

\* drawTile: a pixel of a tile is its background unless its bit is set.
TilePixel(t, q) == IF t.fg # t.bg /\ q \in t.bits THEN t.fg ELSE t.bg

\* Cells of the tile screen a set of pixels lies in.
CellsOf(ps) == {<<p[1] \div T, p[2] \div T>> : p \in ps}

\* Mutant: the cells that show tile 0 already are left clean.
TileClearChanged(c) ==
    /\ screen' = [k \in Cells |-> 0]
    /\ dirty' = dirty \cup {k \in Cells : screen[k] # 0}
    /\ tiles' = [tiles EXCEPT ![0] = [bits |-> {}, fg |-> c, bg |-> c]]
    /\ last' = [op |-> "none"]
    /\ UNCHANGED <<fb, fieldVars, camera, flags, actor, covered>>

\* ABI #80: every cell is tile 0, a block of colour c, and is painted at the next tile_present.
TileClear(c) ==
    /\ screen' = [k \in Cells |-> 0]
    /\ dirty' = Cells
    /\ tiles' = [tiles EXCEPT ![0] = [bits |-> {}, fg |-> c, bg |-> c]]
    /\ last' = [op |-> "none"]
    /\ UNCHANGED <<fb, fieldVars, camera, flags, actor, covered>>

\* ABI #81: the cells that show the tile are dirty.
TileDefine(id, t) ==
    /\ tiles' = [tiles EXCEPT ![id] = t]
    /\ dirty' = dirty \cup {k \in Cells : screen[k] = id}
    /\ last' = [op |-> "none"]
    /\ UNCHANGED <<screen, fb, fieldVars, camera, flags, actor, covered>>

\* ABI #82: a cell that changes is dirty; one outside the screen is ignored.
TilePut(k, id) ==
    /\ k \in Cells /\ screen[k] # id
    /\ screen' = [screen EXCEPT ![k] = id] /\ dirty' = dirty \cup {k}
    /\ last' = [op |-> "none"]
    /\ UNCHANGED <<tiles, fb, fieldVars, camera, flags, actor, covered>>

\* ABI #83: the dirty cells are painted.
TilePresent ==
    /\ fb' = [p \in Pixels |->
                LET k == <<p[1] \div T, p[2] \div T>>
                IN  IF k \in dirty THEN TilePixel(tiles[screen[k]], <<p[1] % T, p[2] % T>>) ELSE fb[p]]
    /\ dirty' = {} /\ covered' = covered \ dirty
    /\ last' = [op |-> "none"]
    /\ UNCHANGED <<tiles, screen, fieldVars, camera, flags, actor>>

\* ABI #56, and #51 as the rectangle of the whole framebuffer: drawing over the tiles.
DrawRect(x, y, w, h, c) ==
    /\ fb' = IF w <= 0 \/ h <= 0 THEN fb ELSE Rect(fb, x, y, w, h, c)
    /\ covered' = covered \cup CellsOf({p \in Pixels : p[1] \in x .. x + w - 1
                                                      /\ p[2] \in y .. y + h - 1})
    /\ last' = [op |-> "none"]
    /\ UNCHANGED <<tileVars, fieldVars, camera, flags, actor>>

----------------------------------------------------------------------------
(* The playfield *)

PlayfieldClear(l, id) ==
    /\ l \in Layers
    /\ field' = [field EXCEPT ![l] = [k \in MapCells |-> id]] /\ ready' = TRUE
    /\ view' = [view EXCEPT ![l] = [scroll |-> <<0, 0>>, parallax |-> <<ParallaxUnit, ParallaxUnit>>]]
    /\ last' = [op |-> "none"]
    /\ UNCHANGED <<tileVars, fb, camera, flags, actor, covered>>

PlayfieldPut(l, k, id) ==
    /\ l \in Layers /\ k \in MapCells
    /\ field' = [field EXCEPT ![l][k] = id] /\ ready' = TRUE
    /\ last' = [op |-> "none"]
    /\ UNCHANGED <<tileVars, fb, view, camera, flags, actor, covered>>

SetScroll(l, s) ==
    /\ view' = [view EXCEPT ![l].scroll = s]
    /\ last' = [op |-> "none"]
    /\ UNCHANGED <<tileVars, fb, field, ready, camera, flags, actor, covered>>
ScrollBy(l, s) ==
    /\ view' = [view EXCEPT ![l].scroll = <<@[1] + s[1], @[2] + s[2]>>]
    /\ last' = [op |-> "none"]
    /\ UNCHANGED <<tileVars, fb, field, ready, camera, flags, actor, covered>>
SetParallax(l, s) ==
    /\ view' = [view EXCEPT ![l].parallax = s]
    /\ last' = [op |-> "none"]
    /\ UNCHANGED <<tileVars, fb, field, ready, camera, flags, actor, covered>>
SetCamera(s) ==
    /\ camera' = s
    /\ last' = [op |-> "none"]
    /\ UNCHANGED <<tileVars, fb, fieldVars, flags, actor, covered>>
SetTileFlags(id, f) ==
    /\ flags' = [flags EXCEPT ![id] = f]
    /\ last' = [op |-> "none"]
    /\ UNCHANGED <<tileVars, fb, fieldVars, camera, actor, covered>>

\* C++ division and remainder truncate.
CDiv(a, b) == IF a >= 0 THEN a \div b ELSE -((-a) \div b)
CMod(a, b) == IF a >= 0 THEN a % b ELSE -((-a) % b)

\* drawPlayfield on one axis: the layer's origin, its first tile and the pixels of it off screen.
Origin(l, a) == view[l].scroll[a] + CDiv(camera[a] * view[l].parallax[a], ParallaxUnit)
\* Mutant: the first tile of a negative origin is truncated.
StartTruncated(o) == CDiv(o, T)
Start(o) == IF o >= 0 THEN o \div T ELSE -((-o + T - 1) \div T)
\* The map coordinate of the n-th tile drawn, wrapped around the map.
MapIndex(start, n, size) ==
    LET r == CMod(start + n, size) IN IF r < 0 THEN r + size ELSE r
\* Where a pixel of the screen is in the map, and in its tile; the first tile drawn starts Offset
\* pixels before the screen.
Offset(o) == o - Start(o) * T
MapAt(o, p, size) == MapIndex(Start(o), (p + Offset(o)) \div T, size)
WithinTile(o, p) == (p + Offset(o)) % T

DrawnLayer(f, l, transparentZero) ==
    [p \in Pixels |->
        LET ox == Origin(l, 1)
            oy == Origin(l, 2)
            id == field[l][<<MapAt(ox, p[1], MapCols), MapAt(oy, p[2], MapRows)>>]
        IN  IF p[1] + Offset(ox) < 0 \/ p[2] + Offset(oy) < 0 \/ (transparentZero /\ id = 0) THEN f[p]
            ELSE TilePixel(tiles[id], <<WithinTile(ox, p[1]), WithinTile(oy, p[2])>>)]

\* ABI #93: nothing is drawn before a layer has been put or cleared.
PlayfieldDraw(l, transparentZero) ==
    /\ fb' = IF ready THEN DrawnLayer(fb, l, transparentZero) ELSE fb
    /\ covered' = IF ready THEN Cells ELSE covered
    /\ last' = [op |-> "draw", layer |-> l, transparent |-> transparentZero, fb |-> fb]
    /\ UNCHANGED <<tileVars, fieldVars, camera, flags, actor>>
\* ABI #94 and #95: both layers, the upper one transparent.
PlayfieldDrawBoth ==
    /\ ready /\ fb' = DrawnLayer(DrawnLayer(fb, 0, FALSE), 1, TRUE)
    /\ covered' = Cells
    /\ last' = [op |-> "none"]
    /\ UNCHANGED <<tileVars, fieldVars, camera, flags, actor>>

----------------------------------------------------------------------------
(* Actors *)

\* tileAt: outside the map is tile 0.
TileAt(l, x, y) ==
    IF x < 0 \/ y < 0 \/ x \div T >= MapCols \/ y \div T >= MapRows THEN 0
    ELSE field[l][<<x \div T, y \div T>>]
FlagsAt(l, x, y) == flags[TileAt(l, x, y)]

\* Mutant: the far edge is not sampled.
SamplesNear(from, to) == {v \in from .. to : (v - from) % T = 0}
\* One coordinate in each tile from from to to, and to itself.
Samples(from, to) == {v \in from .. to : (v - from) % T = 0} \cup {to}

\* actorFlagsOverlapping
Overlapping(a) ==
    UNION {FlagsAt(a.layer, x, y) : x \in Samples(a.x, a.x + a.w - 1),
                                    y \in Samples(a.y, a.y + a.h - 1)}

\* actorHitsPlatformFloor: the feet have just crossed into the row of a platform tile from above.
HitsPlatformFloor(a, previousY) ==
    LET oldBottom == previousY + a.h - 1
        newBottom == a.y + a.h - 1
    IN  /\ newBottom >= oldBottom /\ oldBottom < (CDiv(newBottom, T)) * T
        /\ \E x \in Samples(a.x, a.x + a.w - 1) : "platform" \in FlagsAt(a.layer, x, newBottom)

\* actorStateFromFlags
Touched(fs) == fs \cap {"hazard", "collect"}

\* actorMove, one pixel on an axis: what it overlaps then is touched, an obstacle takes it back.
StepX(a, step) ==
    LET b == [a EXCEPT !.x = @ + step]
        fs == Overlapping(b)
        c == [b EXCEPT !.state = @ \cup Touched(fs)]
    IN  IF "solid" \notin fs THEN [a |-> c, stopped |-> FALSE]
        ELSE [a |-> [c EXCEPT !.x = @ - step, !.vx = 0,
                              !.state = @ \cup {IF step < 0 THEN "left" ELSE "right"}],
              stopped |-> TRUE]
StepY(a, step) ==
    LET b == [a EXCEPT !.y = @ + step]
        fs == Overlapping(b)
        c == [b EXCEPT !.state = @ \cup Touched(fs)]
    IN  IF "solid" \notin fs /\ (step < 0 \/ ~HitsPlatformFloor(b, a.y))
        THEN [a |-> c, stopped |-> FALSE]
        ELSE [a |-> [c EXCEPT !.y = @ - step, !.vy = 0,
                              !.state = @ \cup {IF step < 0 THEN "head" ELSE "ground"}],
              stopped |-> TRUE]
\* actorMove, one axis: pixel by pixel until an obstacle.
AlongX(a, dx) ==
    LET step == IF dx < 0 THEN -1 ELSE 1
        at[i \in 0 .. step * dx] ==
            IF i = 0 THEN [a |-> a, stopped |-> FALSE]
            ELSE IF at[i - 1].stopped THEN at[i - 1] ELSE StepX(at[i - 1].a, step)
    IN  at[step * dx].a
AlongY(a, dy) ==
    LET step == IF dy < 0 THEN -1 ELSE 1
        at[i \in 0 .. step * dy] ==
            IF i = 0 THEN [a |-> a, stopped |-> FALSE]
            ELSE IF at[i - 1].stopped THEN at[i - 1] ELSE StepY(at[i - 1].a, step)
    IN  at[step * dy].a
Moved(a, dx, dy) ==
    LET b == AlongY(AlongX([a EXCEPT !.state = Touched(@)], dx), dy)
    IN  [b EXCEPT !.state = @ \cup Touched(Overlapping(b))]

Remember(b) == /\ actor' = b
             /\ last' = [op |-> "move", from |-> actor]
             /\ UNCHANGED <<tileVars, fb, fieldVars, camera, flags, covered>>
\* ABI #100: actor_init.
ActorInit(s) ==
    /\ actor' = s
    /\ last' = [op |-> "none"]
    /\ UNCHANGED <<tileVars, fb, fieldVars, camera, flags, covered>>
\* ABI #101: actor_move.
ActorMove(dx, dy) == Remember(Moved(actor, dx, dy))

Clamp(v, lo, hi) == IF v < lo THEN lo ELSE IF v > hi THEN hi ELSE v
\* ABI #102: actor_step - walk, jump from the ground, fall at most at maxFall.
ActorStep(dir, jumps, move, jump, gravity, maxFall) ==
    LET vy == IF jumps /\ "ground" \in actor.state THEN jump ELSE actor.vy
        fall == IF maxFall < 0 THEN -maxFall ELSE maxFall
        a == [actor EXCEPT !.vx = dir * move, !.vy = Clamp(vy + gravity, -fall, fall), !.state = {}]
    IN  Remember(Moved(a, a.vx, a.vy))

\* Mutant: the right edge is followed as if the actor had no width.
FollowedLeft(at, size, cam, dead, screenSize, mapSize) ==
    LET d == Clamp(dead, 0, screenSize \div 2)
    IN  Clamp(IF at - cam < d THEN at - d
              ELSE IF at - cam > screenSize - d THEN at - (screenSize - d)
              ELSE cam, 0, mapSize - screenSize)
\* cameraFollow on one axis: as little as brings the actor back between the dead zones.
Followed(at, size, cam, dead, screenSize, mapSize) ==
    LET d == Clamp(dead, 0, screenSize \div 2)
    IN  Clamp(IF at - cam < d THEN at - d
              ELSE IF at - cam + size > screenSize - d THEN at + size - (screenSize - d)
              ELSE cam, 0, mapSize - screenSize)
\* ABI #103
CameraFollow(dzx, dzy) ==
    /\ camera' = <<Followed(actor.x, actor.w, camera[1], dzx, W, MapCols * T),
                   Followed(actor.y, actor.h, camera[2], dzy, H, MapRows * T)>>
    /\ last' = [op |-> "follow", dead |-> <<dzx, dzy>>]
    /\ UNCHANGED <<tileVars, fb, fieldVars, flags, actor, covered>>

----------------------------------------------------------------------------

Init ==
    /\ tiles = [id \in TileIds |-> NoTile] /\ screen = [k \in Cells |-> 0] /\ dirty = {}
    /\ fb = [p \in Pixels |-> 0]
    /\ \E level \in Levels :
         /\ field = [l \in Layers |-> IF l = 0 THEN level.map ELSE [k \in MapCells |-> 0]]
         /\ view = [l \in Layers |-> level.view] /\ camera = level.camera
         /\ flags = level.flags /\ actor = level.actor
    /\ ready = (field[0] # [k \in MapCells |-> 0])
    /\ calls = 0 /\ covered = {} /\ last = [op |-> "none"]

TileCall ==
    \/ \E c \in Colours : TileClear(c)
    \/ \E id \in TileIds, t \in TileDefs : TileDefine(id, t)
    \/ \E k \in Cells, id \in TileIds : TilePut(k, id)
    \/ TilePresent
    \/ \E r \in Rects, c \in Colours : DrawRect(r[1], r[2], r[3], r[4], c)
FieldCall ==
    \/ \E l \in Layers, id \in TileIds : PlayfieldClear(l, id)
    \/ \E l \in Layers, k \in Puts, id \in TileIds : PlayfieldPut(l, k, id)
    \/ \E l \in Layers, s \in Scrolls : SetScroll(l, s) \/ ScrollBy(l, s) \/ SetParallax(l, s)
    \/ \E s \in Scrolls : SetCamera(s)
    \/ \E l \in Layers, t \in BOOLEAN : PlayfieldDraw(l, t)
    \/ PlayfieldDrawBoth
ActorCall ==
    \/ \E id \in TileIds, f \in FlagSets : SetTileFlags(id, f)
    \/ \E level \in Levels : ActorInit([level.actor EXCEPT !.state = {}, !.vx = 0, !.vy = 0])
    \/ \E dx, dy \in Moves : ActorMove(dx, dy)
    \/ \E dir \in {-1, 0, 1}, jumps \in BOOLEAN, p \in Steps :
          ActorStep(dir, jumps, p.move, p.jump, p.gravity, p.maxFall)
    \/ \E dzx, dzy \in DeadZones : CameraFollow(dzx, dzy)
Next ==
    \/ calls < MaxCalls /\ calls' = calls + 1 /\ TileCall
    \/ calls + 1 < MaxCalls /\ calls' = calls + 2 /\ FieldCall
    \/ calls + 1 < MaxCalls /\ calls' = calls + 2 /\ ActorCall

Spec == Init /\ [][Next]_vars

----------------------------------------------------------------------------
(* Properties *)

TileTypeOK == tiles \in [TileIds -> TileType] /\ screen \in [Cells -> TileIds] /\ dirty \subseteq Cells
FieldTypeOK ==
    /\ fb \in [Pixels -> Colours]
    /\ field \in [Layers -> [MapCells -> TileIds]] /\ ready \in BOOLEAN
    /\ flags \in [TileIds -> SUBSET Flags]
    /\ view \in [Layers -> ViewType] /\ camera \in Place /\ actor \in ActorType

\* A cell that is neither dirty nor drawn over shows the tile it holds as it is defined now: the
\* repaint of dirty cells only is enough.
CleanCellsShowTheirTile ==
    \A p \in Pixels :
        LET k == <<p[1] \div T, p[2] \div T>>
        IN  k \notin dirty \cup covered =>
              fb[p] = TilePixel(tiles[screen[k]], <<p[1] % T, p[2] % T>>)

\* A drawn layer shows, at every pixel and for origins on either side of 0, the pixel of the map
\* that lies there when the map repeats for ever.
PlayfieldRepeats ==
    (last.op = "draw" /\ ready) =>
        \A p \in Pixels :
            LET x == Origin(last.layer, 1) + p[1]
                y == Origin(last.layer, 2) + p[2]
                id == field[last.layer][<<(x \div T) % MapCols, (y \div T) % MapRows>>]
            IN  fb[p] = IF last.transparent /\ id = 0 THEN last.fb[p]
                        ELSE TilePixel(tiles[id], <<x % T, y % T>>)

\* Every pixel of an actor's box, and whether any lies in a solid tile.
Box(a) == (a.x .. a.x + a.w - 1) \X (a.y .. a.y + a.h - 1)
Free(a) == \A p \in Box(a) : "solid" \notin FlagsAt(a.layer, p[1], p[2])
AbovePlatform(a, y) ==
    \A p \in Box(a) : ("platform" \in FlagsAt(a.layer, p[1], p[2]) /\ p[2] % T = 0) => p[2] <= y + a.h - 1

\* An actor that overlaps no solid tile never comes to overlap one, however large the actor and the
\* move, and it is only stopped by one: the side it reports hit is blocked.
StaysOutOfSolids ==
    (last.op = "move" /\ Free(last.from)) =>
        /\ Free(actor)
        /\ "left" \in actor.state => ~Free([actor EXCEPT !.x = @ - 1, !.y = last.from.y])
        /\ "right" \in actor.state => ~Free([actor EXCEPT !.x = @ + 1, !.y = last.from.y])
        /\ "head" \in actor.state => ~Free([actor EXCEPT !.y = @ - 1])

\* A falling actor is never carried past the top row of a platform tile, and stands on the ground
\* exactly where one more pixel would enter a solid or cross such a row.  (Above the map, where the
\* division truncates towards row 0, a platform flag on tile 0 holds an actor at any height.)
LandsOnPlatforms ==
    last.op = "move" =>
        /\ AbovePlatform(actor, last.from.y)
        /\ ("ground" \in actor.state /\ actor.y + actor.h >= 0) =>
              LET below == [actor EXCEPT !.y = @ + 1]
              IN  ~Free(below) \/ ~AbovePlatform(below, actor.y)

\* A camera that follows shows the map only, and the actor between its dead zones unless the edge
\* of the map is in the way or the actor does not fit between them.
Between(at, size, cam, dead, screenSize, mapSize) ==
    LET d == Clamp(dead, 0, screenSize \div 2)
    IN  /\ cam \in 0 .. mapSize - screenSize
        /\ \/ at - cam >= d /\ at - cam + size <= screenSize - d
           \/ cam \in {0, mapSize - screenSize}
           \/ size > screenSize - 2 * d
CameraShowsActor ==
    last.op = "follow" =>
        /\ Between(actor.x, actor.w, camera[1], last.dead[1], W, MapCols * T)
        /\ Between(actor.y, actor.h, camera[2], last.dead[2], H, MapRows * T)

\* Repainting the dirty cells only leaves the screen what the tiles say.
DirtyCellsSuffice == TileTypeOK /\ CleanCellsShowTheirTile

\* A move neither enters a solid nor passes through a platform, and what is drawn and moved keeps
\* its type.
ActorsCollide == FieldTypeOK /\ StaysOutOfSolids /\ LandsOnPlatforms
=============================================================================
