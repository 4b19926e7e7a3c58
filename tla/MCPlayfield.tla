----------------------------- MODULE MCPlayfield -----------------------------
(* Tiles of 2 x 2 pixels, a screen of 2 x 2 tiles and a map of 3 x 3. *)
EXTENDS Playfield

MCTileDefs == {[bits |-> {<<0, 0>>}, fg |-> 1, bg |-> 0], [bits |-> {<<1, 0>>}, fg |-> 0, bg |-> 1]}
MCPuts == {<<1, 2>>}
MCFlagSets == {{"solid"}, {"platform"}, {}}
MCMoves == {-3, 0, 2}
MCRects == {<<-1, 1, 2, 4>>}
MCScrolls == {<<-3, 1>>, <<1, -5>>}
MCSteps == {[move |-> 1, jump |-> -2, gravity |-> 1, maxFall |-> -3],
            [move |-> 3, jump |-> -1, gravity |-> 0, maxFall |-> 2]}
Map(cells) == [k \in MapCells |-> IF k \in cells THEN 1 ELSE 0]
View(scroll, parallax) == [scroll |-> scroll, parallax |-> parallax]
Actor(x, y, w, h) == [x |-> x, y |-> y, vx |-> 0, vy |-> 3, w |-> w, h |-> h, layer |-> 0, state |-> {"ground"}]
Level(m, f, v, c, a) ==
    [map |-> m, flags |-> [id \in TileIds |-> IF id = 1 THEN f ELSE {}], view |-> v, camera |-> c,
     actor |-> a]
MCLevels ==
    { Level(Map({<<0, 2>>, <<1, 2>>, <<2, 1>>}), {"solid"}, View(<<0, 0>>, <<2, 2>>), <<1, 0>>,
            Actor(0, 0, 3, 2)),
      Level(Map({<<1, 1>>, <<2, 2>>}), {"platform", "hazard"}, View(<<-2, 3>>, <<1, -1>>), <<2, 1>>,
            Actor(1, -1, 2, 3)),
      Level(Map({}), {"collect"}, View(<<0, 0>>, <<2, 2>>), <<0, 0>>, Actor(4, -3, 1, 2)) }
==============================================================================
