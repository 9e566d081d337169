------------------------------- MODULE Demons --------------------------------
(***************************************************************************)
(* demons.c: what acts on its own.  A demon is a condition and an action;  *)
(* at every poll the turtles that move are advanced by the time since the  *)
(* last one, and the action of each demon whose condition has just become  *)
(* true is run.  With the sensing and the addressing of                    *)
(* primitives_turtle.c, which conditions and actions are made of.  Adds to *)
(* the record g: demons, the flags and clocks of the poll, and now.        *)
(***************************************************************************)
EXTENDS Turtles

CONSTANTS MAX_DEMONS, DEMON_POLL_MS

ASSUME DemonAssumption == MAX_DEMONS \in Nat \ {0} /\ DEMON_POLL_MS \in Nat

DemonSlots == 1 .. MAX_DEMONS
NODE_NIL == 0           \* the empty list; another action is a node, a list of the program's
Free == [armed |-> FALSE, was_true |-> FALSE, cond |-> <<>>, action |-> NODE_NIL]

-----------------------------------------------------------------------------
(* Addressing.  The console has one turtle selected; the primitives address  *)
(* a set, in ascending order, and leave its lowest member selected.  What    *)
(* stops every turtle leaves turtle 0 selected: after an error that is       *)
(* remembered in astray until the lowest of the set is selected again.       *)

select_first_active(g) == [turtle_op_select(g, Min(g.active)) EXCEPT !.astray = FALSE]

prim_tell(g, set) == select_first_active([g EXCEPT !.active = set])

turtle_stop_motion(g) ==
    turtle_op_select(
        FoldSet(LAMBDA n, h : turtle_set_anim(turtle_set_speed(turtle_op_select(h, n), 0), 0, 0, 0),
                g, AllTurtles), 0)

-----------------------------------------------------------------------------
(* Sensing.                                                                  *)

RasterOf(g) == [sprite |-> turtle_sprite_geometry(g), mask |-> g.rasters[g.current],
                visible |-> turtle_should_draw(g, Cur(g)), g |-> g]
turtle_get_raster(g, n) == RasterOf(turtle_update_raster(turtle_op_select(g, n)))

raster_solid(r, x, y) == Opaque(r.sprite, r.mask[y * r.sprite.w + x])

\* Mutant: the second mask is tried where it is only.
RastersOverlapHere(a, b, wrap) ==
    \E x \in Greatest(a.sprite.x, b.sprite.x) ..
                 Least(a.sprite.x + a.sprite.w, b.sprite.x + b.sprite.w) - 1,
       y \in Greatest(a.sprite.y, b.sprite.y) ..
                 Least(a.sprite.y + a.sprite.h, b.sprite.y + b.sprite.h) - 1 :
        /\ raster_solid(a, x - a.sprite.x, y - a.sprite.y)
        /\ raster_solid(b, x - b.sprite.x, y - b.sprite.y)

\* Do two masks share an opaque pixel?  In wrap mode the second is also tried a
\* screen to every side.
rasters_overlap(a, b, wrap) ==
    \E kx \in (IF wrap THEN {-1, 0, 1} ELSE {0}), ky \in (IF wrap THEN {-1, 0, 1} ELSE {0}) :
        LET bx == b.sprite.x + kx * SCREEN_WIDTH
            by == b.sprite.y + ky * SCREEN_HEIGHT
        IN  \E x \in Greatest(a.sprite.x, bx) .. Least(a.sprite.x + a.sprite.w, bx + b.sprite.w) - 1,
               y \in Greatest(a.sprite.y, by) .. Least(a.sprite.y + a.sprite.h, by + b.sprite.h) - 1 :
                /\ raster_solid(a, x - a.sprite.x, y - a.sprite.y)
                /\ raster_solid(b, x - bx, y - by)

\* Off the canvas there is the slot of the background, which on it is 255.
turtle_canvas_point(g, x, y) ==
    LET p == Landing(g, x, y) IN IF p \in Pixels THEN g.canvas[p] ELSE g.background

Touching(a, b, wrap) ==
    [g |-> select_first_active(b.g), truth |-> a.visible /\ b.visible /\ rasters_overlap(a, b, wrap)]
TouchingSecond(a, n) == Touching(a, turtle_get_raster(a.g, n), a.g.boundary = "wrap")
prim_touchingp(g, a, b) == TouchingSecond(turtle_get_raster(g, a), b)

OverColour(r, colour) ==
    [g |-> r.g, truth |-> \E x \in 0 .. r.sprite.w - 1, y \in 0 .. r.sprite.h - 1 :
                              /\ raster_solid(r, x, y)
                              /\ turtle_canvas_point(r.g, r.sprite.x + x, r.sprite.y + y) = colour]
prim_overp(g, colour) == OverColour(turtle_get_raster(g, Min(g.active)), colour)

-----------------------------------------------------------------------------
(* The table, the flags and the clock.                                       *)

demons_set(g, cond, action) ==
    LET same == {i \in DemonSlots : g.demons[i].armed /\ g.demons[i].cond = cond}
        free == {i \in DemonSlots : ~g.demons[i].armed}
    IN  IF same # {} /\ action = NODE_NIL THEN [g EXCEPT !.demons[Min(same)].armed = FALSE]
        ELSE IF same # {} THEN [g EXCEPT !.demons[Min(same)].action = action,
                                         !.demons[Min(same)].was_true = FALSE,
                                         !.before = @ \ same]
        ELSE IF action = NODE_NIL THEN g
        ELSE IF free = {} THEN [g EXCEPT !.ok = FALSE]
        ELSE [g EXCEPT !.demons[Min(free)] =
                  [armed |-> TRUE, was_true |-> FALSE, cond |-> cond, action |-> action]]

demons_freeze(g) == [g EXCEPT !.frozen = TRUE]

\* Mutant: the clock runs on while everything is frozen.
ThawLate(g) == [g EXCEPT !.frozen = FALSE]

demons_thaw(g)   == [g EXCEPT !.frozen = FALSE, !.have_ticked = FALSE]
demons_suspend(g) == [g EXCEPT !.suspended = TRUE]
demons_resume(g)  == [g EXCEPT !.suspended = FALSE, !.have_ticked = FALSE]
demons_clear(g) == [g EXCEPT !.demons = [i \in DemonSlots |-> [@[i] EXCEPT !.armed = FALSE]]]

demons_reset(g) ==
    turtle_stop_motion([demons_clear(g) EXCEPT !.frozen = FALSE, !.polling = FALSE, !.suspended = FALSE,
                            !.have_ticked = FALSE, !.have_polled = FALSE, !.astray = Min(g.active) # 0])

\* What a condition finds: a truth value, or that it is none.
Condition(g, cond) ==
    CASE cond[1] = "touching?" -> prim_touchingp(g, cond[2], cond[3])
      [] cond[1] = "over?"     -> prim_overp(g, cond[2])
      [] OTHER                 -> [g |-> [g EXCEPT !.ok = FALSE], truth |-> FALSE]

-----------------------------------------------------------------------------
(* A poll: a tick, then each demon's turn.  A poll that is not due yet, or   *)
(* comes while another runs, does nothing.                                   *)

DemonsDue(g) == /\ ~g.frozen /\ ~g.polling /\ ~g.suspended
                /\ g.have_polled => g.now - g.last_poll >= DEMON_POLL_MS
demons_maybe_poll(g) ==
    [g EXCEPT !.last_poll = g.now, !.have_polled = TRUE, !.polling = TRUE]

TickTime(g) == IF g.have_ticked THEN g.now - g.last_tick ELSE 0
Ticked(g) == [g EXCEPT !.last_tick = g.now, !.have_ticked = TRUE, !.credited = @ + TickTime(g)]
Moving(g) == {i \in AllTurtles : g.turtles[i].speed > 0 \/ g.turtles[i].anim.interval > 0}

\* One demon's turn: what its condition finds is remembered, and its action is due if
\* the condition has become true.
Found(c, i) == IF c.g.ok THEN [c.g EXCEPT !.demons[i].was_true = c.truth] ELSE c.g

\* Mutant: an action runs at every poll that finds its condition true.
FiresAgain(g, c, i) == c.g.ok /\ c.truth

Fires(g, c, i) == c.g.ok /\ c.truth /\ ~g.demons[i].was_true
=============================================================================
