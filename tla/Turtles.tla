------------------------------ MODULE Turtles -------------------------------
(***************************************************************************)
(* The turtles: what the console of the PicoCalc keeps of each             *)
(* (picocalc_console.c), the costumes they wear (costumes.c), and the      *)
(* primitives that address several at once (primitives_turtle.c).  Adds to *)
(* the record g of Canvas: turtles, current, active, shapes and costumes.  *)
(* Headings are quarter turns and positions whole pixels.                  *)
(***************************************************************************)
EXTENDS Canvas

CONSTANTS MAX_TURTLES, TURTLE_HOME,
          SHAPE0_RASTER_SIZE, BITMAP_RASTER_SIZE, TURTLE_RASTER_MAX,
          Shapes,               \* the shapes a program can define, from 1
          COSTUME_POOL_SIZE

ASSUME TurtleAssumption ==
    /\ MAX_TURTLES \in 1 .. SCREEN_MAX_SPRITES
    /\ TURTLE_RASTER_MAX \in SHAPE0_RASTER_SIZE .. Least(SCREEN_WIDTH, SCREEN_HEIGHT)

AllTurtles == 0 .. MAX_TURTLES - 1
Headings   == {0, 90, 180, 270}
Sin(a) == CASE a = 90 -> 1 [] a = 270 -> -1 [] OTHER -> 0
Cos(a) == Sin((a + 90) % 360)

NoCostume == [w |-> 0, h |-> 0, pixels |-> <<>>]
Costumes(g) == {s \in Shapes : g.costumes[s] # NoCostume}
PoolUsed(g) == FoldSet(LAMBDA s, n : n + g.costumes[s].w * g.costumes[s].h, 0, Costumes(g))

\* What a turtle remembers of its raster, whose cells are g.rasters[i].
Unbuilt == [valid |-> FALSE, w |-> 0, h |-> 0, indexed |-> FALSE, key |-> <<>>]

BootTurtle(i) ==
    [x |-> TURTLE_HOME[1], y |-> TURTLE_HOME[2], angle |-> 0, colour |-> Min(Slots),
     pen_state |-> "down", pen_size |-> 1, visible |-> i = 0, shape |-> 0, mag |-> 1,
     rot_style |-> "fixed", speed |-> 0, anim |-> [first |-> 0, last |-> 0, interval |-> 0],
     anim_accum |-> 0, raster |-> Unbuilt]

Cur(g) == g.turtles[g.current]
turtle_op_select(g, n) == [g EXCEPT !.current = n]

-----------------------------------------------------------------------------
(* The raster of a turtle: what it looks like, in w * h cells.               *)

\* The lines of the triangle, clipped to the raster: u is ahead, v to the side.
Outline(size, corners) ==
    LET drawn == UNION {Range(LinePoints(corners[e[1]][1], corners[e[1]][2],
                                         corners[e[2]][1], corners[e[2]][2])) :
                            e \in {<<1, 2>>, <<2, 3>>, <<3, 1>>}}
    IN  [i \in 0 .. size * size - 1 |-> IF <<i % size, i \div size>> \in drawn THEN 1 ELSE 0]
Triangle(size, c, u, v) ==
    Outline(size, <<<<c + u, c + v>>, <<c - u, c - v>>, <<c + v, c - u>>>>)

\* A costume's picture turned to the heading and cropped to a square of d cells.
Cell(base, bw, bh, x, y, blank) ==
    IF x \in 0 .. bw - 1 /\ y \in 0 .. bh - 1 THEN base[y * bw + x] ELSE blank
Centred(v, m, bound) == (v + m * bound) \div (2 * m)
Turned(base, bw, bh, m, d, s, c, blank) ==
    [i \in 0 .. d * d - 1 |->
        LET x == 2 * (i % d) + 1 - d
            y == 2 * (i \div d) + 1 - d
        IN  Cell(base, bw, bh, Centred(x * c + y * s, m, bw), Centred(y * c - x * s, m, bh), blank)]

\* The least square that holds a picture of dw by dh cells at any heading.
TurnedSize(dw, dh) ==
    LET d == CHOOSE d \in 1 .. dw + dh : /\ d * d >= dw * dw + dh * dh
                                         /\ (d - 1) * (d - 1) < dw * dw + dh * dh
    IN  Least(d, TURTLE_RASTER_MAX)

heading_faces_left(angle) == angle > 180
Flipped(t) == t.shape # 0 /\ t.rot_style = "flip" /\ heading_faces_left(t.angle)

\* What a turtle looks like now: its raster, built afresh.  A picture of bw by bh
\* cells, m times as large, turned in a square of d cells or as it is.
Square(d, indexed, mask) == [w |-> d, h |-> d, indexed |-> indexed, mask |-> mask]
Upright(t, base, bw, bh, m, indexed) ==
    [w |-> bw * m, h |-> bh * m, indexed |-> indexed,
     mask |-> [i \in 0 .. bw * m * bh * m - 1 |->
                  LET x == (i % (bw * m)) \div m
                  IN  base[((i \div (bw * m)) \div m) * bw + (IF Flipped(t) THEN bw - 1 - x ELSE x)]]]
Pictured(t, base, bw, bh, m, d, indexed) ==
    IF t.rot_style # "full" THEN Upright(t, base, bw, bh, m, indexed)
    ELSE Square(d, indexed, Turned(base, bw, bh, m, d, Sin(t.angle), Cos(t.angle),
                                   IF indexed THEN SCREEN_SPRITE_TRANSPARENT ELSE 0))
Scaled(t, base, bw, bh, m, indexed) ==
    Pictured(t, base, bw, bh, m, TurnedSize(bw * m, bh * m), indexed)
Magnified(t, base, bw, bh, indexed) ==
    Scaled(t, base, bw, bh, IF Greatest(bw, bh) * t.mag > TURTLE_RASTER_MAX THEN 1 ELSE t.mag, indexed)
TriangleOf(t, size) ==
    Square(size, FALSE, Triangle(size, size \div 2, t.mag * Cos(t.angle), t.mag * Sin(t.angle)))

FreshRaster(g, t) ==
    IF t.shape = 0 THEN TriangleOf(t, IF t.mag = 2 THEN TURTLE_RASTER_MAX ELSE SHAPE0_RASTER_SIZE)
    ELSE LET worn == g.costumes[t.shape]
             plain == worn = NoCostume
         IN  Magnified(t, IF plain THEN g.shapes[t.shape] ELSE worn.pixels,
                       IF plain THEN BITMAP_RASTER_SIZE ELSE worn.w,
                       IF plain THEN BITMAP_RASTER_SIZE ELSE worn.h, ~plain)

\* Mutant: the heading is left out of what a raster was built for.
RasterKeyNoHeading(t) == <<t.shape, t.mag, t.rot_style, Flipped(t), 0>>

\* What a raster was built for; it is kept as long as none of it changes.
RasterKey(t) ==
    <<t.shape, t.mag, t.rot_style, Flipped(t),
      IF t.shape = 0 \/ t.rot_style = "full" THEN t.angle ELSE 0>>

Rebuilt(g, fresh) ==
    [g EXCEPT !.turtles[g.current].raster = [valid |-> TRUE, w |-> fresh.w, h |-> fresh.h,
                                             indexed |-> fresh.indexed, key |-> RasterKey(Cur(g))],
              !.rasters[g.current] = fresh.mask]
turtle_update_raster(g) ==
    IF Cur(g).raster.valid /\ Cur(g).raster.key = RasterKey(Cur(g)) THEN g
    ELSE Rebuilt(g, FreshRaster(g, Cur(g)))

\* A turtle's raster as a sprite: centred on the turtle.
SpriteOf(t, raster) ==
    [visible |-> TRUE, indexed |-> raster.indexed, colour |-> t.colour,
     x |-> t.x - (raster.w \div 2), y |-> t.y - (raster.h \div 2), w |-> raster.w, h |-> raster.h]
turtle_sprite_geometry(g) == SpriteOf(Cur(g), Cur(g).raster)

OnScreen(t) == <<t.x, t.y>> \in Pixels
turtle_should_draw(g, t) == t.visible /\ (g.boundary = "window" => OnScreen(t))

Displayed(g) == screen_sprite_set(g, g.current, turtle_sprite_geometry(g))
turtle_draw(g) ==
    IF turtle_should_draw(g, Cur(g)) THEN Displayed(turtle_update_raster(g))
    ELSE screen_sprite_hide(g, g.current)

Redrawn(g) == screen_gfx_update(turtle_draw(g))

-----------------------------------------------------------------------------
(* The operations on the selected turtle.                                    *)

\* The line a turtle's pen draws from (x, y) to where it is; one that reverses is
\* always thin.
PenLine(g, x, y) ==
    LET t == Cur(g)
    IN  IF t.pen_state = "up" THEN g
        ELSE screen_gfx_line(g, LinePoints(x, y, t.x, t.y),
                 IF t.pen_state = "erase" THEN GFX_DEFAULT_BACKGROUND ELSE t.colour,
                 t.pen_state = "reverse", t.pen_size)

Placed(g, x, y) == [g EXCEPT !.turtles[g.current].x = x, !.turtles[g.current].y = y]

\* A step to (x, y), which a fence may stop.  The line is drawn to where the step
\* leads, and only then does the turtle come back around the edge.
Around(g) == IF g.boundary = "wrap" THEN Placed(g, Cur(g).x % SCREEN_WIDTH, Cur(g).y % SCREEN_HEIGHT)
             ELSE g
Fenced(g, place) == g.boundary = "fence" /\ place \notin Pixels
StepTo(g, x, y) == Redrawn(Around(PenLine(Placed(g, x, y), Cur(g).x, Cur(g).y)))
Stopped(g) == [turtle_draw(g) EXCEPT !.ok = FALSE]

turtle_move(g, distance) ==
    LET x == Cur(g).x + distance * Sin(Cur(g).angle)
        y == Cur(g).y - distance * Cos(Cur(g).angle)
    IN  IF Fenced(g, <<x, y>>) THEN Stopped(g) ELSE StepTo(g, x, y)

\* Logo's coordinates have their origin in the middle and y upward, but the fence
\* is asked about y as if it were downward: it lets a turtle on to the row below
\* the screen, and not on to the topmost.
turtle_set_position(g, x, y) ==
    IF Fenced(g, <<x + (SCREEN_WIDTH \div 2), (SCREEN_HEIGHT \div 2) + y>>) THEN Stopped(g)
    ELSE StepTo(g, x + (SCREEN_WIDTH \div 2), (SCREEN_HEIGHT \div 2) - y)
turtle_get_position(g) ==
    <<Cur(g).x - (SCREEN_WIDTH \div 2), (SCREEN_HEIGHT \div 2) - Cur(g).y>>

SentHome(g) == [Placed(g, TURTLE_HOME[1], TURTLE_HOME[2]) EXCEPT !.turtles[g.current].angle = 0]
turtle_home(g) == Redrawn(PenLine(SentHome(g), Cur(g).x, Cur(g).y))

turtle_clearscreen(g) == Redrawn(screen_gfx_clear(g))

turtle_set_angle(g, angle) == Redrawn([g EXCEPT !.turtles[g.current].angle = angle % 360])
turtle_set_colour(g, colour) == Redrawn([g EXCEPT !.turtles[g.current].colour = colour])
turtle_set_pen_state(g, state) == [g EXCEPT !.turtles[g.current].pen_state = state]
turtle_set_pen_size(g, size) == [g EXCEPT !.turtles[g.current].pen_size = size]

turtle_set_visibility(g, visible) ==
    IF Cur(g).visible = visible THEN g
    ELSE Redrawn([g EXCEPT !.turtles[g.current].visible = visible])

\* The background is what palette slot 255 looks like.
turtle_set_bg_colour(g, slot) ==
    screen_gfx_update(screen_gfx_mark_all_dirty(
        [g EXCEPT !.palette[GFX_DEFAULT_BACKGROUND] = g.palette[slot], !.background = slot]))
turtle_set_palette(g, slot, colour) ==
    screen_gfx_update(screen_gfx_mark_all_dirty([g EXCEPT !.palette[slot] = colour]))
turtle_restore_palette(g) ==
    screen_gfx_update(screen_gfx_mark_all_dirty(turtle_set_bg_colour(
        [g EXCEPT !.palette = [s \in Palette |-> IF s = GFX_DEFAULT_BACKGROUND THEN @[s] ELSE s]],
        g.background)))

\* A dot is a line of one point.
turtle_dot(g, x, y) ==
    LET sx == x + (SCREEN_WIDTH \div 2)
        sy == (SCREEN_HEIGHT \div 2) - y
    IN  screen_gfx_update(screen_gfx_line(g, <<<<sx, sy>>>>, Cur(g).colour, FALSE, Cur(g).pen_size))

\* An eraser fills with the slot of the background colour, not with slot 255.
turtle_fill(g) ==
    LET t == Cur(g)
    IN  IF t.pen_state \notin {"down", "erase"} THEN g
        ELSE screen_gfx_update(screen_gfx_fill(g, t.x, t.y,
                 IF t.pen_state = "down" THEN t.colour ELSE g.background))

turtle_draw_text(g, n) ==
    screen_gfx_update(screen_gfx_text(g, Cur(g).x, Cur(g).y - (GLYPH[2] \div 2), n, Cur(g).colour))
turtle_gfx_load(g, picture) == screen_gfx_update(screen_gfx_load(g, picture))

\* Leaving the window, the selected turtle comes home if it is off the screen.
ComeHome(g) ==
    IF g.boundary = "window" /\ ~OnScreen(Cur(g)) THEN Redrawn(SentHome(g)) ELSE g
turtle_set_fence(g)  == [ComeHome(g) EXCEPT !.boundary = "fence"]
turtle_set_wrap(g)   == [ComeHome(g) EXCEPT !.boundary = "wrap"]
turtle_set_window(g) == [g EXCEPT !.boundary = "window"]

turtle_set_shape_num(g, shape) ==
    IF Cur(g).shape = shape THEN g ELSE Redrawn([g EXCEPT !.turtles[g.current].shape = shape])

\* Every turtle that wears a slot whose picture changed is rebuilt, and drawn if
\* it is visible.
Refreshed(g, i) == IF g.turtles[i].visible THEN turtle_draw(turtle_op_select(g, i)) ELSE g
Wearers(g, slot) == {i \in AllTurtles : g.turtles[i].shape = slot}

refresh_shape_wearers(g, slot) ==
    screen_gfx_update(turtle_op_select(
        FoldSet(LAMBDA i, h : Refreshed([h EXCEPT !.turtles[i].raster.valid = FALSE], i),
                g, Wearers(g, slot)), g.current))

Stale(g) == [g EXCEPT !.turtles[g.current].raster.valid = FALSE]
Restyled(g) == IF Cur(g).visible THEN Redrawn(Stale(g)) ELSE Stale(g)
turtle_set_rotation_style(g, style) ==
    IF Cur(g).rot_style = style THEN g
    ELSE Restyled([g EXCEPT !.turtles[g.current].rot_style = style])
turtle_set_scale(g, mag) ==
    IF Cur(g).mag = mag THEN g ELSE Restyled([g EXCEPT !.turtles[g.current].mag = mag])

Stamped(g) == screen_gfx_stamp(g, turtle_sprite_geometry(g), g.rasters[g.current])
turtle_stamp(g) == screen_gfx_update(Stamped(turtle_update_raster(g)))

\* The costume a slot had goes first; then the new one may find the pool full.
costume_delete(g, slot) == [g EXCEPT !.costumes[slot] = NoCostume]
costume_put(g, slot, w, h, pixels) ==
    LET released == costume_delete(g, slot)
    IN  IF PoolUsed(released) + w * h > COSTUME_POOL_SIZE THEN [released EXCEPT !.ok = FALSE]
        ELSE [released EXCEPT !.costumes[slot] = [w |-> w, h |-> h, pixels |-> pixels]]

turtle_snap_costume(g, slot, w, h) ==
    LET Worn(put) == IF put.ok THEN refresh_shape_wearers(put, slot) ELSE put
    IN  Worn(costume_put(g, slot, w, h,
                screen_gfx_snap(g, Cur(g).x - (w \div 2), Cur(g).y - (h \div 2), w, h)))
turtle_put_shape_data(g, slot, bits) ==
    refresh_shape_wearers(costume_delete([g EXCEPT !.shapes[slot] = bits], slot), slot)

turtle_set_speed(g, speed) == [g EXCEPT !.turtles[g.current].speed = speed]
turtle_set_anim(g, first, last, interval) ==
    [g EXCEPT !.turtles[g.current].anim = [first |-> first, last |-> last, interval |-> interval],
              !.turtles[g.current].anim_accum = 0]

\* What a tick of dt does to the selected turtle: it glides at its speed, stopping
\* short of a fence without an error, and takes the frames that are due.
Glided(g, dt) ==
    IF Cur(g).speed > 0 THEN [turtle_move(g, Cur(g).speed * dt) EXCEPT !.ok = TRUE] ELSE g

Accumulated(g, dt) ==
    IF Cur(g).anim.interval > 0 THEN [g EXCEPT !.turtles[g.current].anim_accum = @ + dt] ELSE g
FrameDue(t) == t.anim.interval > 0 /\ t.anim_accum >= t.anim.interval
NextFrame(g) ==
    LET t == Cur(g)
    IN  turtle_set_shape_num([g EXCEPT !.turtles[g.current].anim_accum = @ - t.anim.interval],
            IF t.shape \in t.anim.first .. t.anim.last - 1 THEN t.shape + 1 ELSE t.anim.first)
=============================================================================
