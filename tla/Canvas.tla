------------------------------- MODULE Canvas -------------------------------
(***************************************************************************)
(* The graphics half of screen.c: a canvas of palette slots, sprites laid  *)
(* over it while it is sent to the LCD, the tiles still to be sent, and    *)
(* when they are sent.  The statics of the file are the record g; each     *)
(* function of the file is a function of it.  Positions are whole pixels:  *)
(* the rounding of the code's floats is not modelled.                      *)
(***************************************************************************)
EXTENDS DirtyTiles, Sequences, SequencesExt

CONSTANTS SCREEN_SPLIT_GFX_HEIGHT,  \* the lines of graphics in split mode
          SCREEN_MAX_SPRITES, FILL_STACK_SIZE,
          GLYPH,                    \* the width and height of a character
          Slots                     \* palette slots a program draws with

ASSUME SpriteAssumption == SCREEN_MAX_SPRITES \in Nat

GFX_DEFAULT_BACKGROUND == 255
Palette == Slots \cup {GFX_DEFAULT_BACKGROUND}
SCREEN_SPRITE_TRANSPARENT == 255
Ink == "text"           \* what a pixel of the LCD shows under text

Sprites == 0 .. SCREEN_MAX_SPRITES - 1
Hidden  == [visible |-> FALSE, indexed |-> FALSE, colour |-> 0, x |-> 0, y |-> 0, w |-> 0, h |-> 0]

Abs(i) == IF i < 0 THEN -i ELSE i
Sign(i) == IF i < 0 THEN -1 ELSE IF i > 0 THEN 1 ELSE 0
EmptyCanvas == [p \in Pixels |-> GFX_DEFAULT_BACKGROUND]

(* Where a point lands: wrapped onto the canvas in wrap mode, else where it  *)
(* is, and then it may be off the canvas.                                    *)
Landing(g, x, y) ==
    IF g.boundary = "wrap" THEN <<x % SCREEN_WIDTH, y % SCREEN_HEIGHT>> ELSE <<x, y>>

screen_gfx_mark_dirty_rect(g, x0, y0, x1, y1) ==
    [g EXCEPT !.tiles = dirty_tiles_mark_rect(@, x0, y0, x1, y1)]
screen_gfx_mark_all_dirty(g) == [g EXCEPT !.tiles = dirty_tiles_mark_all]
MarkBox(g, x, y, w, h) ==
    [g EXCEPT !.tiles = dirty_tiles_mark_rect_wrap(
                            dirty_tiles_mark_rect(@, x, y, x + w - 1, y + h - 1), x, y, w, h)]

-----------------------------------------------------------------------------
(* Sprites.  A sprite's mask is its turtle's raster, which the sprite only   *)
(* points to: g.rasters[id] maps 0 .. w*h - 1 to 0 or 1, or to palette slots *)
(* when it is indexed.                                                       *)

sprite_mark(g, s) == MarkBox(g, s.x, s.y, s.w, s.h)

\* Mutant: only the place a sprite moves to is marked.
SpriteSetForgettingOld(g, id, sprite) ==
    sprite_mark([g EXCEPT !.sprites[id] = sprite], sprite)

screen_sprite_set(g, id, sprite) ==
    LET old == IF g.sprites[id].visible THEN sprite_mark(g, g.sprites[id]) ELSE g
    IN  sprite_mark([old EXCEPT !.sprites[id] = sprite], sprite)

screen_sprite_hide(g, id) ==
    IF ~g.sprites[id].visible THEN g
    ELSE [sprite_mark(g, g.sprites[id]) EXCEPT !.sprites[id].visible = FALSE]

Opaque(s, px) == px # IF s.indexed THEN SCREEN_SPRITE_TRANSPARENT ELSE 0
InkOf(s, px)  == IF s.indexed THEN px ELSE s.colour

\* The cell of sprite s that lands on pixel p, if c is one; a mask is smaller than
\* the canvas, so that there is one at most.
Offset(g, s, p) ==
    LET c == <<p[1] - s.x, p[2] - s.y>>
    IN  IF g.boundary = "wrap" THEN <<c[1] % SCREEN_WIDTH, c[2] % SCREEN_HEIGHT>> ELSE c
Inside(s, c) == c[1] \in 0 .. s.w - 1 /\ c[2] \in 0 .. s.h - 1
Covers(g, s, raster, p) ==
    LET c == Offset(g, s, p) IN Inside(s, c) /\ Opaque(s, raster[c[2] * s.w + c[1]])
InkAt(g, s, raster, p) ==
    LET c == Offset(g, s, p) IN InkOf(s, raster[c[2] * s.w + c[1]])

\* One pixel of a composed row: lower sprites lie on top of higher ones.
compose_row(g, p) ==
    LET over == {id \in Sprites : /\ g.sprites[id].visible
                                  /\ Covers(g, g.sprites[id], g.rasters[id], p)}
    IN  IF over = {} THEN g.canvas[p]
        ELSE LET id == Min(over) IN InkAt(g, g.sprites[id], g.rasters[id], p)

\* The stamp primitive: the cells of a raster painted into the canvas.
screen_gfx_stamp(g, s, raster) ==
    MarkBox([g EXCEPT !.canvas = [p \in Pixels |-> IF Covers(g, s, raster, p)
                                                   THEN InkAt(g, s, raster, p) ELSE @[p]]],
            s.x, s.y, s.w, s.h)

\* What snapsh and snaptile read; the background's slot is also what a costume
\* takes for transparent.
screen_gfx_snap(g, x0, y0, w, h) ==
    [i \in 0 .. w * h - 1 |->
        LET p == Landing(g, x0 + (i % w), y0 + (i \div w))
        IN  IF p \in Pixels THEN g.canvas[p] ELSE SCREEN_SPRITE_TRANSPARENT]

\* A run of a baked tile, clipped to the canvas.
screen_gfx_write_row(g, x, y, pixels) ==
    LET run == {i \in 1 .. Len(pixels) : <<x + i - 1, y>> \in Pixels}
    IN  IF run = {} THEN g
        ELSE screen_gfx_mark_dirty_rect(
                 [g EXCEPT !.canvas = [p \in Pixels |->
                      IF p[2] = y /\ p[1] - x + 1 \in run THEN pixels[p[1] - x + 1] ELSE @[p]]],
                 x + Min(run) - 1, y, x + Max(run) - 1, y)

-----------------------------------------------------------------------------
(* Drawing.                                                                  *)

\* Bresenham's line with n steps of the driving axis and m of the other: how far
\* the other axis has come after i steps.
Climb(n, m, i) == (2 * m * i + n - 1) \div Greatest(1, 2 * n)

\* The points of the line from (x1, y1) to (x2, y2), in the order they are drawn.
Along(x1, y1, dx, dy, sx, sy) ==
    [i \in 1 .. Greatest(dx, dy) + 1 |->
        <<x1 + sx * (IF dx >= dy THEN i - 1 ELSE Climb(dy, dx, i - 1)),
          y1 + sy * (IF dx >= dy THEN Climb(dx, dy, i - 1) ELSE i - 1)>>]
LinePoints(x1, y1, x2, y2) ==
    Along(x1, y1, Abs(x2 - x1), Abs(y2 - y1), Sign(x2 - x1), Sign(y2 - y1))

\* The disc a pen of this width stamps around a point.
PenDisc(width) ==
    IF width <= 1 THEN {<<0, 0>>}
    ELSE LET reach == -(width \div 2) .. (width \div 2)
         IN  {o \in reach \X reach : 4 * (o[1] * o[1] + o[2] * o[2]) <= width * width}

\* A pen that reverses toggles every point it comes to, each time it comes to it.
Reversed(canvas, points, colour) ==
    FoldLeft(LAMBDA c, p : IF p \notin Pixels THEN c
                           ELSE [c EXCEPT ![p] = IF @ = GFX_DEFAULT_BACKGROUND THEN colour
                                                 ELSE GFX_DEFAULT_BACKGROUND],
             canvas, points)

Plotted(g, points, width) ==
    {Landing(g, p[1] + o[1], p[2] + o[2]) : p \in Range(points), o \in PenDisc(width)} \cap Pixels
MarkPixels(g, S) ==
    IF S = {} THEN g
    ELSE screen_gfx_mark_dirty_rect(g, Min({p[1] : p \in S}), Min({p[2] : p \in S}),
                                       Max({p[1] : p \in S}), Max({p[2] : p \in S}))
Painted(g, S, colour) ==
    MarkPixels([g EXCEPT !.canvas = [p \in Pixels |-> IF p \in S THEN colour ELSE @[p]]], S)

screen_gfx_line(g, points, colour, reverse, width) ==
    IF ~reverse THEN Painted(g, Plotted(g, points, width), colour)
    ELSE MarkPixels([g EXCEPT !.canvas =
                        Reversed(@, [i \in DOMAIN points |-> Landing(g, points[i][1], points[i][2])], colour)],
                    Plotted(g, points, 1))

\* A glyph is abstracted to a solid block of GLYPH cells; clipped, never wrapped.
screen_gfx_text(g, x, y, n, colour) ==
    Painted(g, {p \in Pixels : p[1] \in x .. x + n * GLYPH[1] - 1 /\ p[2] \in y .. y + GLYPH[2] - 1},
            colour)

-----------------------------------------------------------------------------
(* Filling: the pixels around a point up to the colour it is filled with.    *)
(* Work still to do is a stack of spans [y, left, right, dir]; what does not *)
(* fit on it is dropped.                                                     *)

Push(stack, span) ==
    IF Len(stack) < FILL_STACK_SIZE /\ span.y \in Ys /\ span.left <= span.right
    THEN Append(stack, span) ELSE stack
Span(y, left, right, dir) == [y |-> y, left |-> left, right |-> right, dir |-> dir]

\* The runs of pixels of line y that are not of the colour and meet left .. right.
Runs(canvas, y, left, right, colour) ==
    LET Free(a, b) == \A x \in a .. b : canvas[<<x, y>>] # colour
    IN  {run \in Xs \X Xs :
            /\ run[1] <= run[2]
            /\ run[1] <= right /\ run[2] >= left /\ Free(run[1], run[2])
            /\ run[1] = 0 \/ canvas[<<run[1] - 1, y>>] = colour
            /\ run[2] = SCREEN_WIDTH - 1 \/ canvas[<<run[2] + 1, y>>] = colour}

\* Mutant: only the line beyond a run is looked at.
PushBeyond(stack, s, run) ==
    Push(stack, Span(s.y + s.dir, run[1], run[2], s.dir))

\* What a run leaves to do: the line beyond it, and behind it where it is wider
\* than the span it was found from.
PushAround(stack, s, run) ==
    Push(Push(Push(stack, Span(s.y + s.dir, run[1], run[2], s.dir)),
              Span(s.y - s.dir, run[1], s.left - 1, -s.dir)),
         Span(s.y - s.dir, s.right + 1, run[2], -s.dir))

\* The members of a set in the order of before, as a function of their places: each
\* has as many before it as its place says.
InOrder(S, before(_,_)) ==
    [k \in 1 .. Cardinality(S) |-> CHOOSE e \in S : Cardinality({d \in S : before(d, e)}) = k - 1]

FillRuns(f, s, rest, colour) ==
    FoldLeft(LAMBDA h, run : [g     |-> Painted(h.g, (run[1] .. run[2]) \X {s.y}, colour),
                              stack |-> PushAround(h.stack, s, run)],
             [g |-> f.g, stack |-> rest],
             InOrder(Runs(f.g.canvas, s.y, s.left, s.right, colour), LAMBDA a, b : a[1] < b[1]))

\* The run around the start point is worked up from the line above it and down from
\* the line below it.
FillStart(g, y, run, colour) ==
    [g     |-> Painted(g, (run[1] .. run[2]) \X {y}, colour),
     stack |-> Push(Push(<<>>, Span(y - 1, run[1], run[2], -1)), Span(y + 1, run[1], run[2], 1))]

FillStep(h, colour) ==
    IF h.stack = <<>> THEN h ELSE FillRuns(h, Last(h.stack), Front(h.stack), colour)
FillLimit == SCREEN_WIDTH * SCREEN_HEIGHT    \* more spans than any fill takes

screen_gfx_fill(g, x, y, colour) ==
    IF <<x, y>> \notin Pixels THEN g
    ELSE IF g.canvas[<<x, y>>] = colour THEN g
    ELSE FoldLeft(LAMBDA h, i : FillStep(h, colour),
                  FillStart(g, y, CHOOSE r \in Runs(g.canvas, y, x, x, colour) : TRUE, colour),
                  [i \in 1 .. FillLimit |-> i]).g

-----------------------------------------------------------------------------
(* Sending the canvas to the LCD.                                            *)

\* The pixels of the canvas that the mode leaves to it.
Visible(mode) ==
    {p \in Pixels : \/ mode = "GFX"
                    \/ mode = "SPLIT" /\ p[2] < SCREEN_SPLIT_GFX_HEIGHT}

screen_gfx_blit_dirty(g) ==
    LET sent == SpanPixels(g.tiles) \cap Visible(g.mode)
    IN  IF g.mode = "TXT" THEN g
        ELSE [g EXCEPT !.panel = [p \in Pixels |-> IF p \in sent THEN g.palette[compose_row(g, p)]
                                                   ELSE @[p]],
                       !.tiles = dirty_tiles_clear,
                       !.recent = @ \/ sent # {}]

\* Within a frame's time of the last blit nothing is sent, but stays dirty.
screen_gfx_update(g) ==
    IF g.auto /\ dirty_tiles_any(g.tiles) /\ ~g.recent THEN screen_gfx_blit_dirty(g) ELSE g
screen_gfx_flush(g) ==
    IF g.auto /\ dirty_tiles_any(g.tiles) THEN screen_gfx_blit_dirty(g) ELSE g
screen_gfx_present(g) ==
    IF dirty_tiles_any(g.tiles) THEN screen_gfx_blit_dirty(g) ELSE g

screen_gfx_set_refresh_auto(g, auto) ==
    LET set == [g EXCEPT !.auto = auto]
    IN  IF auto /\ ~g.auto THEN screen_gfx_present(set) ELSE set

\* Mutant: the LCD is wiped at once whatever the refresh.
ClearAtOnce(g) ==
    LET wiped == [g EXCEPT !.canvas = EmptyCanvas,
                           !.panel = [p \in Pixels |-> IF p \in Visible(g.mode)
                               THEN g.palette[GFX_DEFAULT_BACKGROUND] ELSE @[p]],
                           !.tiles = dirty_tiles_clear]
    IN  FoldSet(LAMBDA id, acc : IF g.sprites[id].visible THEN sprite_mark(acc, g.sprites[id])
                                 ELSE acc,
                wiped, Sprites)

\* In automatic refresh the LCD is wiped at once, and is then in step with the
\* canvas; in manual refresh the wipe waits for the next present, as all drawing
\* does.  The sprites lay on what was wiped.
screen_gfx_clear(g) ==
    LET wiped == [g EXCEPT !.canvas = EmptyCanvas,
                           !.panel = [p \in Pixels |->
                               IF g.auto /\ p \in Visible(g.mode)
                               THEN g.palette[GFX_DEFAULT_BACKGROUND] ELSE @[p]],
                           !.tiles = IF g.auto THEN dirty_tiles_clear ELSE dirty_tiles_mark_all]
    IN  FoldSet(LAMBDA id, acc : IF g.sprites[id].visible THEN sprite_mark(acc, g.sprites[id])
                                 ELSE acc,
                wiped, Sprites)

\* A picture that was saved: its palette and its canvas.  A file that ends too
\* soon leaves its palette and what canvas it had, and marks nothing.
screen_gfx_load(g, picture) ==
    LET read == [g EXCEPT !.palette = picture.palette, !.canvas = picture.canvas]
    IN  IF picture.whole THEN screen_gfx_mark_all_dirty(read) ELSE read
=============================================================================
