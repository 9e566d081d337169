----------------------------- MODULE DirtyTiles -----------------------------
(***************************************************************************)
(* dirty_tiles.c: which parts of the canvas the LCD does not show yet.     *)
(* The canvas is cut into square tiles; each row of tiles remembers one    *)
(* span of dirty columns, the hull of everything marked in it.             *)
(***************************************************************************)
EXTENDS Integers, FiniteSetsExt

CONSTANTS SCREEN_WIDTH, SCREEN_HEIGHT,  \* the canvas, in pixels
          DIRTY_TILE_SIZE               \* the side of a tile

ASSUME TileAssumption ==
    /\ DIRTY_TILE_SIZE \in Nat \ {0}
    /\ SCREEN_WIDTH \in Nat \ {0} /\ SCREEN_WIDTH % DIRTY_TILE_SIZE = 0
    /\ SCREEN_HEIGHT \in Nat \ {0} /\ SCREEN_HEIGHT % DIRTY_TILE_SIZE = 0

Xs == 0 .. SCREEN_WIDTH - 1
Ys == 0 .. SCREEN_HEIGHT - 1
Pixels == Xs \X Ys

TileCols == 0 .. (SCREEN_WIDTH \div DIRTY_TILE_SIZE) - 1
TileRows == 0 .. (SCREEN_HEIGHT \div DIRTY_TILE_SIZE) - 1

\* The span of a clean row lies to the right of its own end: nothing is in it.
NoSpan == [min |-> Cardinality(TileCols), max |-> -1]
Spans  == [TileRows -> [min : TileCols, max : TileCols] \cup {NoSpan}]

dirty_tiles_clear    == [r \in TileRows |-> NoSpan]
dirty_tiles_mark_all == [r \in TileRows |-> [min |-> 0, max |-> Max(TileCols)]]

Least(a, b)    == IF a < b THEN a ELSE b
Greatest(a, b) == IF a > b THEN a ELSE b

\* The hull of a row's span and the tile columns from a to b.
Widen(span, a, b) == [min |-> Least(span.min, a), max |-> Greatest(span.max, b)]

\* Marking the pixels (x0, y0) to (x1, y1), clamped to the canvas.
dirty_tiles_mark_rect(dt, x0, y0, x1, y1) ==
    LET l == Greatest(x0, 0)
        t == Greatest(y0, 0)
        r == Least(x1, SCREEN_WIDTH - 1)
        b == Least(y1, SCREEN_HEIGHT - 1)
    IN  IF l > r \/ t > b THEN dt
        ELSE [row \in TileRows |->
                 IF row \in (t \div DIRTY_TILE_SIZE) .. (b \div DIRTY_TILE_SIZE)
                 THEN Widen(dt[row], l \div DIRTY_TILE_SIZE, r \div DIRTY_TILE_SIZE)
                 ELSE dt[row]]

\* Mutant: a rectangle that wraps is marked up to the edge only.
SegmentsToEdge(v, n, max) ==
    {<<v % max, Least((v % max) + n, max) - 1>>}

\* The pieces of n cells from v on an axis of max cells that wraps around.
Segments(v, n, max) ==
    LET start == IF n > max THEN 0 ELSE v % max
        count == Least(n, max)
    IN  IF start + count <= max
        THEN {<<start, start + count - 1>>}
        ELSE {<<start, max - 1>>, <<0, start + count - max - 1>>}

dirty_tiles_mark_rect_wrap(dt, x, y, w, h) ==
    IF w <= 0 \/ h <= 0 THEN dt
    ELSE FoldSet(LAMBDA s, acc : dirty_tiles_mark_rect(acc, s[1][1], s[2][1],
                                                            s[1][2], s[2][2]),
                 dt,
                 Segments(x, w, SCREEN_WIDTH) \X Segments(y, h, SCREEN_HEIGHT))

dirty_tiles_any(dt) == \E r \in TileRows : dt[r] # NoSpan

\* The pixels of the dirty spans: what dirty_tiles_next_span yields, in all.
SpanPixels(dt) ==
    {p \in Pixels : LET span == dt[p[2] \div DIRTY_TILE_SIZE]
                    IN  p[1] \div DIRTY_TILE_SIZE \in span.min .. span.max}
=============================================================================
