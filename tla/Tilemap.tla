------------------------------- MODULE Tilemap --------------------------------
(***************************************************************************)
(* tilemap.c and primitives_tilemap.c: a bank of square tiles captured     *)
(* from the canvas, a map of cells that name tiles, and the baking of the  *)
(* map into the canvas.  The map is drawn from the top left corner of the  *)
(* screen, and repeats.  Adds to the record g: tilemap.                    *)
(***************************************************************************)
EXTENDS Demons

CONSTANTS TILE_SIZES,           \* the sizes newtiles takes
          TILEMAP_MAX_SLOTS, TILE_MAP_SIZE

ASSUME SizeAssumption == TILE_SIZES \subseteq Nat \ {0}

TileSlots == 1 .. TILEMAP_MAX_SLOTS - 1
NoTile == <<>>

tilemap_reset ==
    [size |-> 0, bank |-> [s \in TileSlots |-> NoTile], cols |-> 0, rows |-> 0, cells |-> <<>>]

tilemap_new_tiles(g, size) ==
    [g EXCEPT !.tilemap.size = size, !.tilemap.bank = [s \in TileSlots |-> NoTile]]

tilemap_new_map(g, cols, rows) ==
    IF cols > TILE_MAP_SIZE \div rows THEN [g EXCEPT !.ok = FALSE]
    ELSE [g EXCEPT !.tilemap.cols = cols, !.tilemap.rows = rows,
                   !.tilemap.cells = [c \in (0 .. cols - 1) \X (0 .. rows - 1) |-> 0]]

\* The canvas around the first turtle, verbatim; without a bank there is no slot.
prim_snaptile(g, slot) ==
    LET t == g.turtles[Min(g.active)]
        n == g.tilemap.size
    IN  IF n = 0 THEN [g EXCEPT !.ok = FALSE]
        ELSE select_first_active([g EXCEPT !.tilemap.bank[slot] =
                 screen_gfx_snap(g, t.x - (n \div 2), t.y - (n \div 2), n, n)])

\* Columns and rows are counted from 1.
prim_settile(g, col, row, slot) ==
    IF <<col - 1, row - 1>> \notin DOMAIN g.tilemap.cells THEN [g EXCEPT !.ok = FALSE]
    ELSE [g EXCEPT !.tilemap.cells[<<col - 1, row - 1>>] = slot]

\* What the map shows at a pixel: the background where its cell has no tile.
Sampled(m, background, p) ==
    LET tile == m.cells[<<(p[1] \div m.size) % m.cols, (p[2] \div m.size) % m.rows>>]
    IN  IF tile = 0 THEN background
        ELSE IF m.bank[tile] = NoTile THEN background
        ELSE m.bank[tile][(p[2] % m.size) * m.size + (p[1] % m.size)]

tilemap_fill_row(g, x, y, w) ==
    [i \in 1 .. w |-> Sampled(g.tilemap, g.background, <<x + i - 1, y>>)]

bake_rect(g, x, y, w, h) ==
    FoldLeft(LAMBDA b, r : screen_gfx_write_row(b, x, y + r, tilemap_fill_row(b, x, y + r, w)),
             g, [i \in 1 .. h |-> i - 1])
BakeReady(g) == g.tilemap.size > 0 /\ g.tilemap.cols > 0

prim_stampmap(g) == IF BakeReady(g) THEN bake_rect(g, 0, 0, SCREEN_WIDTH, SCREEN_HEIGHT) ELSE g

\* Mutant: the first copy of the cell only.
FirstCopy(first, step, limit) == {first}

\* Every copy of one cell: a map smaller than the screen shows it more than once.
Copies(first, step, limit) == {v \in first .. limit - 1 : (v - first) % step = 0}

prim_stamptile(g, col, row) ==
    LET n == g.tilemap.size
        Bake(b, at) == bake_rect(b, at[1], at[2], Least(n, SCREEN_WIDTH - at[1]),
                                                  Least(n, SCREEN_HEIGHT - at[2]))
    IN  IF <<col - 1, row - 1>> \notin DOMAIN g.tilemap.cells THEN [g EXCEPT !.ok = FALSE]
        ELSE IF ~BakeReady(g) THEN g
        ELSE FoldSet(LAMBDA at, b : Bake(b, at), g,
                     Copies((col - 1) * n, g.tilemap.cols * n, SCREEN_WIDTH)
                         \X Copies((row - 1) * n, g.tilemap.rows * n, SCREEN_HEIGHT))
=============================================================================
