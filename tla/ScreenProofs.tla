----------------------------- MODULE ScreenProofs -----------------------------
(***************************************************************************)
(* Proofs about Screen, for every size of the screen and its tiles, every  *)
(* number of turtles, demons and shapes, and every program.  What draws    *)
(* leaves the clocks, the tables and the addressing alone; the calls still *)
(* to come fit what takes them, and one that selects the lowest turtle of  *)
(* the set again stands before any that could do without it.               *)
(***************************************************************************)
EXTENDS Screen, SequenceTheorems, FiniteSetTheorems, WellFoundedInduction, TLAPS

\* The fields that say when things move, and whom a command addresses.
Framed == {"now", "alive", "credited", "frozen", "suspended", "have_ticked", "last_tick", "sync",
           "demons", "tilemap", "active", "astray", "current", "ok"}
Formed(g) == Framed \subseteq DOMAIN g

Steady(g, h) ==
    /\ DOMAIN h = DOMAIN g
    /\ h.now = g.now /\ h.alive = g.alive /\ h.credited = g.credited /\ h.frozen = g.frozen
    /\ h.suspended = g.suspended /\ h.have_ticked = g.have_ticked /\ h.last_tick = g.last_tick
    /\ h.sync = g.sync /\ h.demons = g.demons /\ h.tilemap = g.tilemap
    /\ h.active = g.active /\ h.astray = g.astray
Still(g, h) == Steady(g, h) /\ h.current = g.current
Calm(g, h) == Still(g, h) /\ h.ok = g.ok

LEMMA CalmTwice ==
  ASSUME NEW f, NEW g, NEW h, Calm(f, g), Calm(g, h)
  PROVE  Calm(f, h)
BY DEF Calm, Still, Steady

LEMMA MarkAllCalm ==
  ASSUME NEW g, Formed(g)
  PROVE  Calm(g, screen_gfx_mark_all_dirty(g))
BY DEF Calm, Still, Steady, Formed, Framed, screen_gfx_mark_all_dirty

LEMMA MarkRectCalm ==
  ASSUME NEW g, Formed(g), NEW x, NEW y, NEW x1, NEW y1
  PROVE  Calm(g, screen_gfx_mark_dirty_rect(g, x, y, x1, y1))
BY DEF Calm, Still, Steady, Formed, Framed, screen_gfx_mark_dirty_rect

LEMMA MarkBoxCalm ==
  ASSUME NEW g, Formed(g), NEW x, NEW y, NEW w, NEW h
  PROVE  Calm(g, MarkBox(g, x, y, w, h))
BY DEF Calm, Still, Steady, Formed, Framed, MarkBox

LEMMA SpriteSetCalm ==
  ASSUME NEW g, Formed(g), NEW id, NEW sprite
  PROVE  Calm(g, screen_sprite_set(g, id, sprite))
<1> DEFINE old == IF g.sprites[id].visible THEN sprite_mark(g, g.sprites[id]) ELSE g
           set == [old EXCEPT !.sprites[id] = sprite]
<1>1. Calm(g, g)
  BY DEF Calm, Still, Steady
<1>2. Calm(g, old)
  BY <1>1, MarkBoxCalm DEF sprite_mark
<1>3. Formed(old)
  BY <1>2 DEF Calm, Still, Steady, Formed
<1> HIDE DEF old
<1>4. Calm(old, set) /\ Formed(set)
  BY <1>3 DEF Calm, Still, Steady, Formed, Framed
<1> HIDE DEF set
<1>5. Calm(set, sprite_mark(set, sprite))
  BY <1>4, MarkBoxCalm DEF sprite_mark
<1>6. screen_sprite_set(g, id, sprite) = sprite_mark(set, sprite)
  BY DEF screen_sprite_set, old, set
<1>7. QED BY <1>2, <1>4, <1>5, <1>6, CalmTwice

LEMMA BlitCalm ==
  ASSUME NEW g, Formed(g)
  PROVE  Calm(g, screen_gfx_blit_dirty(g))
BY DEF Calm, Still, Steady, Formed, Framed, screen_gfx_blit_dirty

-----------------------------------------------------------------------------
(* Folds.  A fold is a function defined by recursion on the set of what is   *)
(* left to do.  That there is such a function, and that it keeps what each   *)
(* step keeps, follow by the least size of a set for which it would fail.    *)
(* The eight folds are told apart by a name, so that this is proved once.    *)

StepOf(k, par, acc, x) ==
  IF k = "mark" THEN dirty_tiles_mark_rect(acc, x[1][1], x[2][1], x[1][2], x[2][2])
  ELSE IF k = "clear" THEN IF par.sprites[x].visible THEN sprite_mark(acc, par.sprites[x]) ELSE acc
  ELSE IF k = "wear" THEN Refreshed([acc EXCEPT !.turtles[x].raster.valid = FALSE], x)
  ELSE IF k = "stop" THEN turtle_set_anim(turtle_set_speed(turtle_op_select(acc, x), 0), 0, 0, 0)
  ELSE IF k = "tile" THEN bake_rect(acc, x[1], x[2], Least(par, SCREEN_WIDTH - x[1]),
                                                     Least(par, SCREEN_HEIGHT - x[2]))
  ELSE IF k = "row" THEN screen_gfx_write_row(acc, par[1], par[2] + par[4][x],
                             tilemap_fill_row(acc, par[1], par[2] + par[4][x], par[3]))
  ELSE IF k = "runs"
  THEN [g     |-> Painted(acc.g, (par[4][x][1] .. par[4][x][2]) \X {par[1].y}, par[3]),
        stack |-> PushAround(acc.stack, par[1], par[4][x])]
  ELSE FillStep(acc, par)

ByPlace(k) == k \in {"row", "runs", "fill"}
Pick(k, s) == IF ByPlace(k) THEN Max(s) ELSE CHOOSE x \in s : TRUE

FoldEq(k, par, base, D, it) ==
  it = [s \in D |-> IF s = {} THEN base
                    ELSE StepOf(k, par, it[s \ {Pick(k, s)}], Pick(k, s))]
Fold(k, par, base, S) == (CHOOSE it : FoldEq(k, par, base, SUBSET S, it))[S]

\* What is kept from g by the state that has been folded so far.
Kept(k, g, acc) ==
  CASE k \in {"clear", "tile", "row"} -> Calm(g, acc)
    [] k \in {"wear", "stop"} -> Steady(g, acc) /\ acc.ok = g.ok
    [] k \in {"runs", "fill"} -> Calm(g, acc.g)

Within(S, n) == {p \in SUBSET S : Cardinality(p) <= n}

LEMMA LeastOf ==
  ASSUME NEW S \in SUBSET Nat, S # {}
  PROVE  \E m \in S : \A x \in S : m <= x
<1>1. IsWellFoundedOn(OpToRel(<, Nat), Nat)
  BY NatLessThanWellFounded
<1>2. PICK m \in S : \A x \in S : ~ (<<x, m>> \in OpToRel(<, Nat))
  BY <1>1, WFMin
<1>3. ASSUME NEW x \in S PROVE m <= x
  <2>1. x \in Nat /\ m \in Nat
    OBVIOUS
  <2>2. ~ (x < m)
    BY <1>2, <2>1 DEF OpToRel
  <2>3. QED BY <2>1, <2>2
<1>4. QED BY <1>3

LEMMA Parts ==
  ASSUME NEW S, IsFiniteSet(S), NEW p \in SUBSET S
  PROVE  /\ IsFiniteSet(p) /\ Cardinality(p) \in Nat /\ Cardinality(p) <= Cardinality(S)
         /\ Cardinality(S) \in Nat
         /\ \A x \in p : Cardinality(p \ {x}) = Cardinality(p) - 1
<1>1. IsFiniteSet(p)
  BY FS_Subset
<1>2. Cardinality(p) \in Nat /\ Cardinality(S) \in Nat
  BY <1>1, FS_CardinalityType
<1>3. \A x \in p : Cardinality(p \ {x}) = Cardinality(p) - 1
  BY <1>1, FS_RemoveElement
<1>4. Cardinality(p) <= Cardinality(S)
  BY FS_Subset
<1>5. QED BY <1>1, <1>2, <1>3, <1>4

LEMMA FoldExists ==
  ASSUME NEW k, NEW par, NEW base, NEW S, IsFiniteSet(S),
         \A s \in SUBSET S : s # {} => Pick(k, s) \in s
  PROVE  \E it : FoldEq(k, par, base, SUBSET S, it)
<1> DEFINE Good == {i \in Nat : \E it : FoldEq(k, par, base, Within(S, i), it)}
           Bad == Nat \ Good
<1>1. 0 \in Good
  <2> DEFINE it == [s \in Within(S, 0) |-> base]
  <2>1. \A s \in Within(S, 0) : s = {}
    <3>1. ASSUME NEW s \in Within(S, 0) PROVE s = {}
      <4>1. s \in SUBSET S /\ IsFiniteSet(s) /\ Cardinality(s) \in Nat /\ Cardinality(s) <= 0
        BY Parts DEF Within
      <4>2. Cardinality(s) = 0
        BY <4>1
      <4>3. QED BY <4>1, <4>2, FS_EmptySet
    <3>2. QED BY <3>1
  <2>2. FoldEq(k, par, base, Within(S, 0), it)
    BY <2>1, Zenon DEF FoldEq
  <2>3. QED BY <2>2
<1>2. ASSUME NEW i \in Nat, i \in Good PROVE i + 1 \in Good
  <2>1. PICK it : FoldEq(k, par, base, Within(S, i), it)
    BY <1>2
  <2> DEFINE more == [s \in Within(S, i + 1) |->
                        IF s = {} THEN base ELSE StepOf(k, par, it[s \ {Pick(k, s)}], Pick(k, s))]
  <2>2. ASSUME NEW s \in Within(S, i + 1), s # {}
        PROVE  s \ {Pick(k, s)} \in Within(S, i)
    <3>1. s \in SUBSET S /\ Cardinality(s) \in Nat /\ Cardinality(s) <= i + 1
          /\ Cardinality(s \ {Pick(k, s)}) = Cardinality(s) - 1
      BY <2>2, Parts DEF Within
    <3>2. Cardinality(s \ {Pick(k, s)}) <= i
      BY <3>1
    <3>3. QED BY <3>1, <3>2 DEF Within
  <2>3. ASSUME NEW u \in Within(S, i) PROVE more[u] = it[u]
    <3>1. Cardinality(u) \in Nat /\ u \in SUBSET S /\ Cardinality(u) <= i
      BY Parts DEF Within
    <3>2. u \in Within(S, i + 1)
      BY <3>1 DEF Within
    <3>3. it[u] = IF u = {} THEN base ELSE StepOf(k, par, it[u \ {Pick(k, u)}], Pick(k, u))
      BY <2>1, Zenon DEF FoldEq
    <3>4. QED BY <3>2, <3>3, Zenon
  <2>4. \A s \in Within(S, i + 1) :
          (IF s = {} THEN base ELSE StepOf(k, par, it[s \ {Pick(k, s)}], Pick(k, s)))
            = (IF s = {} THEN base ELSE StepOf(k, par, more[s \ {Pick(k, s)}], Pick(k, s)))
    <3> HIDE DEF more
    <3>1. QED BY <2>2, <2>3
  <2>5. FoldEq(k, par, base, Within(S, i + 1), more)
    BY <2>4, Zenon DEF FoldEq
  <2>6. QED BY <2>5
<1>3. \A i \in Nat : i \in Good
  <2> HIDE DEF Good
  <2>1. ASSUME Bad # {} PROVE FALSE
    <3>1. PICK m \in Bad : \A y \in Bad : m <= y
      BY <2>1, LeastOf
    <3>2. m # 0 /\ m - 1 \in Nat /\ ~ (m <= m - 1)
      BY <1>1, <3>1
    <3>3. m - 1 \in Good /\ m - 1 + 1 = m
      BY <3>1, <3>2
    <3>4. QED BY <1>2, <3>1, <3>2, <3>3
  <2>2. QED BY <2>1
<1>4. Cardinality(S) \in Nat
  BY Parts
<1>5. Within(S, Cardinality(S)) = SUBSET S
  BY Parts DEF Within
<1>6. \E it : FoldEq(k, par, base, Within(S, Cardinality(S)), it)
  <2>1. Cardinality(S) \in Good
    <3> HIDE DEF Good
    <3>1. QED BY <1>3, <1>4
  <2>2. QED BY <2>1
<1>7. QED BY <1>5, <1>6, Zenon

\* What every step keeps, the fold keeps.
LEMMA FoldKeeps ==
  ASSUME NEW k, NEW par, NEW base, NEW S, IsFiniteSet(S),
         \A s \in SUBSET S : s # {} => Pick(k, s) \in s,
         NEW g, Kept(k, g, base),
         \A acc : \A x \in S : Kept(k, g, acc) => Kept(k, g, StepOf(k, par, acc, x))
  PROVE  Kept(k, g, Fold(k, par, base, S))
<1>1. PICK it : it = CHOOSE f : FoldEq(k, par, base, SUBSET S, f)
  OBVIOUS
<1>2. FoldEq(k, par, base, SUBSET S, it)
  BY <1>1, FoldExists
<1> DEFINE Bad == {i \in Nat : \E s \in SUBSET S : Cardinality(s) = i /\ ~Kept(k, g, it[s])}
<1>3. ASSUME Bad # {} PROVE FALSE
  <2>1. Bad \in SUBSET Nat
    OBVIOUS
  <2>2. PICK m \in Bad : \A y \in Bad : m <= y
    <3> HIDE DEF Bad
    <3>1. QED BY <1>3, <2>1, LeastOf
  <2>3. PICK s \in SUBSET S : Cardinality(s) = m /\ ~Kept(k, g, it[s])
    BY <2>2
  <2>4. it[s] = IF s = {} THEN base ELSE StepOf(k, par, it[s \ {Pick(k, s)}], Pick(k, s))
    BY <1>2, Zenon DEF FoldEq
  <2>5. s # {}
    BY <2>3, <2>4
  <2> DEFINE q == s \ {Pick(k, s)}
             x == Pick(k, s)
  <2>6. x \in s
    BY <2>5
  <2>7. q \in SUBSET S /\ Cardinality(q) = m - 1 /\ Cardinality(q) \in Nat
    BY <2>3, <2>6, Parts
  <2>8. it[s] = StepOf(k, par, it[q], x)
    BY <2>4, <2>5
  <2> HIDE DEF q, x
  <2>9. ~Kept(k, g, it[q])
    BY <2>3, <2>6, <2>8
  <2>10. Cardinality(q) \in Bad
    BY <2>7, <2>9
  <2> HIDE DEF Bad
  <2>11. m <= Cardinality(q) /\ m \in Nat
    BY <2>1, <2>2, <2>10
  <2>12. QED BY <2>7, <2>11
<1>4. S \in SUBSET S /\ Cardinality(S) \in Nat
  BY Parts
<1>5. Kept(k, g, it[S])
  BY <1>3, <1>4
<1>6. QED BY <1>1, <1>5 DEF Fold

\* The greatest of a set of places.
LEMMA MaxIn ==
  ASSUME NEW n \in Nat, NEW p \in SUBSET (1 .. n), p # {}
  PROVE  Max(p) \in p
<1> DEFINE S == {n - i : i \in p}
<1>1. S \in SUBSET Nat /\ S # {}
  <2>1. \A i \in p : n - i \in Nat
    OBVIOUS
  <2>2. PICK i \in p : TRUE
    OBVIOUS
  <2>3. n - i \in S
    OBVIOUS
  <2>4. QED BY <2>1, <2>3
<1>2. PICK m \in S : \A k \in S : m <= k
  <2> HIDE DEF S
  <2>1. QED BY <1>1, LeastOf
<1>3. PICK i \in p : m = n - i
  BY <1>2
<1>4. ASSUME NEW j \in p PROVE i >= j
  <2>1. n - j \in S
    OBVIOUS
  <2>2. n - i <= n - j /\ i \in Nat /\ j \in Nat
    BY <1>2, <1>3, <2>1
  <2>3. QED BY <2>2
<1>5. QED BY <1>4 DEF Max

\* The places of a list are taken from its end.
LEMMA PicksPlace ==
  ASSUME NEW k, ByPlace(k), NEW n \in Nat
  PROVE  IsFiniteSet(1 .. n) /\ \A s \in SUBSET (1 .. n) : s # {} => Pick(k, s) \in s
<1>1. IsFiniteSet(1 .. n)
  <2>1. 1 \in Int /\ n \in Int
    OBVIOUS
  <2>2. QED BY <2>1, FS_Interval, Zenon
<1>2. QED BY <1>1, MaxIn DEF Pick

LEMMA PicksMember ==
  ASSUME NEW k, ~ByPlace(k), NEW S
  PROVE  \A s \in SUBSET S : s # {} => Pick(k, s) \in s
BY DEF Pick

\* What each of the names stands for.
LEMMA Picks ==
  ASSUME NEW s
  PROVE  /\ Pick("clear", s) = (CHOOSE x \in s : TRUE) /\ Pick("wear", s) = (CHOOSE x \in s : TRUE)
         /\ Pick("stop", s) = (CHOOSE x \in s : TRUE) /\ Pick("tile", s) = (CHOOSE x \in s : TRUE)
         /\ Pick("row", s) = Max(s) /\ Pick("runs", s) = Max(s) /\ Pick("fill", s) = Max(s)
BY DEF Pick, ByPlace

-----------------------------------------------------------------------------
(* What the drawing, the sprites and the LCD leave alone.                    *)

LEMMA CalmFormed ==
  ASSUME NEW g, NEW h, Formed(g), Calm(g, h)
  PROVE  Formed(h)
BY DEF Calm, Still, Steady, Formed

LEMMA CalmSelf ==
  ASSUME NEW g
  PROVE  Calm(g, g)
BY DEF Calm, Still, Steady

LEMMA UpdateCalm ==
  ASSUME NEW g, Formed(g)
  PROVE  Calm(g, screen_gfx_update(g)) /\ Calm(g, screen_gfx_flush(g)) /\ Calm(g, screen_gfx_present(g))
BY BlitCalm, CalmSelf DEF screen_gfx_update, screen_gfx_flush, screen_gfx_present

LEMMA RefreshAutoCalm ==
  ASSUME NEW g, Formed(g), NEW auto
  PROVE  Calm(g, screen_gfx_set_refresh_auto(g, auto))
<1> DEFINE set == [g EXCEPT !.auto = auto]
<1>1. Calm(g, set)
  BY DEF Calm, Still, Steady, Formed, Framed
<1>2. Formed(set)
  BY <1>1, CalmFormed
<1> HIDE DEF set
<1>3. Calm(g, screen_gfx_present(set))
  BY <1>1, <1>2, UpdateCalm, CalmTwice
<1>4. QED BY <1>1, <1>3 DEF screen_gfx_set_refresh_auto, set

LEMMA SpriteCalm ==
  ASSUME NEW g, Formed(g), NEW s
  PROVE  Calm(g, sprite_mark(g, s))
BY MarkBoxCalm DEF sprite_mark

LEMMA HideCalm ==
  ASSUME NEW g, Formed(g), NEW id
  PROVE  Calm(g, screen_sprite_hide(g, id))
<1>1. Calm(g, sprite_mark(g, g.sprites[id]))
  BY SpriteCalm
<1>2. Calm(sprite_mark(g, g.sprites[id]), [sprite_mark(g, g.sprites[id]) EXCEPT !.sprites[id].visible = FALSE])
  BY <1>1, CalmFormed DEF Calm, Still, Steady, Formed, Framed
<1>3. QED BY <1>1, <1>2, CalmTwice, CalmSelf DEF screen_sprite_hide

LEMMA MarkPixelsCalm ==
  ASSUME NEW g, Formed(g), NEW S
  PROVE  Calm(g, MarkPixels(g, S))
BY MarkRectCalm, CalmSelf DEF MarkPixels

\* A change of the canvas, and of what is to be sent of it.
LEMMA CanvasCalm ==
  ASSUME NEW g, Formed(g), NEW canvas
  PROVE  Calm(g, [g EXCEPT !.canvas = canvas]) /\ Formed([g EXCEPT !.canvas = canvas])
BY DEF Calm, Still, Steady, Formed, Framed

LEMMA PaintedCalm ==
  ASSUME NEW g, Formed(g), NEW S, NEW colour
  PROVE  Calm(g, Painted(g, S, colour))
<1> DEFINE canvas == [p \in Pixels |-> IF p \in S THEN colour ELSE g.canvas[p]]
           h == [g EXCEPT !.canvas = canvas]
<1>1. Calm(g, h) /\ Formed(h)
  <2> HIDE DEF canvas
  <2>1. QED BY CanvasCalm
<1>2. Painted(g, S, colour) = MarkPixels(h, S)
  BY DEF Painted
<1> HIDE DEF h
<1>3. QED BY <1>1, <1>2, MarkPixelsCalm, CalmTwice

LEMMA LineCalm ==
  ASSUME NEW g, Formed(g), NEW points, NEW colour, NEW reverse, NEW width
  PROVE  Calm(g, screen_gfx_line(g, points, colour, reverse, width))
<1> DEFINE canvas == Reversed(g.canvas, [i \in DOMAIN points |-> Landing(g, points[i][1], points[i][2])], colour)
           h == [g EXCEPT !.canvas = canvas]
<1>1. Calm(g, h) /\ Formed(h)
  <2> HIDE DEF canvas
  <2>1. QED BY CanvasCalm
<1>2. screen_gfx_line(g, points, colour, reverse, width)
        = IF ~reverse THEN Painted(g, Plotted(g, points, width), colour)
          ELSE MarkPixels(h, Plotted(g, points, 1))
  BY DEF screen_gfx_line
<1> HIDE DEF h
<1>3. QED BY <1>1, <1>2, PaintedCalm, MarkPixelsCalm, CalmTwice

LEMMA TextCalm ==
  ASSUME NEW g, Formed(g), NEW x, NEW y, NEW n, NEW colour
  PROVE  Calm(g, screen_gfx_text(g, x, y, n, colour))
BY PaintedCalm, Zenon DEF screen_gfx_text

LEMMA StampCalm ==
  ASSUME NEW g, Formed(g), NEW s, NEW raster
  PROVE  Calm(g, screen_gfx_stamp(g, s, raster))
<1> DEFINE canvas == [p \in Pixels |-> IF Covers(g, s, raster, p) THEN InkAt(g, s, raster, p)
                                       ELSE g.canvas[p]]
           h == [g EXCEPT !.canvas = canvas]
<1>1. Calm(g, h) /\ Formed(h)
  <2> HIDE DEF canvas
  <2>1. QED BY CanvasCalm
<1>2. screen_gfx_stamp(g, s, raster) = MarkBox(h, s.x, s.y, s.w, s.h)
  BY DEF screen_gfx_stamp
<1> HIDE DEF h
<1>3. QED BY <1>1, <1>2, MarkBoxCalm, CalmTwice

LEMMA WriteRowCalm ==
  ASSUME NEW g, Formed(g), NEW x, NEW y, NEW pixels
  PROVE  Calm(g, screen_gfx_write_row(g, x, y, pixels))
<1> DEFINE run == {i \in 1 .. Len(pixels) : <<x + i - 1, y>> \in Pixels}
           canvas == [p \in Pixels |-> IF p[2] = y /\ p[1] - x + 1 \in run THEN pixels[p[1] - x + 1]
                                       ELSE g.canvas[p]]
           h == [g EXCEPT !.canvas = canvas]
<1>1. Calm(g, h) /\ Formed(h)
  <2> HIDE DEF canvas
  <2>1. QED BY CanvasCalm
<1>2. screen_gfx_write_row(g, x, y, pixels)
        = IF run = {} THEN g
          ELSE screen_gfx_mark_dirty_rect(h, x + Min(run) - 1, y, x + Max(run) - 1, y)
  BY DEF screen_gfx_write_row
<1> HIDE DEF h, run
<1>3. QED BY <1>1, <1>2, MarkRectCalm, CalmTwice, CalmSelf

LEMMA LoadCalm ==
  ASSUME NEW g, Formed(g), NEW picture
  PROVE  Calm(g, screen_gfx_load(g, picture))
<1> DEFINE read == [g EXCEPT !.palette = picture.palette, !.canvas = picture.canvas]
<1>1. Calm(g, read)
  BY DEF Calm, Still, Steady, Formed, Framed
<1>2. Formed(read)
  BY <1>1, CalmFormed
<1>3. screen_gfx_load(g, picture) = IF picture.whole THEN screen_gfx_mark_all_dirty(read) ELSE read
  BY DEF screen_gfx_load
<1> HIDE DEF read
<1>4. QED BY <1>1, <1>2, <1>3, MarkAllCalm, CalmTwice

-----------------------------------------------------------------------------
(* The folds of the canvas.                                                  *)

LEMMA FiniteRange ==
  ASSUME NEW n \in Int
  PROVE  IsFiniteSet(0 .. n - 1) /\ IsFiniteSet(1 .. n)
<1>1. 0 \in Int /\ 1 \in Int /\ n - 1 \in Int
  OBVIOUS
<1>2. QED BY <1>1, FS_Interval, Zenon

Wiped(g) ==
  [g EXCEPT !.canvas = EmptyCanvas,
            !.panel = [p \in Pixels |-> IF g.auto /\ p \in Visible(g.mode)
                                        THEN g.palette[GFX_DEFAULT_BACKGROUND] ELSE @[p]],
            !.tiles = IF g.auto THEN dirty_tiles_clear ELSE dirty_tiles_mark_all]

LEMMA ClearIs ==
  ASSUME NEW g
  PROVE  screen_gfx_clear(g) = Fold("clear", g, Wiped(g), Sprites)
<1> DEFINE Onward(acc, x) == IF g.sprites[x].visible THEN sprite_mark(acc, g.sprites[x]) ELSE acc
           Body(it, s) == LET x == CHOOSE y \in s : TRUE IN Onward(it[s \ {x}], x)
           Eq(it) == it = [s \in SUBSET Sprites |-> IF s = {} THEN Wiped(g) ELSE Body(it, s)]
<1>1. \A it : FoldEq("clear", g, Wiped(g), SUBSET Sprites, it) <=> Eq(it)
  <2>1. ASSUME NEW it, NEW s
        PROVE  StepOf("clear", g, it[s \ {Pick("clear", s)}], Pick("clear", s)) = Body(it, s)
    <3>1. PICK x : x = CHOOSE y \in s : TRUE
      OBVIOUS
    <3>2. Pick("clear", s) = x
      BY <3>1, Picks
    <3>3. \A acc : StepOf("clear", g, acc, x) = Onward(acc, x)
      BY DEF StepOf
    <3> HIDE DEF Onward
    <3>4. Body(it, s) = Onward(it[s \ {x}], x)
      BY <3>1
    <3> HIDE DEF Body
    <3>5. QED BY <3>2, <3>3, <3>4
  <2> HIDE DEF Body
  <2>2. QED BY <2>1, Zenon DEF FoldEq
<1>2. (CHOOSE it : FoldEq("clear", g, Wiped(g), SUBSET Sprites, it)) = (CHOOSE it : Eq(it))
  <2> HIDE DEF Eq
  <2>1. QED BY <1>1, Zenon
<1>3. screen_gfx_clear(g) = (CHOOSE it : Eq(it))[Sprites]
  BY Zenon DEF screen_gfx_clear, FoldSet, MapThenFoldSet, Wiped
<1>4. QED BY <1>2, <1>3, Zenon DEF Fold

LEMMA ClearCalm ==
  ASSUME NEW g, Formed(g)
  PROVE  Calm(g, screen_gfx_clear(g))
<1>1. IsFiniteSet(Sprites)
  <2>1. SCREEN_MAX_SPRITES \in Int
    BY SpriteAssumption
  <2>2. QED BY <2>1, FiniteRange, Zenon DEF Sprites
<1>2. Calm(g, Wiped(g))
  BY DEF Calm, Still, Steady, Formed, Framed, Wiped
<1>3. Kept("clear", g, Wiped(g))
  BY <1>2 DEF Kept
<1>4. ASSUME NEW acc, NEW x \in Sprites, Kept("clear", g, acc)
      PROVE  Kept("clear", g, StepOf("clear", g, acc, x))
  <2>1. Calm(g, acc) /\ Formed(acc)
    BY <1>4, CalmFormed DEF Kept
  <2>2. Calm(g, sprite_mark(acc, g.sprites[x]))
    BY <2>1, SpriteCalm, CalmTwice
  <2>3. Calm(g, StepOf("clear", g, acc, x))
    BY <2>1, <2>2 DEF StepOf
  <2>4. QED BY <2>3 DEF Kept
<1>5. \A s \in SUBSET Sprites : s # {} => Pick("clear", s) \in s
  BY PicksMember DEF ByPlace
<1>6. Kept("clear", g, Fold("clear", g, Wiped(g), Sprites))
  BY <1>1, <1>3, <1>4, <1>5, FoldKeeps
<1>7. QED BY <1>6, ClearIs DEF Kept

BakeBase(x, y, w, h) == <<x, y, w, [i \in 1 .. h |-> i - 1]>>

LEMMA RowsIs ==
  ASSUME NEW g, NEW x0, NEW y, NEW w, NEW seq
  PROVE  FoldLeft(LAMBDA b, r : screen_gfx_write_row(b, x0, y + r, tilemap_fill_row(b, x0, y + r, w)),
                  g, seq)
           = Fold("row", <<x0, y, w, seq>>, g, DOMAIN seq)
<1>1. PICK par : par = <<x0, y, w, seq>>
  OBVIOUS
<1>2. par[1] = x0 /\ par[2] = y /\ par[3] = w /\ par[4] = seq
  BY <1>1
<1> DEFINE Onward(acc, x) == screen_gfx_write_row(acc, x0, y + seq[x],
                               tilemap_fill_row(acc, x0, y + seq[x], w))
           Body(it, s) == LET x == Max(s) IN Onward(it[s \ {x}], x)
           Eq(it) == it = [s \in SUBSET (DOMAIN seq) |-> IF s = {} THEN g ELSE Body(it, s)]
<1>3. \A it : FoldEq("row", par, g, SUBSET (DOMAIN seq), it) <=> Eq(it)
  <2>1. ASSUME NEW it, NEW s
        PROVE  StepOf("row", par, it[s \ {Pick("row", s)}], Pick("row", s)) = Body(it, s)
    <3>1. PICK x : x = Max(s)
      OBVIOUS
    <3>2. Pick("row", s) = x
      BY <3>1, Picks
    <3>3. \A acc : StepOf("row", par, acc, x) = Onward(acc, x)
      BY <1>2 DEF StepOf
    <3> HIDE DEF Onward
    <3>4. Body(it, s) = Onward(it[s \ {x}], x)
      BY <3>1
    <3> HIDE DEF Body
    <3>5. QED BY <3>2, <3>3, <3>4
  <2> HIDE DEF Body
  <2>2. QED BY <2>1, Zenon DEF FoldEq
<1>4. (CHOOSE it : FoldEq("row", par, g, SUBSET (DOMAIN seq), it)) = (CHOOSE it : Eq(it))
  <2> HIDE DEF Eq
  <2>1. QED BY <1>3, Zenon
<1>5. FoldLeft(LAMBDA b, r : screen_gfx_write_row(b, x0, y + r, tilemap_fill_row(b, x0, y + r, w)),
               g, seq)
        = (CHOOSE it : Eq(it))[(DOMAIN seq)]
  BY Zenon DEF FoldLeft, MapThenFoldSet
<1>6. QED BY <1>1, <1>4, <1>5, Zenon DEF Fold

LEMMA BakeIs ==
  ASSUME NEW g, NEW x, NEW y, NEW w, NEW h
  PROVE  bake_rect(g, x, y, w, h) = Fold("row", BakeBase(x, y, w, h), g, 1 .. h)
<1> DEFINE seq == [i \in 1 .. h |-> i - 1]
<1>1. DOMAIN seq = 1 .. h
  OBVIOUS
<1>2. bake_rect(g, x, y, w, h)
        = FoldLeft(LAMBDA b, r : screen_gfx_write_row(b, x, y + r, tilemap_fill_row(b, x, y + r, w)), g, seq)
  BY Zenon DEF bake_rect
<1>3. BakeBase(x, y, w, h) = <<x, y, w, seq>>
  BY Zenon DEF BakeBase
<1> HIDE DEF seq
<1>4. FoldLeft(LAMBDA b, r : screen_gfx_write_row(b, x, y + r, tilemap_fill_row(b, x, y + r, w)), g, seq)
        = Fold("row", <<x, y, w, seq>>, g, DOMAIN seq)
  BY RowsIs, ZenonT(40)
<1>5. QED BY <1>1, <1>2, <1>3, <1>4, Zenon

LEMMA BakeCalm ==
  ASSUME NEW g, Formed(g), NEW x, NEW y, NEW w, NEW h \in Int
  PROVE  Calm(g, bake_rect(g, x, y, w, h))
<1> DEFINE par == BakeBase(x, y, w, h)
<1>1. IsFiniteSet(1 .. h)
  BY FiniteRange
<1>2. \A s \in SUBSET (1 .. h) : s # {} => Pick("row", s) \in s
  <2>1. CASE h \in Nat
    BY <2>1, PicksPlace DEF ByPlace
  <2>2. CASE h \notin Nat
    <3>1. 1 .. h = {}
      BY <2>2
    <3>2. QED BY <3>1
  <2>3. QED BY <2>1, <2>2
<1>3. Kept("row", g, g)
  BY CalmSelf DEF Kept
<1> HIDE DEF par
<1>4. ASSUME NEW acc, NEW i \in 1 .. h, Kept("row", g, acc)
      PROVE  Kept("row", g, StepOf("row", par, acc, i))
  <2>1. Calm(g, acc) /\ Formed(acc)
    BY <1>4, CalmFormed DEF Kept
  <2>2. Calm(g, StepOf("row", par, acc, i))
    BY <2>1, WriteRowCalm, CalmTwice DEF StepOf
  <2>3. QED BY <2>2 DEF Kept
<1>5. Kept("row", g, Fold("row", par, g, 1 .. h))
  BY <1>1, <1>2, <1>3, <1>4, FoldKeeps
<1>6. QED BY <1>5, BakeIs DEF Kept, par

\* One line of a fill.
RunsAt(f, s, colour) == InOrder(Runs(f.g.canvas, s.y, s.left, s.right, colour), LAMBDA a, b : a[1] < b[1])

LEMMA RunsFinite ==
  ASSUME NEW f, NEW s, NEW colour
  PROVE  \E n \in Nat : DOMAIN RunsAt(f, s, colour) = 1 .. n
<1> DEFINE R == Runs(f.g.canvas, s.y, s.left, s.right, colour)
<1>1. IsFiniteSet(Xs)
  <2>1. SCREEN_WIDTH \in Int
    BY TileAssumption
  <2>2. QED BY <2>1, FiniteRange, Zenon DEF Xs
<1>2. IsFiniteSet(Xs \X Xs)
  BY <1>1, FS_Product
<1>3. R \in SUBSET (Xs \X Xs)
  BY DEF Runs
<1> HIDE DEF R
<1>4. Cardinality(R) \in Nat
  BY <1>2, <1>3, FS_Subset, FS_CardinalityType
<1>5. DOMAIN RunsAt(f, s, colour) = 1 .. Cardinality(R)
  BY DEF RunsAt, InOrder, R
<1>6. QED BY <1>4, <1>5

LEMMA RunsFoldIs ==
  ASSUME NEW s0, NEW rest, NEW colour, NEW base, NEW seq
  PROVE  FoldLeft(LAMBDA h, run : [g     |-> Painted(h.g, (run[1] .. run[2]) \X {s0.y}, colour),
                                   stack |-> PushAround(h.stack, s0, run)],
                  base, seq)
           = Fold("runs", <<s0, rest, colour, seq>>, base, DOMAIN seq)
<1>1. PICK par : par = <<s0, rest, colour, seq>>
  OBVIOUS
<1>2. par[1] = s0 /\ par[3] = colour /\ par[4] = seq
  BY <1>1
<1> DEFINE Onward(acc, x) == [g     |-> Painted(acc.g, (seq[x][1] .. seq[x][2]) \X {s0.y}, colour),
                             stack |-> PushAround(acc.stack, s0, seq[x])]
           Body(it, s) == LET x == Max(s) IN Onward(it[s \ {x}], x)
           Eq(it) == it = [s \in SUBSET (DOMAIN seq) |-> IF s = {} THEN base ELSE Body(it, s)]
<1>3. \A it : FoldEq("runs", par, base, SUBSET (DOMAIN seq), it) <=> Eq(it)
  <2>1. ASSUME NEW it, NEW s
        PROVE  StepOf("runs", par, it[s \ {Pick("runs", s)}], Pick("runs", s)) = Body(it, s)
    <3>1. PICK x : x = Max(s)
      OBVIOUS
    <3>2. Pick("runs", s) = x
      BY <3>1, Picks
    <3>3. \A acc : StepOf("runs", par, acc, x) = Onward(acc, x)
      BY <1>2 DEF StepOf
    <3> HIDE DEF Onward
    <3>4. Body(it, s) = Onward(it[s \ {x}], x)
      BY <3>1
    <3> HIDE DEF Body
    <3>5. QED BY <3>2, <3>3, <3>4
  <2> HIDE DEF Body
  <2>2. QED BY <2>1, Zenon DEF FoldEq
<1>4. (CHOOSE it : FoldEq("runs", par, base, SUBSET (DOMAIN seq), it)) = (CHOOSE it : Eq(it))
  <2> HIDE DEF Eq
  <2>1. QED BY <1>3, Zenon
<1>5. FoldLeft(LAMBDA h, run : [g     |-> Painted(h.g, (run[1] .. run[2]) \X {s0.y}, colour),
                                   stack |-> PushAround(h.stack, s0, run)],
                  base, seq)
        = (CHOOSE it : Eq(it))[(DOMAIN seq)]
  BY Zenon DEF FoldLeft, MapThenFoldSet
<1>6. QED BY <1>1, <1>4, <1>5, Zenon DEF Fold

LEMMA FillRunsIs ==
  ASSUME NEW f, NEW s, NEW rest, NEW colour
  PROVE  FillRuns(f, s, rest, colour)
           = Fold("runs", <<s, rest, colour, RunsAt(f, s, colour)>>, [g |-> f.g, stack |-> rest],
                  DOMAIN RunsAt(f, s, colour))
<1>1. PICK base : base = [g |-> f.g, stack |-> rest]
  OBVIOUS
<1>2. PICK seq : seq = RunsAt(f, s, colour)
  OBVIOUS
<1>3. FillRuns(f, s, rest, colour)
        = FoldLeft(LAMBDA h, run : [g     |-> Painted(h.g, (run[1] .. run[2]) \X {s.y}, colour),
                                    stack |-> PushAround(h.stack, s, run)],
                   base, seq)
  BY <1>1, <1>2, Zenon DEF FillRuns, RunsAt
<1>4. FoldLeft(LAMBDA h, run : [g     |-> Painted(h.g, (run[1] .. run[2]) \X {s.y}, colour),
                                stack |-> PushAround(h.stack, s, run)],
               base, seq)
        = Fold("runs", <<s, rest, colour, seq>>, base, DOMAIN seq)
  BY RunsFoldIs
<1>5. QED BY <1>1, <1>2, <1>3, <1>4, Zenon

LEMMA FillRunsCalm ==
  ASSUME NEW f, Formed(f.g), NEW s, NEW rest, NEW colour
  PROVE  Calm(f.g, FillRuns(f, s, rest, colour).g)
<1> DEFINE seq == RunsAt(f, s, colour)
           par == <<s, rest, colour, seq>>
           base == [g |-> f.g, stack |-> rest]
<1>1. PICK n \in Nat : DOMAIN seq = 1 .. n
  BY RunsFinite
<1>2. IsFiniteSet(1 .. n) /\ \A p \in SUBSET (1 .. n) : p # {} => Pick("runs", p) \in p
  BY PicksPlace DEF ByPlace
<1>3. Kept("runs", f.g, base)
  BY CalmSelf DEF Kept
<1> HIDE DEF seq, par, base
<1>4. ASSUME NEW acc, NEW i \in 1 .. n, Kept("runs", f.g, acc)
      PROVE  Kept("runs", f.g, StepOf("runs", par, acc, i))
  <2> DEFINE S == (par[4][i][1] .. par[4][i][2]) \X {par[1].y}
  <2>1. Calm(f.g, acc.g) /\ Formed(acc.g)
    BY <1>4, CalmFormed DEF Kept
  <2>2. Calm(f.g, Painted(acc.g, S, par[3]))
    <3> HIDE DEF S
    <3>1. QED BY <2>1, PaintedCalm, CalmTwice
  <2>3. StepOf("runs", par, acc, i)
          = [g |-> Painted(acc.g, S, par[3]), stack |-> PushAround(acc.stack, par[1], par[4][i])]
    BY Zenon DEF StepOf
  <2> HIDE DEF S
  <2>4. QED BY <2>2, <2>3 DEF Kept
<1>5. Kept("runs", f.g, Fold("runs", par, base, 1 .. n))
  BY <1>2, <1>3, <1>4, FoldKeeps
<1>6. FillRuns(f, s, rest, colour) = Fold("runs", par, base, 1 .. n)
  BY <1>1, FillRunsIs DEF par, base, seq
<1>7. QED BY <1>5, <1>6 DEF Kept

LEMMA FillFoldIs ==
  ASSUME NEW base, NEW colour, NEW seq
  PROVE  FoldLeft(LAMBDA h, i : FillStep(h, colour), base, seq)
           = Fold("fill", colour, base, DOMAIN seq)
<1> DEFINE Onward(acc, x) == FillStep(acc, colour)
           Body(it, s) == LET x == Max(s) IN Onward(it[s \ {x}], x)
           Eq(it) == it = [s \in SUBSET (DOMAIN seq) |-> IF s = {} THEN base ELSE Body(it, s)]
<1>1. \A it : FoldEq("fill", colour, base, SUBSET (DOMAIN seq), it) <=> Eq(it)
  <2>1. ASSUME NEW it, NEW s
        PROVE  StepOf("fill", colour, it[s \ {Pick("fill", s)}], Pick("fill", s)) = Body(it, s)
    <3>1. PICK x : x = Max(s)
      OBVIOUS
    <3>2. Pick("fill", s) = x
      BY <3>1, Picks
    <3>3. \A acc : StepOf("fill", colour, acc, x) = Onward(acc, x)
      BY DEF StepOf
    <3> HIDE DEF Onward
    <3>4. Body(it, s) = Onward(it[s \ {x}], x)
      BY <3>1
    <3> HIDE DEF Body
    <3>5. QED BY <3>2, <3>3, <3>4
  <2> HIDE DEF Body
  <2>2. QED BY <2>1, Zenon DEF FoldEq
<1>2. (CHOOSE it : FoldEq("fill", colour, base, SUBSET (DOMAIN seq), it)) = (CHOOSE it : Eq(it))
  <2> HIDE DEF Eq
  <2>1. QED BY <1>1, Zenon
<1>3. FoldLeft(LAMBDA h, i : FillStep(h, colour), base, seq)
        = (CHOOSE it : Eq(it))[(DOMAIN seq)]
  BY Zenon DEF FoldLeft, MapThenFoldSet
<1>4. QED BY <1>2, <1>3, Zenon DEF Fold

LEMMA FillIs ==
  ASSUME NEW base, NEW colour
  PROVE  FoldLeft(LAMBDA h, i : FillStep(h, colour), base, [i \in 1 .. FillLimit |-> i])
           = Fold("fill", colour, base, 1 .. FillLimit)
<1>1. PICK seq : seq = [i \in 1 .. FillLimit |-> i]
  OBVIOUS
<1>2. DOMAIN seq = 1 .. FillLimit
  BY <1>1
<1>3. FoldLeft(LAMBDA h, i : FillStep(h, colour), base, seq) = Fold("fill", colour, base, DOMAIN seq)
  BY FillFoldIs
<1>4. QED BY <1>1, <1>2, <1>3, Zenon

LEMMA FillFoldCalm ==
  ASSUME NEW base, Formed(base.g), NEW colour
  PROVE  Calm(base.g, Fold("fill", colour, base, 1 .. FillLimit).g)
<1>1. FillLimit \in Nat
  BY TileAssumption DEF FillLimit
<1>2. /\ IsFiniteSet(1 .. FillLimit)
      /\ \A p \in SUBSET (1 .. FillLimit) : p # {} => Pick("fill", p) \in p
  BY <1>1, PicksPlace DEF ByPlace
<1>3. Kept("fill", base.g, base)
  BY CalmSelf DEF Kept
<1>4. ASSUME NEW acc, NEW i \in 1 .. FillLimit, Kept("fill", base.g, acc)
      PROVE  Kept("fill", base.g, StepOf("fill", colour, acc, i))
  <2>1. Calm(base.g, acc.g) /\ Formed(acc.g)
    BY <1>4, CalmFormed DEF Kept
  <2>2. Calm(acc.g, FillStep(acc, colour).g)
    BY <2>1, FillRunsCalm, CalmSelf DEF FillStep
  <2>3. Calm(base.g, FillStep(acc, colour).g)
    BY <2>1, <2>2, CalmTwice
  <2>4. QED BY <2>3 DEF Kept, StepOf
<1>5. Kept("fill", base.g, Fold("fill", colour, base, 1 .. FillLimit))
  BY <1>2, <1>3, <1>4, FoldKeeps
<1>6. QED BY <1>5 DEF Kept

LEMMA FillCalm ==
  ASSUME NEW g, Formed(g), NEW x, NEW y, NEW colour
  PROVE  Calm(g, screen_gfx_fill(g, x, y, colour))
<1> DEFINE run == CHOOSE r \in Runs(g.canvas, y, x, x, colour) : TRUE
           base == FillStart(g, y, run, colour)
<1>1. PICK b : b = base
  OBVIOUS
<1>2. Calm(g, b.g) /\ Formed(b.g)
  <2>1. PICK r : r = run
    OBVIOUS
  <2> HIDE DEF run
  <2>2. b.g = Painted(g, (r[1] .. r[2]) \X {y}, colour)
    BY <1>1, <2>1 DEF FillStart
  <2>3. QED BY <2>2, PaintedCalm, CalmFormed
<1>3. screen_gfx_fill(g, x, y, colour)
        = IF <<x, y>> \notin Pixels THEN g
          ELSE IF g.canvas[<<x, y>>] = colour THEN g
          ELSE Fold("fill", colour, b, 1 .. FillLimit).g
  <2>1. screen_gfx_fill(g, x, y, colour)
        = IF <<x, y>> \notin Pixels THEN g
          ELSE IF g.canvas[<<x, y>>] = colour THEN g
          ELSE FoldLeft(LAMBDA h, i : FillStep(h, colour), base, [i \in 1 .. FillLimit |-> i]).g
    BY Zenon DEF screen_gfx_fill
  <2> HIDE DEF base
  <2>2. FoldLeft(LAMBDA h, i : FillStep(h, colour), base, [i \in 1 .. FillLimit |-> i])
          = Fold("fill", colour, base, 1 .. FillLimit)
    BY FillIs
  <2>3. QED BY <1>1, <2>1, <2>2, Zenon
<1> HIDE DEF base
<1>4. Calm(g, Fold("fill", colour, b, 1 .. FillLimit).g)
  BY <1>2, FillFoldCalm, CalmTwice
<1>5. QED BY <1>3, <1>4, CalmSelf

-----------------------------------------------------------------------------
(* The turtles.                                                              *)

LEMMA RasterCalm ==
  ASSUME NEW g, Formed(g)
  PROVE  Calm(g, turtle_update_raster(g))
<1>1. ASSUME NEW fresh PROVE Calm(g, Rebuilt(g, fresh))
  BY DEF Calm, Still, Steady, Formed, Framed, Rebuilt
<1>2. QED BY <1>1, CalmSelf DEF turtle_update_raster

LEMMA DrawCalm ==
  ASSUME NEW g, Formed(g)
  PROVE  Calm(g, turtle_draw(g)) /\ Calm(g, Redrawn(g))
<1>1. PICK h : h = turtle_update_raster(g)
  OBVIOUS
<1>2. Calm(g, h) /\ Formed(h)
  BY <1>1, RasterCalm, CalmFormed
<1>3. Calm(g, Displayed(h))
  BY <1>2, SpriteSetCalm, CalmTwice DEF Displayed
<1>4. Calm(g, screen_sprite_hide(g, g.current))
  BY HideCalm
<1>5. Calm(g, turtle_draw(g))
  BY <1>1, <1>3, <1>4 DEF turtle_draw
<1>6. Calm(g, Redrawn(g))
  BY <1>5, CalmFormed, UpdateCalm, CalmTwice DEF Redrawn
<1>7. QED BY <1>5, <1>6

\* What a command writes of a turtle.
LEMMA TurtleCalm ==
  ASSUME NEW g, Formed(g), NEW turtles
  PROVE  Calm(g, [g EXCEPT !.turtles = turtles]) /\ Formed([g EXCEPT !.turtles = turtles])
BY DEF Calm, Still, Steady, Formed, Framed

LEMMA RedrawnAfter ==
  ASSUME NEW g, NEW h, Formed(g), Calm(g, h)
  PROVE  Calm(g, Redrawn(h)) /\ Calm(g, screen_gfx_update(h)) /\ Calm(g, turtle_draw(h))
BY CalmFormed, DrawCalm, UpdateCalm, CalmTwice

LEMMA PlacedCalm ==
  ASSUME NEW g, Formed(g), NEW x, NEW y
  PROVE  Calm(g, Placed(g, x, y)) /\ Calm(g, SentHome(g))
<1>1. ASSUME NEW u, NEW v PROVE Calm(g, Placed(g, u, v)) /\ Formed(Placed(g, u, v))
  BY DEF Calm, Still, Steady, Formed, Framed, Placed
<1>2. PICK h : h = Placed(g, TURTLE_HOME[1], TURTLE_HOME[2])
  OBVIOUS
<1>3. SentHome(g) = [h EXCEPT !.turtles[g.current].angle = 0]
  BY <1>2 DEF SentHome
<1>4. Calm(g, h) /\ Formed(h)
  BY <1>1, <1>2
<1>5. Calm(h, [h EXCEPT !.turtles[g.current].angle = 0])
  BY <1>4 DEF Calm, Still, Steady, Formed, Framed
<1>6. QED BY <1>1, <1>3, <1>4, <1>5, CalmTwice

LEMMA PenCalm ==
  ASSUME NEW g, Formed(g), NEW x, NEW y
  PROVE  Calm(g, PenLine(g, x, y)) /\ Calm(g, Around(g))
<1>1. Calm(g, PenLine(g, x, y))
  BY LineCalm, CalmSelf DEF PenLine
<1>2. Calm(g, Around(g))
  BY PlacedCalm, CalmSelf DEF Around
<1>3. QED BY <1>1, <1>2

\* A step may be stopped by a fence, with an error.
LEMMA StoppedStill ==
  ASSUME NEW g, Formed(g)
  PROVE  Still(g, Stopped(g))
<1>1. PICK h : h = turtle_draw(g)
  OBVIOUS
<1>2. Calm(g, h) /\ Formed(h)
  BY <1>1, DrawCalm, CalmFormed
<1>3. QED BY <1>1, <1>2 DEF Stopped, Calm, Still, Steady, Formed, Framed

LEMMA StepStill ==
  ASSUME NEW g, Formed(g), NEW x, NEW y
  PROVE  Still(g, StepTo(g, x, y))
<1>1. PICK p : p = Placed(g, x, y)
  OBVIOUS
<1>2. PICK q : q = PenLine(p, Cur(g).x, Cur(g).y)
  OBVIOUS
<1>3. Calm(g, p) /\ Formed(p)
  BY <1>1, PlacedCalm, CalmFormed
<1>4. Calm(g, q) /\ Formed(q)
  BY <1>2, <1>3, PenCalm, CalmTwice, CalmFormed
<1>5. Calm(g, Around(q))
  BY <1>4, PenCalm, CalmTwice
<1>6. Calm(g, Redrawn(Around(q)))
  BY <1>5, RedrawnAfter
<1>7. QED BY <1>1, <1>2, <1>6 DEF StepTo, Calm

LEMMA MoveStill ==
  ASSUME NEW g, Formed(g)
  PROVE  /\ \A d : Still(g, turtle_move(g, d))
         /\ \A x, y : Still(g, turtle_set_position(g, x, y))
BY StepStill, StoppedStill DEF turtle_move, turtle_set_position

\* One field of the selected turtle.
LEMMA FieldCalm ==
  ASSUME NEW g, Formed(g), NEW v
  PROVE  /\ Calm(g, [g EXCEPT !.turtles[g.current].angle = v])
         /\ Calm(g, [g EXCEPT !.turtles[g.current].colour = v])
         /\ Calm(g, [g EXCEPT !.turtles[g.current].pen_state = v])
         /\ Calm(g, [g EXCEPT !.turtles[g.current].pen_size = v])
         /\ Calm(g, [g EXCEPT !.turtles[g.current].visible = v])
         /\ Calm(g, [g EXCEPT !.turtles[g.current].shape = v])
         /\ Calm(g, [g EXCEPT !.turtles[g.current].rot_style = v])
         /\ Calm(g, [g EXCEPT !.turtles[g.current].mag = v])
         /\ Calm(g, [g EXCEPT !.turtles[g.current].raster.valid = v])
         /\ Calm(g, [g EXCEPT !.turtles[g.current].speed = v])
         /\ Calm(g, [g EXCEPT !.turtles[g.current].anim_accum = v])
         /\ Calm(g, [g EXCEPT !.boundary = v])
BY DEF Calm, Still, Steady, Formed, Framed

LEMMA HomeCalm ==
  ASSUME NEW g, Formed(g)
  PROVE  Calm(g, turtle_home(g)) /\ Calm(g, turtle_clearscreen(g)) /\ Calm(g, ComeHome(g))
<1>1. PICK h : h = SentHome(g)
  OBVIOUS
<1>2. Calm(g, h) /\ Formed(h)
  BY <1>1, PlacedCalm, CalmFormed
<1>3. PICK q : q = PenLine(h, Cur(g).x, Cur(g).y)
  OBVIOUS
<1>4. Calm(g, q)
  BY <1>2, <1>3, PenCalm, CalmTwice
<1>5. Calm(g, Redrawn(q)) /\ Calm(g, Redrawn(h))
  BY <1>2, <1>4, RedrawnAfter
<1>6. Calm(g, Redrawn(screen_gfx_clear(g)))
  BY ClearCalm, RedrawnAfter
<1>7. QED BY <1>1, <1>3, <1>5, <1>6, CalmSelf, Zenon DEF turtle_home, turtle_clearscreen, ComeHome

LEMMA PenAndLookCalm ==
  ASSUME NEW g, Formed(g), NEW v
  PROVE  /\ Calm(g, turtle_set_angle(g, v)) /\ Calm(g, turtle_set_colour(g, v))
         /\ Calm(g, turtle_set_pen_state(g, v)) /\ Calm(g, turtle_set_pen_size(g, v))
         /\ Calm(g, turtle_set_visibility(g, v)) /\ Calm(g, turtle_set_shape_num(g, v))
         /\ Calm(g, turtle_set_speed(g, v))
<1>1. /\ Calm(g, Redrawn([g EXCEPT !.turtles[g.current].angle = v % 360]))
      /\ Calm(g, Redrawn([g EXCEPT !.turtles[g.current].colour = v]))
      /\ Calm(g, Redrawn([g EXCEPT !.turtles[g.current].visible = v]))
      /\ Calm(g, Redrawn([g EXCEPT !.turtles[g.current].shape = v]))
  <2>1. Calm(g, [g EXCEPT !.turtles[g.current].angle = v % 360])
    BY DEF Calm, Still, Steady, Formed, Framed
  <2>2. /\ Calm(g, [g EXCEPT !.turtles[g.current].colour = v])
        /\ Calm(g, [g EXCEPT !.turtles[g.current].visible = v])
        /\ Calm(g, [g EXCEPT !.turtles[g.current].shape = v])
    BY FieldCalm
  <2>3. QED BY <2>1, <2>2, RedrawnAfter, Zenon
<1>2. QED BY <1>1, FieldCalm, CalmSelf, Zenon DEF turtle_set_angle, turtle_set_colour, turtle_set_pen_state,
            turtle_set_pen_size, turtle_set_visibility, turtle_set_shape_num, turtle_set_speed

LEMMA BoundaryCalm ==
  ASSUME NEW g, Formed(g)
  PROVE  Calm(g, turtle_set_fence(g)) /\ Calm(g, turtle_set_wrap(g)) /\ Calm(g, turtle_set_window(g))
<1>1. PICK h : h = ComeHome(g)
  OBVIOUS
<1>2. Calm(g, h) /\ Formed(h)
  BY <1>1, HomeCalm, CalmFormed
<1>3. Calm(g, [h EXCEPT !.boundary = "fence"]) /\ Calm(g, [h EXCEPT !.boundary = "wrap"])
  BY <1>2, FieldCalm, CalmTwice
<1>4. QED BY <1>1, <1>3, FieldCalm DEF turtle_set_fence, turtle_set_wrap, turtle_set_window

\* A change of the palette marks everything.
LEMMA RecolouredCalm ==
  ASSUME NEW g, NEW h, Formed(g), Calm(g, h)
  PROVE  Calm(g, screen_gfx_update(screen_gfx_mark_all_dirty(h)))
<1>1. Calm(g, screen_gfx_mark_all_dirty(h))
  BY CalmFormed, MarkAllCalm, CalmTwice
<1>2. QED BY <1>1, RedrawnAfter

LEMMA ColoursCalm ==
  ASSUME NEW g, Formed(g)
  PROVE  /\ \A slot : Calm(g, turtle_set_bg_colour(g, slot))
         /\ \A slot, colour : Calm(g, turtle_set_palette(g, slot, colour))
         /\ Calm(g, turtle_restore_palette(g))
<1>1. ASSUME NEW h, Formed(h), NEW slot PROVE Calm(h, turtle_set_bg_colour(h, slot))
  <2>1. Calm(h, [h EXCEPT !.palette[GFX_DEFAULT_BACKGROUND] = h.palette[slot], !.background = slot])
    BY <1>1 DEF Calm, Still, Steady, Formed, Framed
  <2>2. QED BY <1>1, <2>1, RecolouredCalm DEF turtle_set_bg_colour
<1>2. ASSUME NEW slot, NEW colour PROVE Calm(g, turtle_set_palette(g, slot, colour))
  <2>1. Calm(g, [g EXCEPT !.palette[slot] = colour])
    BY DEF Calm, Still, Steady, Formed, Framed
  <2>2. QED BY <2>1, RecolouredCalm DEF turtle_set_palette
<1>3. Calm(g, turtle_restore_palette(g))
  <2> DEFINE own == [g EXCEPT !.palette = [s \in Palette |-> IF s = GFX_DEFAULT_BACKGROUND THEN @[s] ELSE s]]
  <2>1. Calm(g, own)
    BY DEF Calm, Still, Steady, Formed, Framed
  <2>2. PICK h : h = own
    OBVIOUS
  <2>3. turtle_restore_palette(g)
          = screen_gfx_update(screen_gfx_mark_all_dirty(turtle_set_bg_colour(h, g.background)))
    BY <2>2 DEF turtle_restore_palette
  <2> HIDE DEF own
  <2>4. Calm(g, turtle_set_bg_colour(h, g.background))
    BY <1>1, <2>1, <2>2, CalmFormed, CalmTwice
  <2>5. QED BY <2>3, <2>4, RecolouredCalm
<1>4. QED BY <1>1, <1>2, <1>3

LEMMA PaintingCalm ==
  ASSUME NEW g, Formed(g)
  PROVE  /\ \A x, y : Calm(g, turtle_dot(g, x, y))
         /\ Calm(g, turtle_fill(g))
         /\ \A n : Calm(g, turtle_draw_text(g, n))
         /\ \A picture : Calm(g, turtle_gfx_load(g, picture))
         /\ Calm(g, turtle_stamp(g))
<1>1. ASSUME NEW x, NEW y PROVE Calm(g, turtle_dot(g, x, y))
  <2>1. \A points, colour, width : Calm(g, screen_gfx_update(screen_gfx_line(g, points, colour, FALSE, width)))
    BY LineCalm, RedrawnAfter
  <2>2. QED BY <2>1, Zenon DEF turtle_dot
<1>2. Calm(g, turtle_fill(g))
  <2>1. \A x, y, colour : Calm(g, screen_gfx_update(screen_gfx_fill(g, x, y, colour)))
    BY FillCalm, RedrawnAfter
  <2>2. QED BY <2>1, CalmSelf, Zenon DEF turtle_fill
<1>3. ASSUME NEW n PROVE Calm(g, turtle_draw_text(g, n))
  <2>1. \A x, y, colour : Calm(g, screen_gfx_update(screen_gfx_text(g, x, y, n, colour)))
    BY TextCalm, RedrawnAfter
  <2>2. QED BY <2>1, Zenon DEF turtle_draw_text
<1>4. ASSUME NEW picture PROVE Calm(g, turtle_gfx_load(g, picture))
  BY LoadCalm, RedrawnAfter DEF turtle_gfx_load
<1>5. Calm(g, turtle_stamp(g))
  <2>1. PICK h : h = turtle_update_raster(g)
    OBVIOUS
  <2>2. Calm(g, h) /\ Formed(h)
    BY <2>1, RasterCalm, CalmFormed
  <2>3. Calm(g, Stamped(h))
    BY <2>2, StampCalm, CalmTwice DEF Stamped
  <2>4. QED BY <2>1, <2>3, RedrawnAfter DEF turtle_stamp
<1>6. QED BY <1>1, <1>2, <1>3, <1>4, <1>5

LEMMA StyleCalm ==
  ASSUME NEW g, Formed(g), NEW v
  PROVE  Calm(g, turtle_set_rotation_style(g, v)) /\ Calm(g, turtle_set_scale(g, v))
<1>1. ASSUME NEW h, Calm(g, h) PROVE Calm(g, Restyled(h))
  <2>1. Calm(g, Stale(h))
    <3>1. Formed(h)
      BY <1>1, CalmFormed
    <3>2. Calm(h, Stale(h))
      BY <3>1, FieldCalm DEF Stale
    <3>3. QED BY <1>1, <3>2, CalmTwice
  <2>2. QED BY <2>1, RedrawnAfter DEF Restyled
<1>2. /\ Calm(g, Restyled([g EXCEPT !.turtles[g.current].rot_style = v]))
      /\ Calm(g, Restyled([g EXCEPT !.turtles[g.current].mag = v]))
  BY <1>1, FieldCalm
<1>3. QED BY <1>2, CalmSelf, Zenon DEF turtle_set_rotation_style, turtle_set_scale

LEMMA MotionCalm ==
  ASSUME NEW g, Formed(g)
  PROVE  /\ \A a, b, c : Calm(g, turtle_set_anim(g, a, b, c))
         /\ \A dt : Calm(g, Accumulated(g, dt))
         /\ Calm(g, NextFrame(g))
         /\ \A dt : Still(g, Glided(g, dt))
         /\ \A dt : (Glided(g, dt)).ok = g.ok \/ (Glided(g, dt)).ok
<1>1. ASSUME NEW a, NEW b, NEW c PROVE Calm(g, turtle_set_anim(g, a, b, c))
  BY DEF Calm, Still, Steady, Formed, Framed, turtle_set_anim
<1>2. ASSUME NEW dt PROVE Calm(g, Accumulated(g, dt))
  BY DEF Calm, Still, Steady, Formed, Framed, Accumulated
<1>3. Calm(g, NextFrame(g))
  <2>1. PICK h : h = [g EXCEPT !.turtles[g.current].anim_accum = @ - Cur(g).anim.interval]
    OBVIOUS
  <2>2. Calm(g, h) /\ Formed(h)
    BY <2>1 DEF Calm, Still, Steady, Formed, Framed
  <2>3. PICK n : n = IF Cur(g).shape \in Cur(g).anim.first .. Cur(g).anim.last - 1 THEN Cur(g).shape + 1
                     ELSE Cur(g).anim.first
    OBVIOUS
  <2>4. Calm(h, turtle_set_shape_num(h, n))
    BY <2>2, PenAndLookCalm
  <2>5. NextFrame(g) = turtle_set_shape_num(h, n)
    BY <2>1, <2>3, Zenon DEF NextFrame
  <2>6. QED BY <2>2, <2>4, <2>5, CalmTwice
<1>4. ASSUME NEW dt PROVE Still(g, Glided(g, dt)) /\ (Glided(g, dt).ok = g.ok \/ Glided(g, dt).ok)
  <2>1. PICK h : h = turtle_move(g, Cur(g).speed * dt)
    OBVIOUS
  <2>2. Still(g, h) /\ Formed(h)
    BY <2>1, MoveStill DEF Still, Steady, Formed
  <2>3. Still(g, [h EXCEPT !.ok = TRUE]) /\ [h EXCEPT !.ok = TRUE].ok
    BY <2>2 DEF Still, Steady, Formed, Framed
  <2>4. Glided(g, dt) = IF Cur(g).speed > 0 THEN [h EXCEPT !.ok = TRUE] ELSE g
    BY <2>1 DEF Glided
  <2>5. QED BY <2>3, <2>4, CalmSelf DEF Calm
<1>5. QED BY <1>1, <1>2, <1>3, <1>4

-----------------------------------------------------------------------------
(* The folds over turtles.                                                   *)

LEMMA FiniteTurtles ==
  /\ IsFiniteSet(AllTurtles) /\ AllTurtles \subseteq Nat
  /\ \A S \in SUBSET AllTurtles : IsFiniteSet(S)
<1>1. MAX_TURTLES \in Int
  BY TurtleAssumption
<1>2. IsFiniteSet(AllTurtles)
  BY <1>1, FiniteRange DEF AllTurtles
<1>3. \A S \in SUBSET AllTurtles : IsFiniteSet(S)
  BY <1>2, FS_Subset, Zenon
<1>4. QED BY <1>2, <1>3 DEF AllTurtles

LEMMA SteadyTwice ==
  ASSUME NEW f, NEW g, NEW h, Steady(f, g), Steady(g, h)
  PROVE  Steady(f, h)
BY DEF Steady

LEMMA SelectSteady ==
  ASSUME NEW g, Formed(g), NEW n
  PROVE  /\ Steady(g, turtle_op_select(g, n)) /\ (turtle_op_select(g, n)).ok = g.ok
         /\ (turtle_op_select(g, n)).current = n /\ Formed(turtle_op_select(g, n))
BY DEF Steady, Formed, Framed, turtle_op_select

LEMMA WearIs ==
  ASSUME NEW g, NEW S
  PROVE  FoldSet(LAMBDA i, h : Refreshed([h EXCEPT !.turtles[i].raster.valid = FALSE], i), g, S)
           = Fold("wear", g, g, S)
<1> DEFINE Onward(acc, x) == Refreshed([acc EXCEPT !.turtles[x].raster.valid = FALSE], x)
           Body(it, s) == LET x == CHOOSE y \in s : TRUE IN Onward(it[s \ {x}], x)
           Eq(it) == it = [s \in SUBSET S |-> IF s = {} THEN g ELSE Body(it, s)]
<1>1. \A it : FoldEq("wear", g, g, SUBSET S, it) <=> Eq(it)
  <2>1. ASSUME NEW it, NEW s
        PROVE  StepOf("wear", g, it[s \ {Pick("wear", s)}], Pick("wear", s)) = Body(it, s)
    <3>1. PICK x : x = CHOOSE y \in s : TRUE
      OBVIOUS
    <3>2. Pick("wear", s) = x
      BY <3>1, Picks
    <3>3. \A acc : StepOf("wear", g, acc, x) = Onward(acc, x)
      BY DEF StepOf
    <3> HIDE DEF Onward
    <3>4. Body(it, s) = Onward(it[s \ {x}], x)
      BY <3>1
    <3> HIDE DEF Body
    <3>5. QED BY <3>2, <3>3, <3>4
  <2> HIDE DEF Body
  <2>2. QED BY <2>1, Zenon DEF FoldEq
<1>2. (CHOOSE it : FoldEq("wear", g, g, SUBSET S, it)) = (CHOOSE it : Eq(it))
  <2> HIDE DEF Eq
  <2>1. QED BY <1>1, Zenon
<1>3. FoldSet(LAMBDA i, h : Refreshed([h EXCEPT !.turtles[i].raster.valid = FALSE], i), g, S)
        = (CHOOSE it : Eq(it))[S]
  BY Zenon DEF FoldSet, MapThenFoldSet
<1>4. QED BY <1>2, <1>3, Zenon DEF Fold

LEMMA WearersCalm ==
  ASSUME NEW g, Formed(g), NEW slot
  PROVE  Calm(g, refresh_shape_wearers(g, slot))
<1> DEFINE S == Wearers(g, slot)
<1>1. IsFiniteSet(S)
  BY FiniteTurtles DEF Wearers
<1>2. Kept("wear", g, g)
  BY DEF Kept, Steady
<1>3. ASSUME NEW acc, NEW i \in S, Kept("wear", g, acc)
      PROVE  Kept("wear", g, StepOf("wear", g, acc, i))
  <2>1. Steady(g, acc) /\ acc.ok = g.ok /\ Formed(acc)
    BY <1>3 DEF Kept, Steady, Formed
  <2>2. PICK h : h = [acc EXCEPT !.turtles[i].raster.valid = FALSE]
    OBVIOUS
  <2>3. Calm(acc, h) /\ Formed(h)
    BY <2>1, <2>2 DEF Calm, Still, Steady, Formed, Framed
  <2>4. PICK q : q = turtle_op_select(h, i)
    OBVIOUS
  <2>5. Steady(h, q) /\ q.ok = h.ok /\ Formed(q)
    BY <2>3, <2>4, SelectSteady
  <2>6. Calm(q, turtle_draw(q))
    BY <2>5, DrawCalm
  <2>7. StepOf("wear", g, acc, i) = IF h.turtles[i].visible THEN turtle_draw(q) ELSE h
    BY <2>2, <2>4, Zenon DEF StepOf, Refreshed
  <2>8. QED BY <2>1, <2>3, <2>5, <2>6, <2>7, SteadyTwice DEF Kept, Calm, Still
<1>4. \A s \in SUBSET S : s # {} => Pick("wear", s) \in s
  BY PicksMember DEF ByPlace
<1> HIDE DEF S
<1>5. Kept("wear", g, Fold("wear", g, g, S))
  BY <1>1, <1>2, <1>3, <1>4, FoldKeeps
<1>6. PICK worn : worn = Fold("wear", g, g, S)
  OBVIOUS
<1>7. PICK back : back = turtle_op_select(worn, g.current)
  OBVIOUS
<1>8. Steady(g, worn) /\ worn.ok = g.ok /\ Formed(worn)
  BY <1>5, <1>6 DEF Kept, Steady, Formed
<1>9. Calm(g, back)
  BY <1>7, <1>8, SelectSteady, SteadyTwice DEF Calm, Still
<1>10. refresh_shape_wearers(g, slot) = screen_gfx_update(back)
  BY <1>6, <1>7, WearIs DEF refresh_shape_wearers, S
<1>11. QED BY <1>9, <1>10, RedrawnAfter

LEMMA DressStill ==
  ASSUME NEW g, Formed(g), NEW slot
  PROVE  /\ \A bits : Calm(g, turtle_put_shape_data(g, slot, bits))
         /\ \A w, h : Still(g, turtle_snap_costume(g, slot, w, h))
<1>1. ASSUME NEW h, Formed(h) PROVE Calm(h, costume_delete(h, slot))
  BY <1>1 DEF Calm, Still, Steady, Formed, Framed, costume_delete
<1>2. ASSUME NEW bits PROVE Calm(g, turtle_put_shape_data(g, slot, bits))
  <2>1. PICK h : h = [g EXCEPT !.shapes[slot] = bits]
    OBVIOUS
  <2>2. Calm(g, h) /\ Formed(h)
    BY <2>1 DEF Calm, Still, Steady, Formed, Framed
  <2>3. Calm(g, costume_delete(h, slot)) /\ Formed(costume_delete(h, slot))
    BY <1>1, <2>2, CalmTwice, CalmFormed
  <2>4. QED BY <2>1, <2>3, WearersCalm, CalmTwice DEF turtle_put_shape_data
<1>3. ASSUME NEW w, NEW h, NEW pixels PROVE Still(g, costume_put(g, slot, w, h, pixels))
  <2>1. PICK q : q = costume_delete(g, slot)
    OBVIOUS
  <2>2. Calm(g, q) /\ Formed(q)
    BY <1>1, <2>1, CalmFormed
  <2>3. /\ Still(g, [q EXCEPT !.ok = FALSE])
        /\ Still(g, [q EXCEPT !.costumes[slot] = [w |-> w, h |-> h, pixels |-> pixels]])
    BY <2>2 DEF Calm, Still, Steady, Formed, Framed
  <2>4. QED BY <2>1, <2>3, Zenon DEF costume_put
<1>4. ASSUME NEW w, NEW h PROVE Still(g, turtle_snap_costume(g, slot, w, h))
  <2>1. PICK q : q = costume_put(g, slot, w, h,
                        screen_gfx_snap(g, Cur(g).x - (w \div 2), Cur(g).y - (h \div 2), w, h))
    OBVIOUS
  <2>2. Still(g, q) /\ Formed(q)
    BY <1>3, <2>1 DEF Still, Steady, Formed
  <2>3. turtle_snap_costume(g, slot, w, h) = IF q.ok THEN refresh_shape_wearers(q, slot) ELSE q
    BY <2>1, Zenon DEF turtle_snap_costume
  <2>4. Calm(q, refresh_shape_wearers(q, slot))
    BY <2>2, WearersCalm
  <2>5. QED BY <2>2, <2>3, <2>4, SteadyTwice DEF Calm, Still
<1>5. QED BY <1>2, <1>4

LEMMA StopIs ==
  ASSUME NEW g, NEW S
  PROVE  FoldSet(LAMBDA n, h : turtle_set_anim(turtle_set_speed(turtle_op_select(h, n), 0), 0, 0, 0), g, S)
           = Fold("stop", g, g, S)
<1> DEFINE Onward(acc, x) == turtle_set_anim(turtle_set_speed(turtle_op_select(acc, x), 0), 0, 0, 0)
           Body(it, s) == LET x == CHOOSE y \in s : TRUE IN Onward(it[s \ {x}], x)
           Eq(it) == it = [s \in SUBSET S |-> IF s = {} THEN g ELSE Body(it, s)]
<1>1. \A it : FoldEq("stop", g, g, SUBSET S, it) <=> Eq(it)
  <2>1. ASSUME NEW it, NEW s
        PROVE  StepOf("stop", g, it[s \ {Pick("stop", s)}], Pick("stop", s)) = Body(it, s)
    <3>1. PICK x : x = CHOOSE y \in s : TRUE
      OBVIOUS
    <3>2. Pick("stop", s) = x
      BY <3>1, Picks
    <3>3. \A acc : StepOf("stop", g, acc, x) = Onward(acc, x)
      BY DEF StepOf
    <3> HIDE DEF Onward
    <3>4. Body(it, s) = Onward(it[s \ {x}], x)
      BY <3>1
    <3> HIDE DEF Body
    <3>5. QED BY <3>2, <3>3, <3>4
  <2> HIDE DEF Body
  <2>2. QED BY <2>1, Zenon DEF FoldEq
<1>2. (CHOOSE it : FoldEq("stop", g, g, SUBSET S, it)) = (CHOOSE it : Eq(it))
  <2> HIDE DEF Eq
  <2>1. QED BY <1>1, Zenon
<1>3. FoldSet(LAMBDA n, h : turtle_set_anim(turtle_set_speed(turtle_op_select(h, n), 0), 0, 0, 0), g, S)
        = (CHOOSE it : Eq(it))[S]
  BY Zenon DEF FoldSet, MapThenFoldSet
<1>4. QED BY <1>2, <1>3, Zenon DEF Fold

\* Stopping every turtle leaves turtle 0 selected.
LEMMA StopSteady ==
  ASSUME NEW g, Formed(g)
  PROVE  /\ Steady(g, turtle_stop_motion(g)) /\ (turtle_stop_motion(g)).ok = g.ok
         /\ (turtle_stop_motion(g)).current = 0
<1>1. Kept("stop", g, g)
  BY DEF Kept, Steady
<1>2. ASSUME NEW acc, NEW n \in AllTurtles, Kept("stop", g, acc)
      PROVE  Kept("stop", g, StepOf("stop", g, acc, n))
  <2>1. Steady(g, acc) /\ acc.ok = g.ok /\ Formed(acc)
    BY <1>2 DEF Kept, Steady, Formed
  <2>2. PICK h : h = turtle_op_select(acc, n)
    OBVIOUS
  <2>3. Steady(acc, h) /\ h.ok = acc.ok /\ Formed(h)
    BY <2>1, <2>2, SelectSteady
  <2>4. PICK q : q = turtle_set_speed(h, 0)
    OBVIOUS
  <2>5. Calm(h, q) /\ Formed(q)
    BY <2>3, <2>4, PenAndLookCalm, CalmFormed
  <2>6. Calm(h, turtle_set_anim(q, 0, 0, 0))
    BY <2>5, MotionCalm, CalmTwice
  <2>7. StepOf("stop", g, acc, n) = turtle_set_anim(q, 0, 0, 0)
    BY <2>2, <2>4, Zenon DEF StepOf
  <2>8. QED BY <2>1, <2>3, <2>6, <2>7, SteadyTwice DEF Kept, Calm, Still
<1>3. \A s \in SUBSET AllTurtles : s # {} => Pick("stop", s) \in s
  BY PicksMember DEF ByPlace
<1>4. Kept("stop", g, Fold("stop", g, g, AllTurtles))
  BY <1>1, <1>2, <1>3, FiniteTurtles, FoldKeeps
<1>5. PICK h : h = Fold("stop", g, g, AllTurtles)
  OBVIOUS
<1>6. Steady(g, h) /\ h.ok = g.ok /\ Formed(h)
  BY <1>4, <1>5 DEF Kept, Steady, Formed
<1>7. turtle_stop_motion(g) = turtle_op_select(h, 0)
  BY <1>5, StopIs DEF turtle_stop_motion
<1>8. QED BY <1>6, <1>7, SelectSteady, SteadyTwice

-----------------------------------------------------------------------------
(* The demons, the tiles and the clocks.                                     *)

\* The clocks are as they were.
Clocks(g, h) ==
    /\ h.now = g.now /\ h.alive = g.alive /\ h.credited = g.credited /\ h.frozen = g.frozen
    /\ h.suspended = g.suspended /\ h.have_ticked = g.have_ticked /\ h.last_tick = g.last_tick
    /\ h.sync = g.sync
\* The set a command addresses, and the turtle that is selected, are as they were.
Set(g, h) == h.active = g.active /\ h.astray = g.astray /\ h.current = g.current

\* What the tables hold: demons with an action of the program, tiles of a size.
Demon(p, d) == "action" \in DOMAIN d /\ d.action \in {NODE_NIL} \cup DOMAIN p.actions
Demons(p, g) == DOMAIN g.demons = DemonSlots /\ \A i \in DemonSlots : Demon(p, g.demons[i])
Mapped(g) ==
    /\ {"size", "cells"} \subseteq DOMAIN g.tilemap
    /\ g.tilemap.size \in Nat /\ DOMAIN g.tilemap.cells \subseteq Int \X Int
Held(p, g) == Formed(g) /\ g.active \in TurtleSets /\ Demons(p, g) /\ Mapped(g)

LEMMA StillHeld ==
  ASSUME NEW p, NEW g, NEW h, Held(p, g), Steady(g, h)
  PROVE  Held(p, h) /\ Clocks(g, h) /\ h.active = g.active /\ h.astray = g.astray
BY DEF Held, Steady, Clocks, Formed, Demons, Mapped

LEMMA LeastSlot ==
  ASSUME NEW S \in SUBSET DemonSlots, S # {}
  PROVE  Min(S) \in S
<1>1. S \in SUBSET Nat
  BY DEF DemonSlots
<1>2. PICK m \in S : \A x \in S : m <= x
  BY <1>1, LeastOf
<1>3. QED BY <1>2 DEF Min

LEMMA DemonsSetHeld ==
  ASSUME NEW p, NEW g, Held(p, g), NEW cond, NEW action \in {NODE_NIL} \cup DOMAIN p.actions
  PROVE  /\ Held(p, demons_set(g, cond, action)) /\ Clocks(g, demons_set(g, cond, action))
         /\ Set(g, demons_set(g, cond, action))
<1> DEFINE Kind(h) == Held(p, h) /\ Clocks(g, h) /\ Set(g, h)
<1>1. PICK same : same = {i \in DemonSlots : g.demons[i].armed /\ g.demons[i].cond = cond}
  OBVIOUS
<1>2. PICK free : free = {i \in DemonSlots : ~g.demons[i].armed}
  OBVIOUS
<1>3. ASSUME NEW i \in DemonSlots PROVE Kind([g EXCEPT !.demons[i].armed = FALSE])
  BY DEF Held, Formed, Framed, Demons, Demon, Mapped, Clocks, Set
<1>4. ASSUME NEW i \in DemonSlots
      PROVE  Kind([g EXCEPT !.demons[i].action = action, !.demons[i].was_true = FALSE,
                            !.before = @ \ same])
  BY DEF Held, Formed, Framed, Demons, Demon, Mapped, Clocks, Set
<1>5. ASSUME NEW i \in DemonSlots
      PROVE  Kind([g EXCEPT !.demons[i] = [armed |-> TRUE, was_true |-> FALSE, cond |-> cond,
                                           action |-> action]])
  BY DEF Held, Formed, Framed, Demons, Demon, Mapped, Clocks, Set
<1>6. Kind([g EXCEPT !.ok = FALSE]) /\ Kind(g)
  BY DEF Held, Formed, Framed, Demons, Demon, Mapped, Clocks, Set
<1>7. (same # {} => Min(same) \in DemonSlots) /\ (free # {} => Min(free) \in DemonSlots)
  BY <1>1, <1>2, LeastSlot
<1>8. demons_set(g, cond, action)
        = IF same # {} /\ action = NODE_NIL THEN [g EXCEPT !.demons[Min(same)].armed = FALSE]
          ELSE IF same # {} THEN [g EXCEPT !.demons[Min(same)].action = action,
                                           !.demons[Min(same)].was_true = FALSE,
                                           !.before = @ \ same]
          ELSE IF action = NODE_NIL THEN g
          ELSE IF free = {} THEN [g EXCEPT !.ok = FALSE]
          ELSE [g EXCEPT !.demons[Min(free)] =
                    [armed |-> TRUE, was_true |-> FALSE, cond |-> cond, action |-> action]]
  BY <1>1, <1>2, ZenonT(30) DEF demons_set
<1> HIDE DEF Kind
<1>9. Kind(demons_set(g, cond, action))
  BY <1>3, <1>4, <1>5, <1>6, <1>7, <1>8, Zenon
<1>10. QED BY <1>9 DEF Kind

LEMMA DemonsClearHeld ==
  ASSUME NEW p, NEW g, Held(p, g)
  PROVE  /\ Held(p, demons_clear(g)) /\ Clocks(g, demons_clear(g)) /\ Set(g, demons_clear(g))
         /\ (demons_clear(g)).ok = g.ok /\ DOMAIN demons_clear(g) = DOMAIN g
BY DEF Held, Formed, Framed, Demons, Demon, Mapped, Clocks, Set, demons_clear

\* What a reset leaves: no clock runs, and turtle 0 is selected.
LEMMA DemonsResetHeld ==
  ASSUME NEW p, NEW g, Held(p, g)
  PROVE  LET h == demons_reset(g)
         IN  /\ Held(p, h) /\ h.active = g.active /\ h.current = 0 /\ h.astray = (Min(g.active) # 0)
             /\ h.now = g.now /\ h.alive = g.alive /\ h.credited = g.credited /\ h.sync = g.sync
             /\ h.last_tick = g.last_tick /\ ~h.have_ticked /\ ~h.frozen /\ ~h.suspended
             /\ h.ok = g.ok
<1>1. PICK c : c = demons_clear(g)
  OBVIOUS
<1>2. Held(p, c) /\ Clocks(g, c) /\ Set(g, c) /\ c.ok = g.ok
  BY <1>1, DemonsClearHeld
<1>3. PICK q : q = [c EXCEPT !.frozen = FALSE, !.polling = FALSE, !.suspended = FALSE,
                             !.have_ticked = FALSE, !.have_polled = FALSE, !.astray = Min(g.active) # 0]
  OBVIOUS
<1>4. /\ Held(p, q) /\ q.active = g.active /\ q.astray = (Min(g.active) # 0)
      /\ q.now = g.now /\ q.alive = g.alive /\ q.credited = g.credited /\ q.sync = g.sync
      /\ q.last_tick = g.last_tick /\ ~q.have_ticked /\ ~q.frozen /\ ~q.suspended /\ q.ok = g.ok
  <2>1. /\ q.demons = c.demons /\ q.tilemap = c.tilemap /\ q.active = c.active /\ q.now = c.now
        /\ q.alive = c.alive /\ q.credited = c.credited /\ q.sync = c.sync /\ q.last_tick = c.last_tick
        /\ q.ok = c.ok /\ q.have_ticked = FALSE /\ q.frozen = FALSE /\ q.suspended = FALSE
        /\ q.astray = (Min(g.active) # 0) /\ DOMAIN q = DOMAIN c
    BY <1>2, <1>3 DEF Held, Formed, Framed
  <2>2. QED BY <1>2, <2>1 DEF Held, Formed, Demons, Mapped, Clocks, Set
<1>5. PICK h : h = turtle_stop_motion(q)
  OBVIOUS
<1>6. Steady(q, h) /\ h.ok = q.ok /\ h.current = 0
  BY <1>4, <1>5, StopSteady DEF Held
<1>7. demons_reset(g) = h
  BY <1>1, <1>3, <1>5 DEF demons_reset
<1>8. Held(p, h) /\ Clocks(q, h) /\ h.active = q.active /\ h.astray = q.astray
  BY <1>4, <1>6, StillHeld
<1>9. QED BY <1>4, <1>6, <1>7, <1>8 DEF Clocks

\* A condition leaves the turtle it had selected for the lowest of the set.
Lowest(g, h) == h.active = g.active /\ h.current = Min(g.active)

LEMMA FirstLowest ==
  ASSUME NEW p, NEW g, Held(p, g)
  PROVE  LET h == select_first_active(g)
         IN  /\ Held(p, h) /\ Clocks(g, h) /\ Lowest(g, h) /\ ~h.astray
             /\ h.ok = g.ok /\ h.demons = g.demons
<1>1. PICK q : q = turtle_op_select(g, Min(g.active))
  OBVIOUS
<1>2. Steady(g, q) /\ q.ok = g.ok /\ q.current = Min(g.active) /\ Formed(q)
  BY <1>1, SelectSteady DEF Held
<1>3. PICK h : h = [q EXCEPT !.astray = FALSE]
  OBVIOUS
<1>4. select_first_active(g) = h
  BY <1>1, <1>3 DEF select_first_active
<1>5. Held(p, q) /\ Clocks(g, q) /\ q.active = g.active
  BY <1>2, StillHeld
<1>6. /\ h.demons = q.demons /\ h.tilemap = q.tilemap /\ h.active = q.active /\ h.now = q.now
      /\ h.alive = q.alive /\ h.credited = q.credited /\ h.sync = q.sync /\ h.last_tick = q.last_tick
      /\ h.ok = q.ok /\ h.have_ticked = q.have_ticked /\ h.frozen = q.frozen
      /\ h.suspended = q.suspended /\ h.current = q.current /\ h.astray = FALSE /\ DOMAIN h = DOMAIN q
  BY <1>2, <1>3 DEF Formed, Framed
<1>7. QED BY <1>2, <1>4, <1>5, <1>6 DEF Held, Formed, Demons, Mapped, Clocks, Lowest, Steady

LEMMA TellLowest ==
  ASSUME NEW p, NEW g, Held(p, g), NEW set \in TurtleSets
  PROVE  LET h == prim_tell(g, set)
         IN  /\ Held(p, h) /\ Clocks(g, h) /\ h.active = set /\ h.current = Min(set) /\ ~h.astray
             /\ h.ok = g.ok
<1>1. PICK q : q = [g EXCEPT !.active = set]
  OBVIOUS
<1>2. Held(p, q) /\ Clocks(g, q) /\ q.active = set /\ q.ok = g.ok
  BY <1>1 DEF Held, Formed, Framed, Demons, Mapped, Clocks
<1>3. prim_tell(g, set) = select_first_active(q)
  BY <1>1 DEF prim_tell
<1>4. QED BY <1>2, <1>3, FirstLowest DEF Clocks, Lowest

\* A turtle is selected to be looked at.
LEMMA SensedSteady ==
  ASSUME NEW g, Formed(g), NEW n
  PROVE  LET h == turtle_get_raster(g, n).g
         IN  Steady(g, h) /\ h.ok = g.ok /\ Formed(h)
<1>1. PICK q : q = turtle_op_select(g, n)
  OBVIOUS
<1>2. Steady(g, q) /\ q.ok = g.ok /\ Formed(q)
  BY <1>1, SelectSteady
<1>3. PICK h : h = turtle_update_raster(q)
  OBVIOUS
<1>4. Calm(q, h) /\ Formed(h)
  BY <1>2, <1>3, RasterCalm, CalmFormed
<1>5. turtle_get_raster(g, n).g = h
  BY <1>1, <1>3 DEF turtle_get_raster, RasterOf
<1>6. QED BY <1>2, <1>4, <1>5, SteadyTwice DEF Calm, Still

LEMMA ConditionHeld ==
  ASSUME NEW p, NEW g, Held(p, g), NEW cond
  PROVE  LET h == Condition(g, cond).g
         IN  Held(p, h) /\ Clocks(g, h) /\ (Lowest(g, h) \/ Set(g, h))
<1> DEFINE Kind(h) == Held(p, h) /\ Clocks(g, h) /\ (Lowest(g, h) \/ Set(g, h))
<1>1. ASSUME NEW h, Steady(g, h) PROVE Kind(select_first_active(h))
  <2>1. Held(p, h) /\ Clocks(g, h) /\ h.active = g.active
    BY <1>1, StillHeld
  <2>2. PICK f : f = select_first_active(h)
    OBVIOUS
  <2>3. Held(p, f) /\ Clocks(h, f) /\ Lowest(h, f)
    BY <2>1, <2>2, FirstLowest
  <2>4. QED BY <2>1, <2>2, <2>3 DEF Clocks, Lowest
<1>2. ASSUME NEW a, NEW b PROVE Kind(prim_touchingp(g, a, b).g)
  <2>1. PICK r : r = turtle_get_raster(g, a)
    OBVIOUS
  <2>2. Steady(g, r.g) /\ Formed(r.g)
    BY <2>1, SensedSteady DEF Held
  <2>3. PICK s : s = turtle_get_raster(r.g, b)
    OBVIOUS
  <2>4. Steady(g, s.g)
    BY <2>2, <2>3, SensedSteady, SteadyTwice
  <2>5. prim_touchingp(g, a, b).g = select_first_active(s.g)
    BY <2>1, <2>3 DEF prim_touchingp, TouchingSecond, Touching
  <2>6. QED BY <1>1, <2>4, <2>5
<1>3. ASSUME NEW colour PROVE Kind(prim_overp(g, colour).g)
  <2>1. PICK r : r = turtle_get_raster(g, Min(g.active))
    OBVIOUS
  <2>2. Steady(g, r.g) /\ Formed(r.g)
    BY <2>1, SensedSteady DEF Held
  <2>3. r.g.current = Min(g.active)
    <3>1. PICK q : q = turtle_op_select(g, Min(g.active))
      OBVIOUS
    <3>2. q.current = Min(g.active) /\ Formed(q)
      BY <3>1, SelectSteady DEF Held
    <3>3. Calm(q, turtle_update_raster(q))
      BY <3>2, RasterCalm
    <3>4. r.g = turtle_update_raster(q)
      BY <2>1, <3>1 DEF turtle_get_raster, RasterOf
    <3>5. QED BY <3>2, <3>3, <3>4 DEF Calm, Still
  <2>4. prim_overp(g, colour).g = r.g
    BY <2>1 DEF prim_overp, OverColour
  <2>5. QED BY <2>2, <2>3, <2>4, StillHeld DEF Lowest
<1>4. Kind([g EXCEPT !.ok = FALSE])
  BY DEF Held, Formed, Framed, Demons, Mapped, Clocks, Set
<1> HIDE DEF Kind
<1>5. Kind(Condition(g, cond).g)
  BY <1>2, <1>3, <1>4, Zenon DEF Condition
<1>6. QED BY <1>5 DEF Kind

\* The fold over the copies of a cell.
LEMMA CopiesIs ==
  ASSUME NEW g, NEW n, NEW S
  PROVE  FoldSet(LAMBDA at, b : bake_rect(b, at[1], at[2], Least(n, SCREEN_WIDTH - at[1]),
                                                           Least(n, SCREEN_HEIGHT - at[2])), g, S)
           = Fold("tile", n, g, S)
<1> DEFINE Onward(acc, x) == bake_rect(acc, x[1], x[2], Least(n, SCREEN_WIDTH - x[1]),
                                                        Least(n, SCREEN_HEIGHT - x[2]))
           Body(it, s) == LET x == CHOOSE y \in s : TRUE IN Onward(it[s \ {x}], x)
           Eq(it) == it = [s \in SUBSET S |-> IF s = {} THEN g ELSE Body(it, s)]
<1>1. \A it : FoldEq("tile", n, g, SUBSET S, it) <=> Eq(it)
  <2>1. ASSUME NEW it, NEW s
        PROVE  StepOf("tile", n, it[s \ {Pick("tile", s)}], Pick("tile", s)) = Body(it, s)
    <3>1. PICK x : x = CHOOSE y \in s : TRUE
      OBVIOUS
    <3>2. Pick("tile", s) = x
      BY <3>1, Picks
    <3>3. \A acc : StepOf("tile", n, acc, x) = Onward(acc, x)
      BY DEF StepOf
    <3> HIDE DEF Onward
    <3>4. Body(it, s) = Onward(it[s \ {x}], x)
      BY <3>1
    <3> HIDE DEF Body
    <3>5. QED BY <3>2, <3>3, <3>4
  <2> HIDE DEF Body
  <2>2. QED BY <2>1, Zenon DEF FoldEq
<1>2. (CHOOSE it : FoldEq("tile", n, g, SUBSET S, it)) = (CHOOSE it : Eq(it))
  <2> HIDE DEF Eq
  <2>1. QED BY <1>1, Zenon
<1>3. FoldSet(LAMBDA at, b : bake_rect(b, at[1], at[2], Least(n, SCREEN_WIDTH - at[1]),
                                                        Least(n, SCREEN_HEIGHT - at[2])), g, S)
        = (CHOOSE it : Eq(it))[S]
  BY Zenon DEF FoldSet, MapThenFoldSet
<1>4. QED BY <1>2, <1>3, Zenon DEF Fold

LEMMA CopiesCalm ==
  ASSUME NEW g, Formed(g), NEW n \in Int, NEW S, IsFiniteSet(S), S \subseteq Int \X Int
  PROVE  Calm(g, Fold("tile", n, g, S))
<1>1. Kept("tile", g, g)
  BY CalmSelf DEF Kept
<1>2. ASSUME NEW acc, NEW at \in S, Kept("tile", g, acc)
      PROVE  Kept("tile", g, StepOf("tile", n, acc, at))
  <2>1. Calm(g, acc) /\ Formed(acc)
    BY <1>2, CalmFormed DEF Kept
  <2>2. PICK h : h = Least(n, SCREEN_HEIGHT - at[2])
    OBVIOUS
  <2>3. h \in Int
    BY <2>2, TileAssumption DEF Least
  <2>4. \A w : Calm(acc, bake_rect(acc, at[1], at[2], w, h))
    BY <2>1, <2>3, BakeCalm
  <2>5. StepOf("tile", n, acc, at) = bake_rect(acc, at[1], at[2], Least(n, SCREEN_WIDTH - at[1]), h)
    BY <2>2 DEF StepOf
  <2>6. QED BY <2>1, <2>4, <2>5, CalmTwice DEF Kept
<1>3. \A s \in SUBSET S : s # {} => Pick("tile", s) \in s
  BY PicksMember DEF ByPlace
<1>4. Kept("tile", g, Fold("tile", n, g, S))
  BY <1>1, <1>2, <1>3, FoldKeeps
<1>5. QED BY <1>4 DEF Kept

LEMMA FiniteCopies ==
  ASSUME NEW first \in Int, NEW step, NEW limit \in Int
  PROVE  IsFiniteSet(Copies(first, step, limit)) /\ Copies(first, step, limit) \subseteq Int
<1>1. limit - 1 \in Int
  OBVIOUS
<1>2. IsFiniteSet(first .. limit - 1)
  BY <1>1, FS_Interval, Zenon
<1>3. Copies(first, step, limit) \in SUBSET (first .. limit - 1)
  BY DEF Copies
<1>4. QED BY <1>2, <1>3, FS_Subset

\* What the tiles leave of it: an error, or the lowest turtle of the set selected.
Home(g) == g.current = Min(g.active) \/ g.astray
Tiled(p, g, h) == Held(p, h) /\ Clocks(g, h) /\ (Lowest(g, h) \/ Set(g, h))

LEMMA StillTiled ==
  ASSUME NEW p, NEW g, NEW h, Held(p, g), Still(g, h)
  PROVE  Tiled(p, g, h)
BY StillHeld DEF Tiled, Still, Set

LEMMA FailedTiled ==
  ASSUME NEW p, NEW g, Held(p, g)
  PROVE  Tiled(p, g, [g EXCEPT !.ok = FALSE]) /\ Tiled(p, g, g)
BY DEF Tiled, Held, Formed, Framed, Demons, Mapped, Clocks, Set

LEMMA NewTilesTiled ==
  ASSUME NEW p, NEW g, Held(p, g)
  PROVE  /\ \A size \in TILE_SIZES : Tiled(p, g, tilemap_new_tiles(g, size))
         /\ \A cols, rows : Tiled(p, g, tilemap_new_map(g, cols, rows))
         /\ \A col, row, slot : Tiled(p, g, prim_settile(g, col, row, slot))
<1>1. ASSUME NEW m, {"size", "cells"} \subseteq DOMAIN m, m.size \in Nat,
             DOMAIN m.cells \subseteq Int \X Int
      PROVE  Tiled(p, g, [g EXCEPT !.tilemap = m])
  BY <1>1 DEF Tiled, Held, Formed, Framed, Demons, Mapped, Clocks, Set
<1>2. ASSUME NEW size \in TILE_SIZES PROVE Tiled(p, g, tilemap_new_tiles(g, size))
  <2>1. PICK m : m = [g.tilemap EXCEPT !.size = size, !.bank = [s \in TileSlots |-> NoTile]]
    OBVIOUS
  <2>2. size \in Nat
    BY SizeAssumption
  <2>3. {"size", "cells"} \subseteq DOMAIN m /\ m.size \in Nat /\ m.cells = g.tilemap.cells
    BY <2>1, <2>2 DEF Held, Mapped
  <2>4. tilemap_new_tiles(g, size) = [g EXCEPT !.tilemap = m]
    BY <2>1 DEF tilemap_new_tiles, Held, Formed, Framed
  <2>5. QED BY <1>1, <2>3, <2>4 DEF Held, Mapped
<1>3. ASSUME NEW cols, NEW rows PROVE Tiled(p, g, tilemap_new_map(g, cols, rows))
  <2> DEFINE cells == [c \in (0 .. cols - 1) \X (0 .. rows - 1) |-> 0]
  <2>1. PICK m : m = [g.tilemap EXCEPT !.cols = cols, !.rows = rows, !.cells = cells]
    OBVIOUS
  <2>2. DOMAIN cells \subseteq Int \X Int
    OBVIOUS
  <2> HIDE DEF cells
  <2>3. {"size", "cells"} \subseteq DOMAIN m /\ m.size = g.tilemap.size /\ m.cells = cells
    BY <2>1 DEF Held, Mapped
  <2>4. tilemap_new_map(g, cols, rows)
          = IF cols > TILE_MAP_SIZE \div rows THEN [g EXCEPT !.ok = FALSE] ELSE [g EXCEPT !.tilemap = m]
    BY <2>1 DEF tilemap_new_map, Held, Formed, Framed, cells
  <2>5. Tiled(p, g, [g EXCEPT !.tilemap = m])
    BY <1>1, <2>2, <2>3 DEF Held, Mapped
  <2>6. QED BY <2>4, <2>5, FailedTiled
<1>4. ASSUME NEW col, NEW row, NEW slot PROVE Tiled(p, g, prim_settile(g, col, row, slot))
  <2>1. PICK m : m = [g.tilemap EXCEPT !.cells[<<col - 1, row - 1>>] = slot]
    OBVIOUS
  <2>2. /\ {"size", "cells"} \subseteq DOMAIN m /\ m.size = g.tilemap.size
        /\ DOMAIN m.cells = DOMAIN g.tilemap.cells
    BY <2>1 DEF Held, Mapped
  <2>3. prim_settile(g, col, row, slot)
          = IF <<col - 1, row - 1>> \notin DOMAIN g.tilemap.cells THEN [g EXCEPT !.ok = FALSE]
            ELSE [g EXCEPT !.tilemap = m]
    BY <2>1 DEF prim_settile, Held, Formed, Framed
  <2>4. Tiled(p, g, [g EXCEPT !.tilemap = m])
    BY <1>1, <2>2 DEF Held, Mapped
  <2>5. QED BY <2>3, <2>4, FailedTiled
<1>5. QED BY <1>2, <1>3, <1>4

LEMMA SnapTiled ==
  ASSUME NEW p, NEW g, Held(p, g), NEW slot
  PROVE  Tiled(p, g, prim_snaptile(g, slot))
<1> DEFINE t == g.turtles[Min(g.active)]
           n == g.tilemap.size
           snapped == screen_gfx_snap(g, t.x - (n \div 2), t.y - (n \div 2), n, n)
<1>1. PICK h : h = [g EXCEPT !.tilemap.bank[slot] = snapped]
  OBVIOUS
<1>2. prim_snaptile(g, slot) = IF n = 0 THEN [g EXCEPT !.ok = FALSE] ELSE select_first_active(h)
  BY <1>1 DEF prim_snaptile
<1> HIDE DEF snapped
<1>3. Held(p, h) /\ Clocks(g, h) /\ h.active = g.active
  BY <1>1 DEF Held, Formed, Framed, Demons, Mapped, Clocks
<1>4. Tiled(p, g, select_first_active(h))
  BY <1>3, FirstLowest DEF Tiled, Clocks, Lowest
<1>5. QED BY <1>2, <1>4, FailedTiled

LEMMA StampTiled ==
  ASSUME NEW p, NEW g, Held(p, g)
  PROVE  /\ Tiled(p, g, prim_stampmap(g))
         /\ \A col, row : Tiled(p, g, prim_stamptile(g, col, row))
<1>1. Tiled(p, g, prim_stampmap(g))
  <2>1. SCREEN_HEIGHT \in Int
    BY TileAssumption
  <2>2. Calm(g, bake_rect(g, 0, 0, SCREEN_WIDTH, SCREEN_HEIGHT))
    BY <2>1, BakeCalm DEF Held
  <2>3. QED BY <2>2, StillTiled, FailedTiled DEF prim_stampmap, Calm
<1>2. ASSUME NEW col, NEW row PROVE Tiled(p, g, prim_stamptile(g, col, row))
  <2> DEFINE n == g.tilemap.size
             S == Copies((col - 1) * n, g.tilemap.cols * n, SCREEN_WIDTH)
                    \X Copies((row - 1) * n, g.tilemap.rows * n, SCREEN_HEIGHT)
  <2>1. prim_stamptile(g, col, row)
          = IF <<col - 1, row - 1>> \notin DOMAIN g.tilemap.cells THEN [g EXCEPT !.ok = FALSE]
            ELSE IF ~BakeReady(g) THEN g
            ELSE FoldSet(LAMBDA at, b : bake_rect(b, at[1], at[2], Least(n, SCREEN_WIDTH - at[1]),
                                                  Least(n, SCREEN_HEIGHT - at[2])), g, S)
    BY Zenon DEF prim_stamptile
  <2>2. ASSUME <<col - 1, row - 1>> \in DOMAIN g.tilemap.cells
        PROVE  Tiled(p, g, Fold("tile", n, g, S))
    <3>1. col - 1 \in Int /\ row - 1 \in Int /\ n \in Int
      BY <2>2 DEF Held, Mapped
    <3>2. (col - 1) * n \in Int /\ (row - 1) * n \in Int
      BY <3>1
    <3>3. SCREEN_WIDTH \in Int /\ SCREEN_HEIGHT \in Int
      BY TileAssumption
    <3>4. /\ IsFiniteSet(Copies((col - 1) * n, g.tilemap.cols * n, SCREEN_WIDTH))
          /\ Copies((col - 1) * n, g.tilemap.cols * n, SCREEN_WIDTH) \subseteq Int
          /\ IsFiniteSet(Copies((row - 1) * n, g.tilemap.rows * n, SCREEN_HEIGHT))
          /\ Copies((row - 1) * n, g.tilemap.rows * n, SCREEN_HEIGHT) \subseteq Int
      <4> HIDE DEF n
      <4>1. QED BY <3>2, <3>3, FiniteCopies, Zenon
    <3>5. IsFiniteSet(S) /\ S \subseteq Int \X Int
      BY <3>4, FS_Product
    <3> HIDE DEF S
    <3>6. Calm(g, Fold("tile", n, g, S))
      BY <3>1, <3>5, CopiesCalm DEF Held
    <3>7. QED BY <3>6, StillTiled DEF Calm
  <2>3. FoldSet(LAMBDA at, b : bake_rect(b, at[1], at[2], Least(n, SCREEN_WIDTH - at[1]),
                                         Least(n, SCREEN_HEIGHT - at[2])), g, S)
          = Fold("tile", n, g, S)
    <3> HIDE DEF n, S
    <3>1. QED BY CopiesIs
  <2> HIDE DEF S, n
  <2>4. PICK f : f = Fold("tile", n, g, S)
    OBVIOUS
  <2>5. Tiled(p, g, [g EXCEPT !.ok = FALSE]) /\ Tiled(p, g, g)
    BY FailedTiled
  <2>6. <<col - 1, row - 1>> \in DOMAIN g.tilemap.cells => Tiled(p, g, f)
    BY <2>2, <2>4
  <2>7. prim_stamptile(g, col, row)
          = IF <<col - 1, row - 1>> \notin DOMAIN g.tilemap.cells THEN [g EXCEPT !.ok = FALSE]
            ELSE IF ~BakeReady(g) THEN g ELSE f
    BY <2>1, <2>3, <2>4, Zenon
  <2>8. QED BY <2>5, <2>6, <2>7, Zenon
<1>3. QED BY <1>1, <1>2

-----------------------------------------------------------------------------
(* The screen's mode and the pace of its frames.                             *)

LEMMA ModeCalm ==
  ASSUME NEW g, Formed(g), NEW mode
  PROVE  Calm(g, screen_set_mode(g, mode))
<1> DEFINE Covered(h) == [h EXCEPT !.panel = [q \in Pixels |->
                            IF q \in Visible(mode) THEN @[q] ELSE Ink]]
<1>1. ASSUME NEW h, Calm(g, h) PROVE Calm(g, Covered(h))
  <2>1. Formed(h)
    BY <1>1, CalmFormed
  <2>2. Calm(h, Covered(h))
    BY <2>1 DEF Calm, Still, Steady, Formed, Framed
  <2>3. QED BY <1>1, <2>2, CalmTwice
<1>2. PICK q : q = [g EXCEPT !.mode = mode]
  OBVIOUS
<1>3. Calm(g, q) /\ Formed(q)
  BY <1>2 DEF Calm, Still, Steady, Formed, Framed
<1>4. PICK r : r = screen_gfx_mark_all_dirty(q)
  OBVIOUS
<1>5. Calm(g, r) /\ Formed(r)
  BY <1>3, <1>4, MarkAllCalm, CalmTwice, CalmFormed
<1>6. Calm(g, screen_gfx_present(r))
  BY <1>5, UpdateCalm, CalmTwice
<1>7. screen_set_mode(g, mode)
        = IF g.mode = mode THEN g ELSE IF mode = "TXT" THEN Covered(q) ELSE Covered(screen_gfx_present(r))
  BY <1>2, <1>4 DEF screen_set_mode
<1> HIDE DEF Covered
<1>8. QED BY <1>1, <1>3, <1>6, <1>7, CalmSelf

\* What holds of the clocks.
Timed(g) ==
    /\ g.now \in Int /\ g.alive \in Int /\ g.credited \in Int /\ g.last_tick \in Int
    /\ DOMAIN g.sync = {"active", "period", "deadline", "have"}
    /\ g.sync.period \in Nat /\ g.sync.deadline \in Int
    /\ g.credited <= g.alive
    /\ g.have_ticked /\ ~g.frozen /\ ~g.suspended => g.credited + (g.now - g.last_tick) <= g.alive
    /\ g.sync.have => g.sync.deadline <= g.now

LEMMA ClocksTimed ==
  ASSUME NEW g, NEW h, Timed(g), Clocks(g, h)
  PROVE  Timed(h)
BY DEF Timed, Clocks

\* Time passes, or a frame's time begins: the tables and the selection stay.
Waited(p, g, h) == Held(p, h) /\ Set(g, h) /\ h.ok = g.ok

LEMMA WaitedHeld ==
  ASSUME NEW p, NEW g, NEW h, Held(p, g), DOMAIN h = DOMAIN g, h.demons = g.demons,
         h.tilemap = g.tilemap, Set(g, h), h.ok = g.ok
  PROVE  Waited(p, g, h)
BY DEF Waited, Held, Formed, Demons, Mapped, Set

LEMMA PassedTimed ==
  ASSUME NEW p, NEW g, Held(p, g), Timed(g), NEW ms \in Nat
  PROVE  Timed(Passed(g, ms)) /\ Waited(p, g, Passed(g, ms))
<1>1. PICK h : h = Passed(g, ms)
  OBVIOUS
<1>2. /\ h.now = g.now + ms /\ h.alive = g.alive + (IF g.frozen \/ g.suspended THEN 0 ELSE ms)
      /\ h.credited = g.credited /\ h.last_tick = g.last_tick /\ h.sync = g.sync
      /\ h.have_ticked = g.have_ticked /\ h.frozen = g.frozen /\ h.suspended = g.suspended
      /\ h.demons = g.demons /\ h.tilemap = g.tilemap /\ h.active = g.active /\ h.astray = g.astray
      /\ h.current = g.current /\ h.ok = g.ok /\ DOMAIN h = DOMAIN g
  BY <1>1 DEF Passed, Held, Formed, Framed
<1>3. Timed(h)
  BY <1>2 DEF Timed
<1>4. QED BY <1>1, <1>2, <1>3, WaitedHeld DEF Set

LEMMA FrameSyncTimed ==
  ASSUME NEW p, NEW g, Held(p, g), Timed(g)
  PROVE  /\ \A period \in Nat : Timed(frame_sync_set(g, period)) /\ Waited(p, g, frame_sync_set(g, period))
         /\ Timed(frame_sync_reset(g)) /\ Waited(p, g, frame_sync_reset(g))
<1>1. ASSUME NEW s, DOMAIN s = {"active", "period", "deadline", "have"}, s.period \in Nat,
             s.deadline \in Int, s.have = FALSE
      PROVE  Timed([g EXCEPT !.sync = s]) /\ Waited(p, g, [g EXCEPT !.sync = s])
  <2>1. PICK h : h = [g EXCEPT !.sync = s]
    OBVIOUS
  <2>2. /\ h.now = g.now /\ h.alive = g.alive /\ h.sync = s
        /\ h.credited = g.credited /\ h.last_tick = g.last_tick
        /\ h.have_ticked = g.have_ticked /\ h.frozen = g.frozen /\ h.suspended = g.suspended
        /\ h.demons = g.demons /\ h.tilemap = g.tilemap /\ h.active = g.active /\ h.astray = g.astray
        /\ h.current = g.current /\ h.ok = g.ok /\ DOMAIN h = DOMAIN g
    BY <2>1 DEF Held, Formed, Framed
  <2>3. QED BY <1>1, <2>1, <2>2, WaitedHeld DEF Timed, Set
<1>2. ASSUME NEW period \in Nat
      PROVE  Timed(frame_sync_set(g, period)) /\ Waited(p, g, frame_sync_set(g, period))
  <2>1. PICK s : s = [active |-> period > 0, period |-> period, deadline |-> g.sync.deadline, have |-> FALSE]
    OBVIOUS
  <2>2. frame_sync_set(g, period) = [g EXCEPT !.sync = s]
    BY <2>1 DEF frame_sync_set, Held, Formed, Framed
  <2>3. g.sync.deadline \in Int
    BY DEF Timed
  <2>4. QED BY <1>1, <2>1, <2>2, <2>3
<1>3. Timed(frame_sync_reset(g)) /\ Waited(p, g, frame_sync_reset(g))
  <2>1. PICK s : s = [active |-> FALSE, period |-> 0, deadline |-> 0, have |-> FALSE]
    OBVIOUS
  <2>2. frame_sync_reset(g) = [g EXCEPT !.sync = s]
    BY <2>1 DEF frame_sync_reset
  <2>3. /\ DOMAIN s = {"active", "period", "deadline", "have"} /\ s.period \in Nat
        /\ s.deadline \in Int /\ s.have = FALSE
    BY <2>1
  <2>4. QED BY <1>1, <2>2, <2>3
<1>4. QED BY <1>2, <1>3

LEMMA SyncTimed ==
  ASSUME NEW p, NEW g, Held(p, g), Timed(g)
  PROVE  Timed(prim_sync(g)) /\ Waited(p, g, prim_sync(g))
<1>1. PICK q : q = screen_gfx_present(g)
  OBVIOUS
<1>2. Calm(g, q)
  BY <1>1, UpdateCalm DEF Held
<1>3. Held(p, q) /\ Timed(q) /\ Waited(p, g, q) /\ q.sync = g.sync /\ q.now = g.now
  BY <1>2, StillHeld, ClocksTimed DEF Calm, Still, Steady, Waited, Set
<1>4. ASSUME NEW due \in Int PROVE Timed(Paced(q, due)) /\ Waited(p, q, Paced(q, due))
  <2>1. PICK early : early = [q EXCEPT !.sync.deadline = due, !.sync.have = TRUE]
    OBVIOUS
  <2>2. PICK late : late = [q EXCEPT !.sync.deadline = q.now, !.sync.have = TRUE]
    OBVIOUS
  <2>3. Paced(q, due) = IF due < q.now THEN late ELSE Passed(early, due - q.now)
    BY <2>1, <2>2 DEF Paced
  <2>4. /\ late.now = q.now /\ late.alive = q.alive /\ late.credited = q.credited
        /\ late.last_tick = q.last_tick /\ late.have_ticked = q.have_ticked /\ late.frozen = q.frozen
        /\ late.suspended = q.suspended /\ late.demons = q.demons /\ late.tilemap = q.tilemap
        /\ late.active = q.active /\ late.astray = q.astray /\ late.current = q.current
        /\ late.ok = q.ok /\ DOMAIN late = DOMAIN q
        /\ late.sync.deadline = q.now /\ late.sync.period = q.sync.period
        /\ DOMAIN late.sync = DOMAIN q.sync
    BY <1>3, <2>2 DEF Held, Formed, Framed, Timed
  <2>5. Timed(late) /\ Waited(p, q, late)
    BY <1>3, <2>4, WaitedHeld DEF Timed, Set
  <2>6. CASE ~(due < q.now)
    <3>1. PICK ms : ms = due - q.now
      OBVIOUS
    <3>2. ms \in Nat
      BY <1>3, <2>6, <3>1 DEF Timed
    <3>3. PICK h : h = Passed(early, ms)
      OBVIOUS
    <3>4. /\ h.now = due /\ h.alive = q.alive + (IF q.frozen \/ q.suspended THEN 0 ELSE ms)
          /\ h.credited = q.credited
          /\ h.last_tick = q.last_tick /\ h.have_ticked = q.have_ticked /\ h.frozen = q.frozen
          /\ h.suspended = q.suspended /\ h.demons = q.demons /\ h.tilemap = q.tilemap
          /\ h.active = q.active /\ h.astray = q.astray /\ h.current = q.current
          /\ h.ok = q.ok /\ DOMAIN h = DOMAIN q
          /\ h.sync.deadline = due /\ h.sync.period = q.sync.period
          /\ DOMAIN h.sync = DOMAIN q.sync
      <4>1. early.now + ms = due /\ early.alive = q.alive
        BY <1>3, <2>1, <3>1 DEF Held, Formed, Framed, Timed
      <4>2. QED BY <1>3, <2>1, <3>3, <4>1 DEF Held, Formed, Framed, Timed, Passed
    <3>5. Timed(h) /\ Waited(p, q, h)
      BY <1>3, <3>1, <3>2, <3>4, WaitedHeld DEF Timed, Set
    <3>6. QED BY <2>3, <2>6, <3>1, <3>3, <3>5
  <2>7. QED BY <2>3, <2>5, <2>6
<1>5. PICK due : due = g.sync.period + (IF g.sync.have THEN g.sync.deadline ELSE g.now)
  OBVIOUS
<1>6. due \in Int
  BY <1>5 DEF Timed
<1>7. prim_sync(g) = IF ~g.sync.active THEN q ELSE Paced(q, due)
  BY <1>1, <1>5 DEF prim_sync
<1>8. Timed(Paced(q, due)) /\ Waited(p, g, Paced(q, due))
  BY <1>3, <1>4, <1>6 DEF Waited, Set
<1>9. QED BY <1>3, <1>7, <1>8

-----------------------------------------------------------------------------
(* Lists of calls.                                                           *)

IsSeq(s) == \E V : s \in Seq(V)
Members(s) == {s[i] : i \in 1 .. Len(s)}

LEMMA SeqLen ==
  ASSUME NEW s, IsSeq(s)
  PROVE  Len(s) \in Nat /\ DOMAIN s = 1 .. Len(s) /\ (s = <<>> <=> Len(s) = 0) /\ s \in Seq(Members(s))
<1>1. PICK V : s \in Seq(V)
  BY DEF IsSeq
<1>2. Len(s) \in Nat /\ DOMAIN s = 1 .. Len(s) /\ (s = <<>> <=> Len(s) = 0)
  BY <1>1, EmptySeq
<1>3. s = [i \in 1 .. Len(s) |-> s[i]]
  BY <1>1
<1>4. s \in [1 .. Len(s) -> Members(s)]
  BY <1>3 DEF Members
<1>5. QED BY <1>2, <1>4

LEMMA SeqCat ==
  ASSUME NEW s, NEW t, IsSeq(s), IsSeq(t)
  PROVE  /\ IsSeq(s \o t) /\ Len(s \o t) = Len(s) + Len(t)
         /\ \A i \in 1 .. Len(s \o t) : (s \o t)[i] = IF i <= Len(s) THEN s[i] ELSE t[i - Len(s)]
<1>1. PICK V : s \in Seq(V)
  BY DEF IsSeq
<1>2. PICK W : t \in Seq(W)
  BY DEF IsSeq
<1>3. s \in Seq(V \cup W) /\ t \in Seq(V \cup W)
  BY <1>1, <1>2
<1>4. s \o t \in Seq(V \cup W)
  BY <1>3
<1>5. QED BY <1>3, <1>4, ConcatProperties DEF IsSeq

LEMMA SeqTail ==
  ASSUME NEW s, IsSeq(s), s # <<>>
  PROVE  /\ IsSeq(Tail(s)) /\ Len(Tail(s)) = Len(s) - 1 /\ Len(s) >= 1 /\ Head(s) = s[1]
         /\ \A i \in 1 .. Len(s) - 1 : Tail(s)[i] = s[i + 1]
<1>1. PICK V : s \in Seq(V)
  BY DEF IsSeq
<1>2. QED BY <1>1, HeadTailProperties, SeqLen DEF IsSeq

\* What every part is made of, the whole is made of.
LEMMA FlattenIn ==
  ASSUME NEW V, NEW n \in Nat, NEW s, IsSeq(s), Len(s) = n, \A i \in 1 .. n : s[i] \in Seq(V)
  PROVE  FlattenSeq(s) \in Seq(V)
<1>1. CASE n = 0
  <2>1. s = <<>>
    BY <1>1, SeqLen
  <2>2. FlattenSeq(s) = s
    BY <1>1, Zenon DEF FlattenSeq
  <2>3. <<>> \in Seq(V)
    OBVIOUS
  <2>4. QED BY <2>1, <2>2, <2>3, Zenon
<1>2. CASE n # 0
  <2> DEFINE Eq(D, f) == f = [i \in D |-> IF i = 1 THEN s[i] ELSE f[i - 1] \o s[i]]
             Good == {m \in Nat : \E f : Eq(1 .. m, f)}
             Bad == Nat \ Good
  <2>1. 0 \in Good
    <3>1. \E f : Eq(1 .. 0, f)
      <4>1. Eq(1 .. 0, [i \in 1 .. 0 |-> s])
        OBVIOUS
      <4> HIDE DEF Eq
      <4>2. QED BY <4>1, Zenon
    <3> HIDE DEF Eq
    <3>2. QED BY <3>1
  <2>2. ASSUME NEW m \in Nat, m \in Good PROVE m + 1 \in Good
    <3>1. PICK f : Eq(1 .. m, f)
      <4> HIDE DEF Eq
      <4>1. QED BY <2>2
    <3> DEFINE h == [i \in 1 .. m + 1 |-> IF i = 1 THEN s[i] ELSE f[i - 1] \o s[i]]
    <3>2. \A i \in 1 .. m : h[i] = f[i]
      <4> SUFFICES ASSUME NEW i \in 1 .. m PROVE h[i] = f[i]
        OBVIOUS
      <4>1. f[i] = IF i = 1 THEN s[i] ELSE f[i - 1] \o s[i]
        BY <3>1, Zenon
      <4>2. i \in 1 .. m + 1
        OBVIOUS
      <4>3. QED BY <4>1, <4>2, Zenon
    <3>3. \A i \in 1 .. m + 1 : i = 1 \/ i - 1 \in 1 .. m
      OBVIOUS
    <3>4. \A i \in 1 .. m + 1 : (IF i = 1 THEN s[i] ELSE f[i - 1] \o s[i])
                                  = (IF i = 1 THEN s[i] ELSE h[i - 1] \o s[i])
      <4> HIDE DEF h
      <4>1. QED BY <3>2, <3>3
    <3>5. h = [i \in 1 .. m + 1 |-> IF i = 1 THEN s[i] ELSE h[i - 1] \o s[i]]
      BY <3>4, Zenon
    <3> HIDE DEF h
    <3>6. Eq(1 .. m + 1, h)
      BY <3>5
    <3>7. m + 1 \in Nat
      OBVIOUS
    <3> HIDE DEF Eq
    <3>8. QED BY <3>6, <3>7
  <2>3. n \in Good
    <3> HIDE DEF Good
    <3>1. ASSUME Bad # {} PROVE FALSE
      <4>1. PICK m \in Bad : \A y \in Bad : m <= y
        BY <3>1, LeastOf
      <4>2. m # 0 /\ m - 1 \in Nat /\ ~ (m <= m - 1)
        BY <2>1, <4>1
      <4>3. m - 1 \in Good /\ m - 1 + 1 = m
        BY <4>1, <4>2
      <4>4. QED BY <2>2, <4>1, <4>2, <4>3
    <3>2. QED BY <3>1
  <2>4. PICK f : f = CHOOSE e : Eq(1 .. n, e)
    OBVIOUS
  <2>5. Eq(1 .. n, f)
    BY <2>3, <2>4
  <2>6. FlattenSeq(s) = f[n]
    <3>1. FlattenSeq(s) = (CHOOSE e : Eq(1 .. Len(s), e))[Len(s)]
      BY <1>2, Zenon DEF FlattenSeq
    <3> HIDE DEF Eq
    <3>2. QED BY <2>4, <3>1
  <2> DEFINE Short == {m \in Nat : m \in 1 .. n /\ f[m] \notin Seq(V)}
  <2>7. ASSUME Short # {} PROVE FALSE
    <3>1. Short \in SUBSET Nat
      OBVIOUS
    <3>2. PICK m \in Short : \A y \in Short : m <= y
      <4> HIDE DEF Short
      <4>1. QED BY <2>7, <3>1, LeastOf
    <3>3. f[m] = IF m = 1 THEN s[m] ELSE f[m - 1] \o s[m]
      BY <2>5, <3>2
    <3>4. m # 1 /\ m - 1 \in 1 .. n /\ m - 1 \in Nat /\ ~ (m <= m - 1)
      BY <3>2, <3>3
    <3>5. f[m - 1] \in Seq(V)
      BY <3>2, <3>4
    <3>6. f[m - 1] \o s[m] \in Seq(V)
      BY <3>2, <3>5
    <3>7. QED BY <3>2, <3>3, <3>4, <3>6
  <2>8. QED BY <1>2, <2>6, <2>7
<1>3. QED BY <1>1, <1>2

\* The turtles of a set in ascending order are turtles of the set.
LEMMA AscendingIn ==
  ASSUME NEW S \in SUBSET AllTurtles, NEW i \in 1 .. Cardinality(S)
  PROVE  Ascending(S)[i] \in S
<1> DEFINE Below(b) == {d \in S : d < b}
           Bound == {b \in Nat : Cardinality(Below(b)) >= i}
<1>1. IsFiniteSet(S) /\ Cardinality(S) \in Nat /\ S \in SUBSET Nat
  BY FiniteTurtles, FS_CardinalityType
<1>2. \A b : IsFiniteSet(Below(b)) /\ Cardinality(Below(b)) \in Nat
  <2>1. \A b : Below(b) \in SUBSET S
    OBVIOUS
  <2> HIDE DEF Below
  <2>2. QED BY <1>1, <2>1, Parts
<1>3. Bound # {} /\ Bound \in SUBSET Nat
  <2>1. MAX_TURTLES \in Nat /\ \A d \in S : d < MAX_TURTLES
    BY TurtleAssumption, SpriteAssumption DEF AllTurtles
  <2>2. Below(MAX_TURTLES) = S
    BY <2>1
  <2>3. Cardinality(Below(MAX_TURTLES)) >= i
    BY <1>1, <2>2
  <2>4. QED BY <2>1, <2>3
<1>4. PICK b \in Bound : \A y \in Bound : b <= y
  <2> HIDE DEF Bound
  <2>1. QED BY <1>3, LeastOf
<1>5. b \in Nat /\ Cardinality(Below(b)) >= i
  BY <1>4
<1>6. b # 0
  <2>1. ASSUME b = 0 PROVE FALSE
    <3>1. \A d \in S : ~(d < 0)
      BY <1>1
    <3>2. Below(b) = {}
      BY <2>1, <3>1
    <3>3. Cardinality(Below(b)) = 0
      BY <3>2, FS_EmptySet
    <3>4. QED BY <1>5, <3>3
  <2>2. QED BY <2>1
<1>7. PICK e \in Nat : b = e + 1
  <2>1. b - 1 \in Nat /\ b = b - 1 + 1
    BY <1>5, <1>6
  <2>2. QED BY <2>1
<1>8. \A d \in S : d < b <=> d < e \/ d = e
  BY <1>1, <1>7
<1>9. Cardinality(Below(e)) < i
  <2>1. e \notin Bound
    BY <1>4, <1>7
  <2>2. QED BY <1>2, <2>1
<1>10. e \in S
  <2>1. ASSUME e \notin S PROVE FALSE
    <3>1. Below(b) = Below(e)
      BY <1>8, <2>1
    <3> HIDE DEF Below
    <3>2. QED BY <1>2, <1>5, <1>9, <3>1
  <2>2. QED BY <2>1
<1>11. Cardinality(Below(e)) = i - 1
  <2>1. ~(e < e)
    BY <1>7
  <2>2. Below(b) = Below(e) \cup {e} /\ e \notin Below(e)
    BY <1>8, <1>10, <2>1
  <2> HIDE DEF Below
  <2>3. Cardinality(Below(b)) = Cardinality(Below(e)) + 1
    BY <1>2, <2>2, FS_AddElement
  <2>4. QED BY <1>2, <1>5, <1>9, <2>3
<1>12. Ascending(S)[i] = CHOOSE x \in S : Cardinality({d \in S : d < x}) = i - 1
  BY Zenon DEF Ascending, InOrder
<1>13. QED BY <1>10, <1>11, <1>12

-----------------------------------------------------------------------------
(* What is still to come: the calls take what they are given, and a tick is  *)
(* the next or none.                                                         *)

Fit(p, call) ==
    /\ call.verb = "address" => call.a \in TurtleSets
    /\ call.verb \in {"poll", "setsync"} => call.a \in Nat
    /\ call.verb = "setrefresh" => call.b \in Nat
    /\ call.verb = "newtiles" => call.a \in TILE_SIZES
    /\ call.verb = "when" => call.b \in {NODE_NIL} \cup DOMAIN p.actions
    /\ call.verb = "turn" => call.a \in DemonSlots
    /\ call.verb = "arc" => call.a \in Nat
    /\ call.verb = "fan" => call.a.verb \in EachTurtles /\ (call.a.verb = "arc" => call.a.a \in Nat)
    /\ call.verb = "do" => \E i \in DOMAIN p.ops : call.a = p.ops[i]
    /\ call.verb = "tick" => ~call.always
Fits(p, g, c) ==
    /\ IsSeq(c)
    /\ \A i \in 1 .. Len(c) : Fit(p, c[i]) /\ (c[i].verb = "tick" => i = 1 /\ ~g.frozen /\ ~g.suspended)

\* Whom a command addresses.  After an error, or between the turtles that a command
\* comes to, another turtle than the lowest of the set is selected; but then a call
\* that selects the lowest is still to come, and comes before any other command: it is
\* made whatever happens, or nothing before it can fail.
Ticking == {"select", "glide", "animate", "frames"}
Inner == EachTurtles \cup {"first", "stop", "clean", "address"} \cup Ticking
Strays(g, c, i) == IF i = 0 THEN ~Home(g) ELSE c[i].verb \in {"select", "stop"}
Closes(g, c, k) ==
    \/ /\ c[k].verb = "first" /\ c[k].always
       /\ \A j \in 1 .. k : c[j].verb \in Inner
    \/ /\ g.ok /\ c[k].verb = "select" /\ (c[k].a = Min(g.active) \/ g.astray)
       /\ \A j \in 1 .. k : c[j].verb \in Ticking
Addressed(g, c) ==
    \A i \in 0 .. Len(c) : Strays(g, c, i) => \E k \in 1 .. Len(c) : i <= k /\ Closes(g, c, k)

LEMMA FitsTail ==
  ASSUME NEW p, NEW g, NEW h, NEW c, Fits(p, g, c), c # <<>>
  PROVE  Fits(p, h, Tail(c)) /\ \A i \in 1 .. Len(Tail(c)) : Tail(c)[i].verb # "tick"
<1>1. /\ IsSeq(Tail(c)) /\ Len(Tail(c)) = Len(c) - 1 /\ Len(c) \in Nat /\ Len(c) >= 1
      /\ \A i \in 1 .. Len(c) - 1 : Tail(c)[i] = c[i + 1]
  BY SeqTail, SeqLen DEF Fits
<1>2. ASSUME NEW i \in 1 .. Len(Tail(c))
      PROVE  Fit(p, Tail(c)[i]) /\ Tail(c)[i].verb # "tick"
  <2>1. i + 1 \in 1 .. Len(c) /\ i + 1 # 1 /\ Tail(c)[i] = c[i + 1]
    BY <1>1
  <2>2. QED BY <2>1 DEF Fits
<1>3. QED BY <1>1, <1>2 DEF Fits

LEMMA FitsMore ==
  ASSUME NEW p, NEW g, NEW h, NEW c, Fits(p, g, c), c # <<>>, NEW x, Fits(p, h, x)
  PROVE  Fits(p, h, x \o Tail(c))
<1>1. /\ IsSeq(Tail(c)) /\ IsSeq(x) /\ Len(x) \in Nat /\ Len(Tail(c)) \in Nat
  BY SeqTail, SeqLen DEF Fits
<1>2. PICK t : t = Tail(c)
  OBVIOUS
<1>3. PICK y : y = x \o t
  OBVIOUS
<1>4. /\ IsSeq(y) /\ Len(y) = Len(x) + Len(t)
      /\ \A i \in 1 .. Len(y) : y[i] = IF i <= Len(x) THEN x[i] ELSE t[i - Len(x)]
  BY <1>1, <1>2, <1>3, SeqCat
<1>5. \A i \in 1 .. Len(t) : Fit(p, t[i]) /\ t[i].verb # "tick"
  BY <1>2, FitsTail DEF Fits
<1>6. ASSUME NEW i \in 1 .. Len(y)
      PROVE  Fit(p, y[i]) /\ (y[i].verb = "tick" => i = 1 /\ ~h.frozen /\ ~h.suspended)
  <2>1. CASE i <= Len(x)
    BY <1>1, <1>4, <2>1 DEF Fits
  <2>2. CASE ~(i <= Len(x))
    <3>1. i - Len(x) \in 1 .. Len(t)
      BY <1>1, <1>2, <1>4, <2>2
    <3>2. QED BY <1>4, <1>5, <2>2, <3>1
  <2>3. QED BY <2>1, <2>2
<1>7. QED BY <1>2, <1>3, <1>4, <1>6 DEF Fits

\* What the head of the calls may do.
LEMMA AddressedTail ==
  ASSUME NEW g, NEW h, NEW c, IsSeq(c), c # <<>>, Addressed(g, c),
         c[1].verb \in Ticking => h.active = g.active /\ h.astray = g.astray /\ (g.ok => h.ok),
         \/ Home(h) \/ c[1].verb = "stop" \/ (c[1].verb = "select" /\ h.current = c[1].a)
         \/ c[1].verb \notin {"select", "first"} /\ (Home(g) => Home(h))
  PROVE  Addressed(h, Tail(c))
<1>1. PICK t : t = Tail(c)
  OBVIOUS
<1>2. /\ Len(t) = Len(c) - 1 /\ Len(c) \in Nat /\ Len(c) >= 1
      /\ \A i \in 1 .. Len(c) - 1 : t[i] = c[i + 1]
  BY <1>1, SeqTail, SeqLen
<1>3. ASSUME NEW k \in 2 .. Len(c), Closes(g, c, k)
      PROVE  Closes(h, t, k - 1) /\ k - 1 \in 1 .. Len(t)
  <2>1. k - 1 \in 1 .. Len(t) /\ t[k - 1] = c[k] /\ 1 \in 1 .. k
    BY <1>2
  <2>2. \A j \in 1 .. k - 1 : t[j] = c[j + 1] /\ j + 1 \in 1 .. k
    BY <1>2
  <2>3. QED BY <1>3, <2>1, <2>2 DEF Closes
<1>4. ASSUME NEW i \in 0 .. Len(t), Strays(h, t, i)
      PROVE  \E k \in 1 .. Len(t) : i <= k /\ Closes(h, t, k)
  <2>1. CASE i # 0
    <3>1. i + 1 \in 0 .. Len(c) /\ i + 1 # 0 /\ t[i] = c[i + 1]
      BY <1>2, <2>1
    <3>2. Strays(g, c, i + 1)
      BY <1>4, <2>1, <3>1 DEF Strays
    <3>3. PICK k \in 1 .. Len(c) : i + 1 <= k /\ Closes(g, c, k)
      BY <3>1, <3>2 DEF Addressed
    <3>4. k \in 2 .. Len(c) /\ i <= k - 1
      BY <2>1, <3>3
    <3>5. QED BY <1>3, <3>3, <3>4
  <2>2. CASE i = 0
    <3>1. ~Home(h)
      BY <1>4, <2>2 DEF Strays
    <3>2. ASSUME NEW k \in 2 .. Len(c), Closes(g, c, k)
          PROVE  \E m \in 1 .. Len(t) : i <= m /\ Closes(h, t, m)
      <4>1. k - 1 \in 1 .. Len(t) /\ Closes(h, t, k - 1) /\ i <= k - 1
        BY <1>3, <2>2, <3>2
      <4>2. QED BY <4>1
    <3>3. CASE c[1].verb \in {"stop", "select"}
      <4>1. Strays(g, c, 1) /\ 1 \in 0 .. Len(c)
        BY <1>2, <3>3 DEF Strays
      <4>2. PICK k \in 1 .. Len(c) : 1 <= k /\ Closes(g, c, k)
        BY <4>1 DEF Addressed
      <4>3. ASSUME k = 1 PROVE FALSE
        <5>1. c[1].verb = "select" /\ (c[1].a = Min(g.active) \/ g.astray) /\ c[1].verb \in Ticking
          BY <3>3, <4>2, <4>3 DEF Closes
        <5>2. h.current = c[1].a
          BY <3>1, <5>1
        <5>3. QED BY <3>1, <5>1, <5>2 DEF Home
      <4>4. k \in 2 .. Len(c)
        BY <4>2, <4>3
      <4>5. QED BY <3>2, <4>2, <4>4
    <3>4. CASE c[1].verb \notin {"stop", "select"}
      <4>1. ~Home(g) /\ c[1].verb # "first"
        BY <3>1, <3>4
      <4>2. PICK k \in 1 .. Len(c) : Closes(g, c, k)
        BY <1>2, <4>1 DEF Addressed, Strays
      <4>3. k # 1
        BY <3>4, <4>1, <4>2 DEF Closes
      <4>4. QED BY <3>2, <4>2, <4>3
    <3>5. QED BY <3>3, <3>4
  <2>3. QED BY <2>1, <2>2
<1>5. QED BY <1>1, <1>4 DEF Addressed

\* An error drops a call that is not made whatever happens.
LEMMA AddressedDrop ==
  ASSUME NEW g, NEW c, IsSeq(c), c # <<>>, Addressed(g, c), ~g.ok, ~c[1].always
  PROVE  Addressed(g, Tail(c))
<1>1. PICK t : t = Tail(c)
  OBVIOUS
<1>2. /\ Len(t) = Len(c) - 1 /\ Len(c) \in Nat /\ Len(c) >= 1
      /\ \A i \in 1 .. Len(c) - 1 : t[i] = c[i + 1]
  BY <1>1, SeqTail, SeqLen
<1>3. ASSUME NEW k \in 1 .. Len(c), Closes(g, c, k)
      PROVE  k \in 2 .. Len(c) /\ Closes(g, t, k - 1) /\ k - 1 \in 1 .. Len(t)
  <2>1. k # 1
    BY <1>3 DEF Closes
  <2>2. k - 1 \in 1 .. Len(t) /\ t[k - 1] = c[k] /\ k \in 2 .. Len(c)
    BY <1>2, <2>1
  <2>3. \A j \in 1 .. k - 1 : t[j] = c[j + 1] /\ j + 1 \in 1 .. k
    BY <1>2
  <2>4. QED BY <1>3, <2>2, <2>3 DEF Closes
<1>4. ASSUME NEW i \in 0 .. Len(t), Strays(g, t, i)
      PROVE  \E k \in 1 .. Len(t) : i <= k /\ Closes(g, t, k)
  <2>1. PICK m \in 0 .. Len(c) : Strays(g, c, m) /\ (i = 0 => m = 0) /\ (i # 0 => m = i + 1)
    <3>1. CASE i = 0
      BY <1>2, <1>4, <3>1 DEF Strays
    <3>2. CASE i # 0
      <4>1. i + 1 \in 0 .. Len(c) /\ i + 1 # 0 /\ t[i] = c[i + 1]
        BY <1>2, <3>2
      <4>2. Strays(g, c, i + 1)
        BY <1>4, <3>2, <4>1 DEF Strays
      <4>3. QED BY <3>2, <4>1, <4>2
    <3>3. QED BY <3>1, <3>2
  <2>2. PICK k \in 1 .. Len(c) : m <= k /\ Closes(g, c, k)
    BY <2>1 DEF Addressed
  <2>3. k - 1 \in 1 .. Len(t) /\ Closes(g, t, k - 1)
    BY <1>3, <2>2
  <2>4. i <= k - 1
    BY <2>1, <2>2, <2>3
  <2>5. QED BY <2>3, <2>4
<1>5. QED BY <1>1, <1>4 DEF Addressed

\* A command that is not one of a turtle's comes only when the lowest is selected, and
\* what it turns into takes care of itself.
LEMMA AddressedMore ==
  ASSUME NEW g, NEW h, NEW c, IsSeq(c), c # <<>>, Addressed(g, c), c[1].verb \notin Inner,
         NEW x, IsSeq(x), Addressed(h, x)
  PROVE  Home(g) /\ Addressed(h, x \o Tail(c))
<1>1. PICK t : t = Tail(c)
  OBVIOUS
<1>2. /\ IsSeq(t) /\ Len(t) = Len(c) - 1 /\ Len(c) \in Nat /\ Len(c) >= 1 /\ Len(t) \in Nat
      /\ \A i \in 1 .. Len(c) - 1 : t[i] = c[i + 1]
  BY <1>1, SeqTail, SeqLen
<1>3. \A k \in 1 .. Len(c) : ~Closes(g, c, k)
  <2>1. Ticking \subseteq Inner
    BY DEF Inner
  <2>2. \A k \in 1 .. Len(c) : 1 \in 1 .. k
    BY <1>2
  <2>3. QED BY <2>1, <2>2 DEF Closes
<1>4. \A i \in 0 .. Len(c) : ~Strays(g, c, i)
  BY <1>3 DEF Addressed
<1>5. Home(g)
  BY <1>2, <1>4 DEF Strays
<1>6. PICK y : y = x \o t
  OBVIOUS
<1>7. /\ IsSeq(y) /\ Len(y) = Len(x) + Len(t) /\ Len(x) \in Nat
      /\ \A i \in 1 .. Len(y) : y[i] = IF i <= Len(x) THEN x[i] ELSE t[i - Len(x)]
  <2>1. /\ IsSeq(x \o t) /\ Len(x \o t) = Len(x) + Len(t)
        /\ \A i \in 1 .. Len(x \o t) : (x \o t)[i] = IF i <= Len(x) THEN x[i] ELSE t[i - Len(x)]
    BY <1>2, SeqCat, Zenon
  <2>2. Len(x) \in Nat
    BY SeqLen
  <2>3. QED BY <1>6, <2>1, <2>2
<1>8. ASSUME NEW i \in 0 .. Len(y), Strays(h, y, i)
      PROVE  \E k \in 1 .. Len(y) : i <= k /\ Closes(h, y, k)
  <2>1. i <= Len(x)
    <3>1. ASSUME ~(i <= Len(x)) PROVE FALSE
      <4>1. i - Len(x) \in 1 .. Len(t) /\ i - Len(x) + 1 \in 0 .. Len(c) /\ i \in 1 .. Len(y)
            /\ i # 0 /\ i - Len(x) + 1 # 0
        BY <1>2, <1>7, <3>1
      <4>2. y[i] = c[i - Len(x) + 1]
        BY <1>2, <1>7, <3>1, <4>1
      <4>3. Strays(g, c, i - Len(x) + 1)
        BY <1>8, <4>1, <4>2 DEF Strays
      <4>4. QED BY <1>4, <4>1, <4>3
    <3>2. QED BY <3>1
  <2>2. i \in 0 .. Len(x) /\ (i # 0 => y[i] = x[i])
    BY <1>7, <2>1
  <2>3. Strays(h, x, i)
    BY <1>8, <2>2 DEF Strays
  <2>4. PICK k \in 1 .. Len(x) : i <= k /\ Closes(h, x, k)
    BY <2>2, <2>3 DEF Addressed
  <2>5. k \in 1 .. Len(y) /\ \A j \in 1 .. k : y[j] = x[j]
    <3>1. Len(x) \in Nat /\ Len(t) \in Nat /\ Len(y) = Len(x) + Len(t)
      BY <1>2, <1>7
    <3>2. k \in 1 .. Len(y) /\ \A j \in 1 .. k : j \in 1 .. Len(y) /\ j <= Len(x)
      BY <3>1
    <3>3. QED BY <1>7, <3>2
  <2>6. Closes(h, y, k)
    <3>1. y[k] = x[k]
      BY <2>5
    <3>2. QED BY <2>4, <2>5, <3>1 DEF Closes
  <2>7. QED BY <2>4, <2>5, <2>6
<1>9. QED BY <1>1, <1>5, <1>6, <1>8 DEF Addressed

\* A command of a turtle's turns into others of its own.
LEMMA AddressedInner ==
  ASSUME NEW g, NEW h, NEW c, IsSeq(c), c # <<>>, Addressed(g, c),
         c[1].verb \notin {"select", "first", "stop"}, Set(g, h), g.ok => h.ok,
         NEW x, IsSeq(x), \A i \in 1 .. Len(x) : x[i].verb \in Inner \ {"select", "stop"},
         c[1].verb \in Ticking => \A i \in 1 .. Len(x) : x[i].verb \in Ticking
  PROVE  Addressed(h, x \o Tail(c))
<1>1. PICK t : t = Tail(c)
  OBVIOUS
<1>2. /\ IsSeq(t) /\ Len(t) = Len(c) - 1 /\ Len(c) \in Nat /\ Len(c) >= 1 /\ Len(t) \in Nat
      /\ \A i \in 1 .. Len(c) - 1 : t[i] = c[i + 1]
  BY <1>1, SeqTail, SeqLen
<1>3. PICK y : y = x \o t
  OBVIOUS
<1>4. /\ IsSeq(y) /\ Len(y) = Len(x) + Len(t) /\ Len(x) \in Nat
      /\ \A i \in 1 .. Len(y) : y[i] = IF i <= Len(x) THEN x[i] ELSE t[i - Len(x)]
  <2>1. /\ IsSeq(x \o t) /\ Len(x \o t) = Len(x) + Len(t)
        /\ \A i \in 1 .. Len(x \o t) : (x \o t)[i] = IF i <= Len(x) THEN x[i] ELSE t[i - Len(x)]
    BY <1>2, SeqCat, Zenon
  <2>2. Len(x) \in Nat
    BY SeqLen
  <2>3. QED BY <1>3, <2>1, <2>2
<1>5. ASSUME NEW k \in 1 .. Len(c), Closes(g, c, k)
      PROVE  /\ Len(x) + k - 1 \in 1 .. Len(y) /\ k >= 2
             /\ Closes(h, y, Len(x) + k - 1)
  <2>1. k # 1
    BY <1>5 DEF Closes
  <2>2. PICK m : m = Len(x) + k - 1
    OBVIOUS
  <2>3. m \in 1 .. Len(y) /\ k >= 2 /\ ~(m <= Len(x)) /\ m - Len(x) = k - 1
         /\ k - 1 \in 1 .. Len(c) - 1 /\ k - 1 + 1 = k
    BY <1>2, <1>4, <2>1, <2>2
  <2>4. m \in 1 .. Len(y) /\ y[m] = c[k] /\ k >= 2
    <3>1. y[m] = t[k - 1]
      BY <1>4, <2>3
    <3>2. t[k - 1] = c[k]
      BY <1>2, <2>3
    <3>3. QED BY <2>3, <3>1, <3>2
  <2>5. ASSUME NEW j \in 1 .. m
        PROVE  \/ j \in 1 .. Len(x) /\ y[j] = x[j]
               \/ j - Len(x) + 1 \in 1 .. k /\ y[j] = c[j - Len(x) + 1]
    <3>1. j \in 1 .. Len(y)
      BY <1>2, <1>4, <2>3
    <3>2. CASE j <= Len(x)
      BY <1>4, <3>1, <3>2
    <3>3. CASE ~(j <= Len(x))
      <4>1. /\ j - Len(x) \in 1 .. Len(c) - 1 /\ j - Len(x) + 1 \in 1 .. k
        BY <1>2, <1>4, <2>2, <2>3, <3>3
      <4>2. y[j] = t[j - Len(x)]
        BY <1>4, <3>1, <3>3
      <4>3. t[j - Len(x)] = c[j - Len(x) + 1]
        BY <1>2, <4>1
      <4>4. QED BY <4>1, <4>2, <4>3
    <3>4. QED BY <3>2, <3>3
  <2>6. 1 \in 1 .. k
    BY <2>4
  <2>7. (\A j \in 1 .. k : c[j].verb \in Inner) => \A j \in 1 .. m : y[j].verb \in Inner
    BY <2>5
  <2>8. (\A j \in 1 .. k : c[j].verb \in Ticking) => \A j \in 1 .. m : y[j].verb \in Ticking
    BY <2>5, <2>6
  <2>9. Closes(h, y, m)
    BY <1>5, <2>4, <2>7, <2>8 DEF Closes, Set
  <2>10. QED BY <2>2, <2>4, <2>9
<1>6. ASSUME NEW i \in 0 .. Len(y), Strays(h, y, i)
      PROVE  \E k \in 1 .. Len(y) : i <= k /\ Closes(h, y, k)
  <2>1. PICK m \in 0 .. Len(c) : Strays(g, c, m) /\ (i = 0 => m = 0) /\ (i # 0 => m = i - Len(x) + 1 /\ m >= 2)
    <3>1. CASE i = 0
      <4>1. Strays(g, c, 0)
        BY <1>6, <3>1 DEF Strays, Home, Set
      <4>2. QED BY <1>2, <3>1, <4>1
    <3>2. CASE i # 0
      <4>1. y[i].verb \in {"select", "stop"}
        BY <1>6, <3>2 DEF Strays
      <4>2. ~(i <= Len(x))
        BY <1>4, <3>2, <4>1
      <4>3. i - Len(x) + 1 \in 0 .. Len(c) /\ i - Len(x) + 1 >= 2 /\ y[i] = c[i - Len(x) + 1]
        BY <1>2, <1>4, <3>2, <4>2
      <4>4. Strays(g, c, i - Len(x) + 1)
        BY <4>1, <4>3 DEF Strays
      <4>5. QED BY <3>2, <4>3, <4>4
    <3>3. QED BY <3>1, <3>2
  <2>2. PICK k \in 1 .. Len(c) : m <= k /\ Closes(g, c, k)
    BY <2>1 DEF Addressed
  <2>3. Len(x) + k - 1 \in 1 .. Len(y) /\ Closes(h, y, Len(x) + k - 1)
    BY <1>5, <2>2
  <2>4. i <= Len(x) + k - 1
    BY <1>4, <2>1, <2>2, <2>3
  <2>5. QED BY <2>3, <2>4
<1>7. QED BY <1>1, <1>3, <1>6 DEF Addressed

\* Where the lowest is selected, calls that select none and stop none leave it so.
LEMMA AddressedAtHome ==
  ASSUME NEW h, NEW x, Home(h), \A i \in 1 .. Len(x) : x[i].verb \notin {"select", "stop"}
  PROVE  Addressed(h, x)
<1>1. ASSUME NEW i \in 0 .. Len(x) PROVE ~Strays(h, x, i)
  <2>1. CASE i = 0
    BY <2>1 DEF Strays
  <2>2. CASE i # 0
    <3>1. i \in 1 .. Len(x)
      BY <2>2
    <3>2. QED BY <2>2, <3>1 DEF Strays
  <2>3. QED BY <2>1, <2>2
<1>2. QED BY <1>1 DEF Addressed

-----------------------------------------------------------------------------
(* The invariant, and what keeps it.                                         *)

Whole(p, g, c) == Held(p, g) /\ Timed(g) /\ Fits(p, g, c) /\ Addressed(g, c)
Inv == program \in DOMAIN Programs /\ Whole(Programs[program], gfx, calls)

LEMMA Commanded ==
  ASSUME Inv, NEW v, Does(v)
  PROVE  /\ IsSeq(calls) /\ calls # <<>> /\ calls[1] = Head(calls) /\ calls[1].verb = v
         /\ gfx.ok \/ calls[1].always
         /\ Fit(Programs[program], calls[1]) /\ calls[1].a = A /\ calls[1].b = B
         /\ v = "tick" => ~gfx.frozen /\ ~gfx.suspended
         /\ Formed(gfx)
<1>1. IsSeq(calls) /\ calls # <<>> /\ Head(calls) = calls[1] /\ 1 \in 1 .. Len(calls)
  BY SeqTail, SeqLen DEF Inv, Whole, Fits, Does
<1>2. QED BY <1>1 DEF Inv, Whole, Fits, Does, A, B, Held

LEMMA SetsStep ==
  ASSUME Inv, NEW v, Does(v), NEW h, Sets(h), Held(Programs[program], h), Timed(h),
         v \in Ticking => h.active = gfx.active /\ h.astray = gfx.astray /\ (gfx.ok => h.ok),
         \/ Home(h) \/ v = "stop" \/ (v = "select" /\ h.current = A)
         \/ v \notin {"select", "first"} /\ (Home(gfx) => Home(h))
  PROVE  Inv'
<1>1. PICK p : p = Programs[program]
  OBVIOUS
<1>2. Fits(p, h, Tail(calls))
  BY <1>1, Commanded, FitsTail DEF Inv, Whole
<1>3. Addressed(h, Tail(calls))
  <2>1. /\ IsSeq(calls) /\ calls # <<>> /\ calls[1].verb = v /\ calls[1].a = A
        /\ Addressed(gfx, calls)
    BY Commanded DEF Inv, Whole
  <2>2. QED BY <2>1, AddressedTail
<1>4. QED BY <1>1, <1>2, <1>3 DEF Inv, Whole, Sets

\* Most calls draw and no more.
Plainly(v) == v \notin {"select", "first", "stop"} \cup Ticking

LEMMA StillStep ==
  ASSUME Inv, NEW v, Does(v), Plainly(v), NEW h, Sets(h), Still(gfx, h)
  PROVE  Inv'
<1>1. Held(Programs[program], h) /\ Timed(h)
  BY StillHeld, ClocksTimed DEF Inv, Whole, Still
<1>2. Home(gfx) => Home(h)
  BY DEF Still, Steady, Home
<1>3. QED BY <1>1, <1>2, SetsStep DEF Plainly

LEMMA CalmStep ==
  ASSUME Inv, NEW v, Does(v), Plainly(v), NEW h, Sets(h), Calm(gfx, h)
  PROVE  Inv'
BY StillStep DEF Calm

LEMMA TiledStep ==
  ASSUME Inv, NEW v, Does(v), Plainly(v), NEW h, Sets(h), Tiled(Programs[program], gfx, h)
  PROVE  Inv'
<1>1. Held(Programs[program], h) /\ Timed(h)
  BY ClocksTimed DEF Inv, Whole, Tiled
<1>2. Home(gfx) => Home(h)
  BY DEF Tiled, Lowest, Set, Home
<1>3. QED BY <1>1, <1>2, SetsStep DEF Plainly

LEMMA WaitedStep ==
  ASSUME Inv, NEW v, Does(v), Plainly(v), NEW h, Sets(h), Timed(h), Waited(Programs[program], gfx, h)
  PROVE  Inv'
<1>1. Home(gfx) => Home(h)
  BY DEF Waited, Set, Home
<1>2. QED BY <1>1, SetsStep DEF Plainly, Waited

\* A command that turns into others, which take care of themselves.
LEMMA BecomesStep ==
  ASSUME Inv, NEW v, Does(v), v \notin Inner, NEW h, NEW x, gfx' = h, calls' = x \o Tail(calls),
         program' = program, Held(Programs[program], h), Timed(h), Fits(Programs[program], h, x),
         Home(gfx) => Addressed(h, x)
  PROVE  Inv'
<1>1. PICK p : p = Programs[program]
  OBVIOUS
<1>2. IsSeq(calls) /\ calls # <<>> /\ calls[1].verb = v /\ Addressed(gfx, calls)
  BY Commanded DEF Inv, Whole
<1>3. Home(gfx)
  <2>1. 0 \in 0 .. Len(calls) /\ \A k \in 1 .. Len(calls) : 1 \in 1 .. k
    BY <1>2, SeqLen
  <2>2. Ticking \subseteq Inner
    BY DEF Inner
  <2>3. \A k \in 1 .. Len(calls) : ~Closes(gfx, calls, k)
    BY <1>2, <2>1, <2>2 DEF Closes
  <2>4. ~Strays(gfx, calls, 0)
    BY <1>2, <2>1, <2>3 DEF Addressed
  <2>5. QED BY <2>4 DEF Strays
<1>4. IsSeq(x) /\ Addressed(h, x)
  BY <1>3 DEF Fits
<1>5. Addressed(h, x \o Tail(calls))
  BY <1>2, <1>4, AddressedMore
<1>6. Fits(p, h, x \o Tail(calls))
  BY <1>1, <1>2, FitsMore DEF Inv, Whole
<1>7. QED BY <1>1, <1>5, <1>6 DEF Inv, Whole

\* A command of a turtle's that turns into others of its own.
LEMMA InnerStep ==
  ASSUME Inv, NEW v, Does(v), v \notin {"select", "first", "stop"}, NEW h, NEW x, gfx' = h,
         calls' = x \o Tail(calls), program' = program, Calm(gfx, h),
         IsSeq(x), \A i \in 1 .. Len(x) : x[i].verb \in Inner \ {"select", "stop", "address", "arc"},
         v \in Ticking => \A i \in 1 .. Len(x) : x[i].verb \in Ticking
  PROVE  Inv'
<1>1. PICK p : p = Programs[program]
  OBVIOUS
<1>2. IsSeq(calls) /\ calls # <<>> /\ calls[1].verb = v /\ Addressed(gfx, calls)
  BY Commanded DEF Inv, Whole
<1>3. Held(p, h) /\ Timed(h) /\ Set(gfx, h) /\ (gfx.ok => h.ok)
  BY <1>1, StillHeld, ClocksTimed DEF Inv, Whole, Calm, Still, Set
<1>4. Fits(p, h, x)
  BY DEF Fits, Fit, Inner, EachTurtles, Ticking
<1>5. Fits(p, h, x \o Tail(calls))
  BY <1>1, <1>2, <1>4, FitsMore DEF Inv, Whole
<1>6. Addressed(h, x \o Tail(calls))
  BY <1>2, <1>3, AddressedInner
<1>7. QED BY <1>1, <1>3, <1>5, <1>6 DEF Inv, Whole

-----------------------------------------------------------------------------
(* The calls that set.                                                       *)

LEMMA TravelStep ==
  ASSUME Inv, Travel \/ Heading \/ Pens \/ Visibility
  PROVE  Inv'
<1>1. CASE Does("fd") /\ Sets(turtle_move(gfx, A))
  BY <1>1, MoveStill, StillStep, Commanded DEF Plainly, Ticking
<1>2. CASE Does("setpos") /\ Sets(turtle_set_position(gfx, A, B))
  BY <1>2, MoveStill, StillStep, Commanded DEF Plainly, Ticking
<1>3. ASSUME NEW v \in {"setx", "sety"}, Does(v), NEW a, NEW b, Becomes(<<Call2("setpos", a, b)>>)
      PROVE  Inv'
  <2>1. PICK x : x = <<Call2("setpos", a, b)>>
    OBVIOUS
  <2>2. x \in Seq({Call2("setpos", a, b)}) /\ Len(x) = 1 /\ x[1].verb = "setpos"
    BY <2>1 DEF Call2, Call
  <2>3. IsSeq(x) /\ \A i \in 1 .. Len(x) : x[i].verb \in Inner \ {"select", "stop", "address", "arc"}
    BY <2>2 DEF IsSeq, Inner, EachTurtles
  <2>4. QED BY <1>3, <2>1, <2>3, InnerStep, CalmSelf DEF Becomes, Ticking
<1>4. CASE Does("home") /\ Sets(turtle_home(gfx))
  BY <1>4, HomeCalm, CalmStep, Commanded DEF Plainly, Ticking
<1>5. CASE Heading
  <2>1. Calm(gfx, turtle_set_angle(gfx, Cur(gfx).angle + A))
    BY <1>5, PenAndLookCalm, Commanded DEF Heading
  <2>2. QED BY <1>5, <2>1, CalmStep DEF Heading, Plainly, Ticking
<1>6. CASE Pens
  BY <1>6, PenAndLookCalm, CalmStep, Commanded DEF Pens, Plainly, Ticking
<1>7. CASE Visibility
  BY <1>7, PenAndLookCalm, CalmStep, Commanded DEF Visibility, Plainly, Ticking
<1>8. QED BY <1>1, <1>2, <1>3, <1>4, <1>5, <1>6, <1>7 DEF Travel

LEMMA BoundariesStep ==
  ASSUME Inv, Boundaries \/ Colours
  PROVE  Inv'
<1>1. CASE Boundaries
  BY <1>1, BoundaryCalm, CalmStep, Commanded DEF Boundaries, Plainly, Ticking
<1>2. CASE Colours
  BY <1>2, ColoursCalm, CalmStep, Commanded DEF Colours, Plainly, Ticking
<1>3. QED BY <1>1, <1>2

LEMMA DressStep ==
  ASSUME Inv, Dress \/ Stamping
  PROVE  Inv'
<1>1. CASE Dress
  BY <1>1, DressStill, StyleCalm, PenAndLookCalm, CalmStep, Commanded DEF Dress, Plainly, Ticking
<1>2. CASE Does("stamp") /\ Sets(turtle_stamp(gfx))
  BY <1>2, PaintingCalm, CalmStep, Commanded DEF Plainly, Ticking
<1>3. CASE Does("write")  /\ Sets(turtle_draw_text(gfx, A))
  BY <1>3, PaintingCalm, CalmStep, Commanded DEF Plainly, Ticking
<1>4. CASE Does("snapsh") /\ Sets(turtle_snap_costume(gfx, A, B, C))
  BY <1>4, DressStill, StillStep, Commanded DEF Plainly, Ticking
<1>5. QED BY <1>1, <1>2, <1>3, <1>4 DEF Stamping

LEMMA PictureStep ==
  ASSUME Inv, Loadpic \/ Modes
  PROVE  Inv'
<1>1. CASE Loadpic
  BY <1>1, PaintingCalm, CalmStep, Commanded DEF Loadpic, Plainly, Ticking
<1>2. CASE Modes
  BY <1>2, ModeCalm, CalmStep, Commanded DEF Modes, Plainly, Ticking
<1>3. QED BY <1>1, <1>2

LEMMA TilesStep ==
  ASSUME Inv, Tiles
  PROVE  Inv'
<1>1. CASE Does("newtiles") /\ Sets(tilemap_new_tiles(gfx, A))
  <2>1. A \in TILE_SIZES
    BY <1>1, Commanded DEF Fit
  <2>2. QED BY <1>1, <2>1, NewTilesTiled, TiledStep DEF Plainly, Ticking, Inv, Whole
<1>2. CASE Does("newmap") /\ Sets(tilemap_new_map(gfx, A, B))
  BY <1>2, NewTilesTiled, TiledStep DEF Plainly, Ticking, Inv, Whole
<1>3. CASE Does("snaptile") /\ Sets(prim_snaptile(gfx, A))
  BY <1>3, SnapTiled, TiledStep DEF Plainly, Ticking, Inv, Whole
<1>4. CASE Does("settile") /\ Sets(prim_settile(gfx, A, B, C))
  BY <1>4, NewTilesTiled, TiledStep DEF Plainly, Ticking, Inv, Whole
<1>5. CASE Does("stampmap") /\ Sets(prim_stampmap(gfx))
  BY <1>5, StampTiled, TiledStep DEF Plainly, Ticking, Inv, Whole
<1>6. CASE Does("stamptile") /\ Sets(prim_stamptile(gfx, A, B))
  BY <1>6, StampTiled, TiledStep DEF Plainly, Ticking, Inv, Whole
<1>7. QED BY <1>1, <1>2, <1>3, <1>4, <1>5, <1>6 DEF Tiles

\* The turtle that is addressed, and the one that is selected.
LEMMA AddressingStep ==
  ASSUME Inv, Addressing, ~Does("fan")
  PROVE  Inv'
<1>1. CASE Does("select") /\ Sets(turtle_op_select(gfx, A))
  <2>1. PICK h : h = turtle_op_select(gfx, A)
    OBVIOUS
  <2>2. Steady(gfx, h) /\ h.ok = gfx.ok /\ h.current = A
    BY <1>1, <2>1, SelectSteady, Commanded
  <2>3. Held(Programs[program], h) /\ Timed(h)
    BY <2>2, StillHeld, ClocksTimed DEF Inv, Whole
  <2>4. QED BY <1>1, <2>1, <2>2, <2>3, SetsStep DEF Steady
<1>2. CASE Does("first") /\ Sets(select_first_active(gfx))
  <2>1. PICK h : h = select_first_active(gfx)
    OBVIOUS
  <2>2. Held(Programs[program], h) /\ Clocks(gfx, h) /\ Home(h)
    BY <2>1, FirstLowest DEF Inv, Whole, Lowest, Home
  <2>3. Timed(h)
    BY <2>2, ClocksTimed DEF Inv, Whole
  <2>4. PICK v : v = "first"
    OBVIOUS
  <2>5. Does(v) /\ Sets(h) /\ v \notin Ticking
    BY <1>2, <2>1, <2>4 DEF Ticking
  <2>6. QED BY <2>2, <2>3, <2>5, SetsStep
<1>3. CASE Does("address") /\ Sets(prim_tell(gfx, A))
  <2>1. A \in TurtleSets
    BY <1>3, Commanded DEF Fit
  <2>2. PICK h : h = prim_tell(gfx, A)
    OBVIOUS
  <2>3. Held(Programs[program], h) /\ Clocks(gfx, h) /\ Home(h)
    BY <2>1, <2>2, TellLowest DEF Inv, Whole, Home
  <2>4. Timed(h)
    BY <2>3, ClocksTimed DEF Inv, Whole
  <2>5. QED BY <1>3, <2>2, <2>3, <2>4, SetsStep DEF Ticking
<1>4. QED BY <1>1, <1>2, <1>3 DEF Addressing

LEMMA MotionStep ==
  ASSUME Inv, Motion
  PROVE  Inv'
<1>1. CASE Does("setspeed") /\ Sets(turtle_set_speed(gfx, A))
  BY <1>1, PenAndLookCalm, CalmStep, Commanded DEF Plainly, Ticking
<1>2. CASE Does("setanim") /\ Sets(turtle_set_anim(gfx, A, B, C))
  BY <1>2, MotionCalm, CalmStep, Commanded DEF Plainly, Ticking
<1>3. CASE Does("stop") /\ Sets(turtle_stop_motion(gfx))
  <2>1. PICK h : h = turtle_stop_motion(gfx)
    OBVIOUS
  <2>2. Steady(gfx, h)
    BY <1>3, <2>1, StopSteady, Commanded
  <2>3. Held(Programs[program], h) /\ Timed(h)
    BY <2>2, StillHeld, ClocksTimed DEF Inv, Whole
  <2>4. PICK v : v = "stop"
    OBVIOUS
  <2>5. Does(v) /\ Sets(h) /\ v \notin Ticking
    BY <1>3, <2>1, <2>4 DEF Ticking
  <2>6. QED BY <2>3, <2>4, <2>5, SetsStep
<1>4. QED BY <1>1, <1>2, <1>3 DEF Motion

LEMMA TickingsStep ==
  ASSUME Inv, Tickings
  PROVE  Inv'
<1>1. CASE Does("glide") /\ Sets(Glided(gfx, A))
  <2>1. PICK h : h = Glided(gfx, A)
    OBVIOUS
  <2>2. Still(gfx, h) /\ (gfx.ok => h.ok)
    BY <1>1, <2>1, MotionCalm, Commanded
  <2>3. Held(Programs[program], h) /\ Timed(h)
    BY <2>2, StillHeld, ClocksTimed DEF Inv, Whole, Still
  <2>4. /\ h.active = gfx.active /\ h.astray = gfx.astray /\ (gfx.ok => h.ok)
        /\ Home(gfx) => Home(h)
    BY <2>2 DEF Still, Steady, Home
  <2>5. QED BY <1>1, <2>1, <2>3, <2>4, SetsStep
<1>2. ASSUME NEW v \in {"animate", "frames"}, Does(v), NEW h, gfx' = h, Calm(gfx, h), AndFrames
      PROVE  Inv'
  <2>1. PICK x : x = <<Call0("frames")>>
    OBVIOUS
  <2>2. x \in Seq({Call0("frames")}) /\ Len(x) = 1 /\ x[1].verb = "frames"
    BY <2>1 DEF Call0, Call
  <2>3. IsSeq(x) /\ \A i \in 1 .. Len(x) :
            x[i].verb \in Inner \ {"select", "stop", "address", "arc"} /\ x[i].verb \in Ticking
    BY <2>2 DEF IsSeq, Inner, Ticking
  <2>4. QED BY <1>2, <2>1, <2>3, InnerStep DEF AndFrames
<1>3. CASE Does("animate") /\ gfx' = Accumulated(gfx, A) /\ AndFrames
  BY <1>2, <1>3, MotionCalm, Commanded
<1>4. CASE Does("frames") /\ FrameDue(Cur(gfx)) /\ gfx' = NextFrame(gfx) /\ AndFrames
  BY <1>2, <1>4, MotionCalm, Commanded
<1>5. CASE Does("frames") /\ ~FrameDue(Cur(gfx)) /\ Sets(gfx)
  BY <1>5, SetsStep DEF Inv, Whole
<1>6. QED BY <1>1, <1>3, <1>4, <1>5 DEF Tickings

-----------------------------------------------------------------------------
(* The calls that turn into others.                                          *)

LEMMA ListOf ==
  ASSUME NEW n \in Nat, NEW V, NEW s \in [1 .. n -> V]
  PROVE  s \in Seq(V) /\ IsSeq(s) /\ Len(s) = n /\ \A i \in 1 .. n : s[i] \in V
<1>1. s \in Seq(V)
  BY SeqDef
<1>2. QED BY <1>1, LenProperties DEF IsSeq

LEMMA FitsOf ==
  ASSUME NEW p, NEW h, NEW V, NEW x \in Seq(V), \A c \in V : Fit(p, c) /\ c.verb # "tick"
  PROVE  Fits(p, h, x) /\ IsSeq(x) /\ \A i \in 1 .. Len(x) : x[i] \in V
<1>1. IsSeq(x) /\ \A i \in 1 .. Len(x) : x[i] \in V
  BY DEF IsSeq
<1>2. QED BY <1>1 DEF Fits

\* Calls that select no turtle.
LEMMA OthersStep ==
  ASSUME Inv, NEW v, Does(v), v \notin Inner, NEW h, NEW V, NEW x \in Seq(V), gfx' = h,
         calls' = x \o Tail(calls), program' = program, Held(Programs[program], h), Timed(h),
         \A c \in V : Fit(Programs[program], c) /\ c.verb \notin {"tick", "select", "stop"},
         Home(gfx) => Home(h)
  PROVE  Inv'
<1>1. PICK p : p = Programs[program]
  OBVIOUS
<1>2. Fits(p, h, x) /\ \A i \in 1 .. Len(x) : x[i] \in V
  BY <1>1, FitsOf
<1>3. Home(gfx) => Addressed(h, x)
  BY <1>2, AddressedAtHome
<1>4. QED BY <1>1, <1>2, <1>3, BecomesStep

\* Calls of a turtle's, and the lowest selected after them.
LEMMA AddressedByFirst ==
  ASSUME NEW h, NEW y, NEW z, IsSeq(y), \A i \in 1 .. Len(y) : y[i].verb \in Inner,
         IsSeq(z), Len(z) >= 1, z[1].verb = "first", z[1].always,
         \A i \in 1 .. Len(z) : z[i].verb \notin {"select", "stop"}
  PROVE  Addressed(h, y \o z)
<1>1. PICK x : x = y \o z
  OBVIOUS
<1>2. /\ IsSeq(x) /\ Len(y) \in Nat /\ Len(z) \in Nat /\ Len(x) = Len(y) + Len(z)
      /\ \A i \in 1 .. Len(x) : x[i] = IF i <= Len(y) THEN y[i] ELSE z[i - Len(y)]
  BY <1>1, SeqCat, SeqLen
<1>3. PICK k : k = Len(y) + 1
  OBVIOUS
<1>4. k \in 1 .. Len(x) /\ ~(k <= Len(y)) /\ k - Len(y) = 1
  BY <1>2, <1>3
<1>5. x[k] = z[1]
  BY <1>2, <1>4
<1>6. \A j \in 1 .. k : j = k \/ (j \in 1 .. Len(y) /\ x[j] = y[j])
  BY <1>2, <1>3
<1>7. \A j \in 1 .. k : x[j].verb \in Inner
  BY <1>5, <1>6 DEF Inner
<1>8. Closes(h, x, k)
  BY <1>5, <1>7 DEF Closes
<1>9. ASSUME NEW i \in 0 .. Len(x), ~(i <= k) PROVE ~Strays(h, x, i)
  <2>1. i # 0 /\ i \in 1 .. Len(x) /\ ~(i <= Len(y)) /\ i - Len(y) \in 1 .. Len(z)
    BY <1>2, <1>3, <1>9
  <2>2. x[i] = z[i - Len(y)]
    BY <1>2, <2>1
  <2>3. QED BY <2>1, <2>2 DEF Strays
<1>10. QED BY <1>1, <1>4, <1>8, <1>9 DEF Addressed

LEMMA FanStep ==
  ASSUME Inv, Does("fan"), Becomes(Fanned(gfx, A))
  PROVE  Inv'
<1>1. PICK p : p = Programs[program]
  OBVIOUS
<1>2. PICK V : V = {A} \cup {Select(n) : n \in AllTurtles} \cup {First}
  OBVIOUS
<1>3. PICK s : s = [i \in 1 .. Cardinality(gfx.active) |-> <<Select(Ascending(gfx.active)[i]), A>>]
  OBVIOUS
<1>4. gfx.active \in SUBSET AllTurtles /\ Cardinality(gfx.active) \in Nat
  BY FiniteTurtles, FS_CardinalityType DEF Inv, Whole, Held, TurtleSets
<1>5. IsSeq(s) /\ Len(s) = Cardinality(gfx.active) /\ \A i \in 1 .. Len(s) : s[i] \in Seq(V)
  <2>1. \A i \in 1 .. Cardinality(gfx.active) : Ascending(gfx.active)[i] \in AllTurtles
    BY <1>4, AscendingIn
  <2>2. \A i \in 1 .. Cardinality(gfx.active) : <<Select(Ascending(gfx.active)[i]), A>> \in Seq(V)
    BY <1>2, <2>1
  <2>3. s \in [1 .. Cardinality(gfx.active) -> Seq(V)]
    BY <1>3, <2>2
  <2>4. QED BY <1>4, <2>3, ListOf
<1>6. PICK y : y = FlattenSeq(s)
  OBVIOUS
<1>7. y \in Seq(V)
  BY <1>4, <1>5, <1>6, FlattenIn
<1>8. PICK z : z = <<First>>
  OBVIOUS
<1>9. z \in Seq(V) /\ IsSeq(z) /\ Len(z) = 1 /\ z[1] = First
  BY <1>2, <1>8 DEF IsSeq
<1>10. A.verb \in EachTurtles /\ (A.verb = "arc" => A.a \in Nat)
  BY Commanded DEF Fit
<1>11. \A c \in V : Fit(p, c) /\ c.verb # "tick" /\ c.verb \in Inner
  BY <1>2, <1>10 DEF Fit, Select, First, Always, Call0, Call1, Call, EachTurtles, Inner, Ticking
<1>12. First.verb = "first" /\ First.always
  BY DEF First, Always, Call0, Call
<1>13. IsSeq(y) /\ \A i \in 1 .. Len(y) : y[i] \in V
  BY <1>7 DEF IsSeq
<1>14. PICK x : x = y \o z
  OBVIOUS
<1>15. Addressed(gfx, x)
  BY <1>9, <1>11, <1>12, <1>13, <1>14, AddressedByFirst
<1>16. x \in Seq(V)
  BY <1>7, <1>9, <1>14
<1>17. Fits(p, gfx, x)
  BY <1>11, <1>16, FitsOf
<1>18. Fanned(gfx, A) = x
  BY <1>3, <1>6, <1>8, <1>14 DEF Fanned
<1>19. PICK v : v = "fan"
  OBVIOUS
<1>20. v \notin Inner /\ Does(v) /\ Becomes(x)
  BY <1>18, <1>19 DEF Inner, EachTurtles, Ticking
<1>21. QED BY <1>1, <1>15, <1>17, <1>20, BecomesStep DEF Becomes, Inv, Whole

LEMMA ClearStep ==
  ASSUME Inv, Does("cs"), Becomes(prim_clearscreen(gfx))
  PROVE  Inv'
<1>1. PICK p : p = Programs[program]
  OBVIOUS
<1>2. PICK u : u = <<Address({0}), Call0("stop"), Call0("first"), Call0("clean"),
                     Call1("pen", "up"), Call0("home"), Call1("pen", gfx.turtles[0].pen_state)>>
  OBVIOUS
<1>3. PICK s : s = [n \in 1 .. MAX_TURTLES - 1 |-> Rehidden(n)]
  OBVIOUS
<1>4. PICK z : z = <<First, Call1("auto", TRUE), Call0("unsync")>>
  OBVIOUS
<1>5. PICK V : V = {Address({0}), Call0("stop"), Call0("first"), Call0("clean"), Call1("pen", "up"),
                    Call0("home"), Call1("pen", gfx.turtles[0].pen_state), Call1("pen", "down"),
                    Call1("shown", FALSE)} \cup {Select(n) : n \in 1 .. MAX_TURTLES - 1}
  OBVIOUS
<1>6. PICK W : W = {First, Call1("auto", TRUE), Call0("unsync")}
  OBVIOUS
<1>7. \A c \in V : Fit(p, c) /\ c.verb # "tick" /\ c.verb \in Inner
  <2>1. {0} \in TurtleSets
    <3>1. 0 \in AllTurtles
      BY TurtleAssumption, SpriteAssumption DEF AllTurtles
    <3>2. {0} # {} /\ {0} \subseteq AllTurtles
      BY <3>1
    <3>3. QED BY <3>2 DEF TurtleSets
  <2>2. \A c \in V : /\ c.verb \in {"address", "stop", "first", "clean", "pen", "home", "shown", "select"}
                     /\ c.verb = "address" => c.a = {0}
    BY <1>5 DEF Address, Select, Call0, Call1, Call
  <2>3. QED BY <2>1, <2>2 DEF Fit, EachTurtles, Inner, Ticking
<1>8. \A c \in W : Fit(p, c) /\ c.verb \notin {"tick", "select", "stop"}
  BY <1>6 DEF Fit, First, Always, Call0, Call1, Call
<1>9. u \in Seq(V)
  BY <1>2, <1>5
<1>10. MAX_TURTLES - 1 \in Nat
  BY TurtleAssumption, SpriteAssumption
<1>11. PICK f : f = FlattenSeq(s)
  OBVIOUS
<1>12. f \in Seq(V)
  <2>1. ASSUME NEW n \in 1 .. MAX_TURTLES - 1 PROVE Rehidden(n) \in Seq(V)
    <3>1. /\ Select(n) \in V /\ Call1("pen", "up") \in V /\ Call0("home") \in V
          /\ Call1("pen", "down") \in V /\ Call1("shown", FALSE) \in V
      BY <1>5
    <3>2. \A a, b, c, d, e \in V : <<a, b, c, d, e>> \in Seq(V)
      OBVIOUS
    <3>3. QED BY <3>1, <3>2, Zenon DEF Rehidden
  <2>2. s \in [1 .. MAX_TURTLES - 1 -> Seq(V)]
    BY <1>3, <2>1
  <2>3. IsSeq(s) /\ Len(s) = MAX_TURTLES - 1 /\ \A n \in 1 .. MAX_TURTLES - 1 : s[n] \in Seq(V)
    BY <1>10, <2>2, ListOf
  <2>4. QED BY <1>10, <1>11, <2>3, FlattenIn
<1>13. PICK y : y = u \o f
  OBVIOUS
<1>14. y \in Seq(V) /\ IsSeq(y) /\ \A i \in 1 .. Len(y) : y[i] \in V
  <2>1. y \in Seq(V)
    BY <1>9, <1>12, <1>13
  <2>2. QED BY <2>1 DEF IsSeq
<1>15. z \in Seq(W) /\ IsSeq(z) /\ Len(z) = 3 /\ z[1] = First /\ \A i \in 1 .. Len(z) : z[i] \in W
  <2>1. z \in Seq(W) /\ Len(z) = 3 /\ z[1] = First
    BY <1>4, <1>6
  <2>2. \A i \in 1 .. Len(z) : z[i] \in W
    BY <2>1
  <2>3. QED BY <2>1, <2>2 DEF IsSeq
<1>16. First.verb = "first" /\ First.always
  BY DEF First, Always, Call0, Call
<1>17. PICK x : x = y \o z
  OBVIOUS
<1>18. Addressed(gfx, x)
  <2>1. /\ \A i \in 1 .. Len(y) : y[i].verb \in Inner
        /\ \A i \in 1 .. Len(z) : z[i].verb \notin {"select", "stop"}
        /\ Len(z) >= 1 /\ z[1].verb = "first" /\ z[1].always
    BY <1>7, <1>8, <1>14, <1>15, <1>16
  <2>2. QED BY <1>14, <1>15, <1>17, <2>1, AddressedByFirst
<1>19. Fits(p, gfx, x)
  <2>1. PICK U : U = V \cup W
    OBVIOUS
  <2>2. y \in Seq(U) /\ z \in Seq(U)
    BY <1>14, <1>15, <2>1
  <2>3. x \in Seq(U) /\ \A c \in U : Fit(p, c) /\ c.verb # "tick"
    BY <1>7, <1>8, <1>17, <2>1, <2>2
  <2>4. QED BY <2>3, FitsOf
<1>20. prim_clearscreen(gfx) = x
  BY <1>2, <1>3, <1>4, <1>11, <1>13, <1>17 DEF prim_clearscreen
<1>21. PICK v : v = "cs"
  OBVIOUS
<1>22. v \notin Inner /\ Does(v) /\ Becomes(x)
  BY <1>20, <1>21 DEF Inner, EachTurtles, Ticking
<1>23. QED BY <1>1, <1>18, <1>19, <1>22, BecomesStep DEF Becomes, Inv, Whole

LEMMA ArcStep ==
  ASSUME Inv, Does("arc"), Becomes(prim_arc(gfx, A, B))
  PROVE  Inv'
<1>1. PICK pos : pos = turtle_get_position(gfx)
  OBVIOUS
<1>2. PICK angle : angle = Cur(gfx).angle
  OBVIOUS
<1>3. PICK pen : pen = Cur(gfx).pen_state
  OBVIOUS
<1>4. PICK u : u = <<Call1("pen", "up"), ArcPoint(pos, angle, B), Call1("pen", pen)>>
  OBVIOUS
<1>5. PICK q : q = [i \in 1 .. A |-> ArcPoint(pos, angle + 90 * i, B)]
  OBVIOUS
<1>6. PICK w : w = <<Always(Call1("pen", "up")), Always(Call2("setpos", pos[1], pos[2])),
                     Always(Call1("pen", pen))>>
  OBVIOUS
<1>7. PICK V : V = {Call1("pen", "up"), ArcPoint(pos, angle, B), Call1("pen", pen)}
                     \cup {ArcPoint(pos, angle + 90 * i, B) : i \in 1 .. A}
                     \cup {Always(Call1("pen", "up")), Always(Call2("setpos", pos[1], pos[2])),
                           Always(Call1("pen", pen))}
  OBVIOUS
<1>8. \A c \in V : c.verb \in {"pen", "setpos"}
  BY <1>7 DEF ArcPoint, Always, Call1, Call2, Call
<1>9. u \in Seq(V) /\ w \in Seq(V)
  BY <1>4, <1>6, <1>7
<1>10. q \in Seq(V)
  <2>1. A \in Nat
    BY Commanded DEF Fit
  <2>2. q \in [1 .. A -> V]
    BY <1>5, <1>7
  <2>3. QED BY <2>1, <2>2, ListOf
<1>11. PICK x : x = u \o q \o w
  OBVIOUS
<1>12. x \in Seq(V)
  BY <1>9, <1>10, <1>11
<1>13. IsSeq(x) /\ \A i \in 1 .. Len(x) : x[i].verb \in Inner \ {"select", "stop", "address", "arc"}
  <2>1. IsSeq(x) /\ \A i \in 1 .. Len(x) : x[i] \in V
    BY <1>12 DEF IsSeq
  <2>2. QED BY <1>8, <2>1 DEF Inner, EachTurtles
<1>14. prim_arc(gfx, A, B) = x
  BY <1>1, <1>2, <1>3, <1>4, <1>5, <1>6, <1>11 DEF prim_arc, ArcFrom
<1>15. PICK v : v = "arc"
  OBVIOUS
<1>16. v \notin {"select", "first", "stop"} \cup Ticking /\ Does(v) /\ Becomes(x)
  BY <1>14, <1>15 DEF Ticking
<1>17. QED BY <1>13, <1>16, InnerStep, CalmSelf DEF Becomes

LEMMA PaintingStep ==
  ASSUME Inv, Painting
  PROVE  Inv'
<1>1. CASE Does("clean") /\ Sets(turtle_clearscreen(gfx))
  BY <1>1, HomeCalm, CalmStep, Commanded DEF Plainly, Ticking
<1>2. CASE Does("dot") /\ Sets(turtle_dot(gfx, A, B))
  BY <1>2, PaintingCalm, CalmStep, Commanded DEF Plainly, Ticking
<1>3. CASE Does("fill") /\ Sets(turtle_fill(gfx))
  BY <1>3, PaintingCalm, CalmStep, Commanded DEF Plainly, Ticking
<1>4. QED BY <1>1, <1>2, <1>3, ClearStep, ArcStep DEF Painting

\* Automatic refresh, frames in step, and what is shown.
LEMMA ShowingStep ==
  ASSUME Inv, Showing
  PROVE  Inv'
<1>1. CASE Does("setrefresh") /\ Becomes(<<Call1("auto", A), Call1("setsync", B)>>)
  <2>1. PICK V : V = {Call1("auto", A), Call1("setsync", B)}
    OBVIOUS
  <2>2. PICK x : x = <<Call1("auto", A), Call1("setsync", B)>>
    OBVIOUS
  <2>3. x \in Seq(V)
    BY <2>1, <2>2
  <2>4. B \in Nat
    BY <1>1, Commanded DEF Fit
  <2>5. \A c \in V : Fit(Programs[program], c) /\ c.verb \notin {"tick", "select", "stop"}
    BY <2>1, <2>4 DEF Fit, Call1, Call
  <2>6. PICK v : v = "setrefresh"
    OBVIOUS
  <2>7. v \notin Inner /\ Does(v) /\ Becomes(x)
    BY <1>1, <2>2, <2>6 DEF Inner, EachTurtles, Ticking
  <2>8. QED BY <2>3, <2>5, <2>7, OthersStep DEF Becomes, Inv, Whole
<1>2. CASE Does("auto") /\ Sets(screen_gfx_set_refresh_auto(gfx, A))
  BY <1>2, RefreshAutoCalm, CalmStep, Commanded DEF Plainly, Ticking
<1>3. CASE Does("setsync") /\ Sets(frame_sync_set(gfx, A))
  <2>1. A \in Nat
    BY <1>3, Commanded DEF Fit
  <2>2. QED BY <1>3, <2>1, FrameSyncTimed, WaitedStep DEF Plainly, Ticking, Inv, Whole
<1>4. CASE Does("unsync") /\ Sets(frame_sync_reset(gfx))
  BY <1>4, FrameSyncTimed, WaitedStep DEF Plainly, Ticking, Inv, Whole
<1>5. CASE Does("refresh") /\ Sets(screen_gfx_present(gfx))
  BY <1>5, UpdateCalm, CalmStep, Commanded DEF Plainly, Ticking
<1>6. CASE Does("sync") /\ Sets(prim_sync(gfx))
  BY <1>6, SyncTimed, WaitedStep DEF Plainly, Ticking, Inv, Whole
<1>7. CASE Does("flush") /\ Sets(screen_gfx_flush(gfx))
  BY <1>7, UpdateCalm, CalmStep, Commanded DEF Plainly, Ticking
<1>8. QED BY <1>1, <1>2, <1>3, <1>4, <1>5, <1>6, <1>7 DEF Showing

-----------------------------------------------------------------------------
(* The demons.                                                               *)

\* The clock of the ticks is stopped.
LEMMA StoppedTimed ==
  ASSUME NEW p, NEW g, NEW h, Held(p, g), Timed(g), DOMAIN h = DOMAIN g, h.demons = g.demons,
         h.tilemap = g.tilemap, Set(g, h), h.ok = g.ok, h.now = g.now, h.alive = g.alive,
         h.credited = g.credited, h.last_tick = g.last_tick, h.sync = g.sync,
         h.have_ticked => h.frozen \/ h.suspended
  PROVE  Timed(h) /\ Waited(p, g, h)
BY WaitedHeld DEF Timed

LEMMA DemonTableStep ==
  ASSUME Inv, DemonTable
  PROVE  Inv'
<1>1. CASE Does("when") /\ Sets(demons_set(gfx, A, B))
  <2>1. PICK h : h = demons_set(gfx, A, B)
    OBVIOUS
  <2>2. B \in {NODE_NIL} \cup DOMAIN Programs[program].actions
    BY <1>1, Commanded DEF Fit
  <2>3. Tiled(Programs[program], gfx, h)
    BY <2>1, <2>2, DemonsSetHeld DEF Tiled, Inv, Whole
  <2>4. QED BY <1>1, <2>1, <2>3, TiledStep DEF Plainly, Ticking
<1>2. CASE Does("cleardemons") /\ Sets(demons_clear(gfx))
  <2>1. PICK h : h = demons_clear(gfx)
    OBVIOUS
  <2>2. Tiled(Programs[program], gfx, h)
    BY <2>1, DemonsClearHeld DEF Tiled, Inv, Whole
  <2>3. QED BY <1>2, <2>1, <2>2, TiledStep DEF Plainly, Ticking
<1>3. ASSUME NEW v \in {"freeze", "thaw", "suspend", "resume"}, Does(v), NEW h, Sets(h),
             DOMAIN h = DOMAIN gfx, h.demons = gfx.demons,
             h.tilemap = gfx.tilemap, Set(gfx, h), h.ok = gfx.ok, h.now = gfx.now, h.alive = gfx.alive,
             h.credited = gfx.credited, h.last_tick = gfx.last_tick, h.sync = gfx.sync,
             h.have_ticked => h.frozen \/ h.suspended
      PROVE  Inv'
  <2>1. Timed(h) /\ Waited(Programs[program], gfx, h)
    BY <1>3, StoppedTimed DEF Inv, Whole
  <2>2. QED BY <1>3, <2>1, WaitedStep DEF Plainly, Ticking
<1>4. Formed(gfx)
  BY DEF Inv, Whole, Held
<1>5. CASE Does("freeze") /\ Sets(demons_freeze(gfx))
  <2>1. PICK h : h = demons_freeze(gfx)
    OBVIOUS
  <2>2. DOMAIN h = DOMAIN gfx /\ h.demons = gfx.demons /\ h.tilemap = gfx.tilemap /\ Set(gfx, h)
        /\ h.ok = gfx.ok /\ h.now = gfx.now /\ h.alive = gfx.alive /\ h.credited = gfx.credited
        /\ h.last_tick = gfx.last_tick /\ h.sync = gfx.sync /\ h.frozen
    BY <1>4, <2>1 DEF Formed, Framed, Set, demons_freeze
  <2>3. QED BY <1>3, <1>5, <2>1, <2>2
<1>6. CASE Does("thaw") /\ Sets(demons_thaw(gfx))
  <2>1. PICK h : h = demons_thaw(gfx)
    OBVIOUS
  <2>2. DOMAIN h = DOMAIN gfx /\ h.demons = gfx.demons /\ h.tilemap = gfx.tilemap /\ Set(gfx, h)
        /\ h.ok = gfx.ok /\ h.now = gfx.now /\ h.alive = gfx.alive /\ h.credited = gfx.credited
        /\ h.last_tick = gfx.last_tick /\ h.sync = gfx.sync /\ ~h.have_ticked
    BY <1>4, <2>1 DEF Formed, Framed, Set, demons_thaw
  <2>3. QED BY <1>3, <1>6, <2>1, <2>2
<1>7. CASE Does("suspend") /\ Sets(demons_suspend(gfx))
  <2>1. PICK h : h = demons_suspend(gfx)
    OBVIOUS
  <2>2. DOMAIN h = DOMAIN gfx /\ h.demons = gfx.demons /\ h.tilemap = gfx.tilemap /\ Set(gfx, h)
        /\ h.ok = gfx.ok /\ h.now = gfx.now /\ h.alive = gfx.alive /\ h.credited = gfx.credited
        /\ h.last_tick = gfx.last_tick /\ h.sync = gfx.sync /\ h.suspended
    BY <1>4, <2>1 DEF Formed, Framed, Set, demons_suspend
  <2>3. QED BY <1>3, <1>7, <2>1, <2>2
<1>8. CASE Does("resume") /\ Sets(demons_resume(gfx))
  <2>1. PICK h : h = demons_resume(gfx)
    OBVIOUS
  <2>2. DOMAIN h = DOMAIN gfx /\ h.demons = gfx.demons /\ h.tilemap = gfx.tilemap /\ Set(gfx, h)
        /\ h.ok = gfx.ok /\ h.now = gfx.now /\ h.alive = gfx.alive /\ h.credited = gfx.credited
        /\ h.last_tick = gfx.last_tick /\ h.sync = gfx.sync /\ ~h.have_ticked
    BY <1>4, <2>1 DEF Formed, Framed, Set, demons_resume
  <2>3. QED BY <1>3, <1>8, <2>1, <2>2
<1>9. QED BY <1>1, <1>2, <1>5, <1>6, <1>7, <1>8 DEF DemonTable

LEMMA PollStep ==
  ASSUME Inv, StartPoll
  PROVE  Inv'
<1>1. PICK p : p = Programs[program]
  OBVIOUS
<1>2. PICK q : q = Passed(gfx, A)
  OBVIOUS
<1>3. PICK v : v = "poll"
  OBVIOUS
<1>4. Does(v) /\ v \notin Inner /\ Does("poll") /\ PollAt(q)
  BY <1>2, <1>3 DEF StartPoll, Inner, EachTurtles, Ticking
<1>5. Timed(q) /\ Waited(p, gfx, q)
  <2>1. A \in Nat
    BY <1>4, Commanded DEF Fit
  <2>2. QED BY <1>1, <1>2, <2>1, PassedTimed DEF Inv, Whole
<1>6. CASE ~DemonsDue(q)
  <2>1. PICK x : x = <<>>
    OBVIOUS
  <2>2. PICK V : V = {}
    OBVIOUS
  <2>3. gfx' = q /\ calls' = x \o Tail(calls) /\ program' = program
    BY <1>4, <1>6, <2>1 DEF PollAt
  <2>4. x \in Seq(V) /\ \A c \in V : Fit(p, c) /\ c.verb \notin {"tick", "select", "stop"}
    BY <2>1, <2>2
  <2>5. Held(p, q) /\ Timed(q) /\ (Home(gfx) => Home(q))
    BY <1>5 DEF Waited, Set, Home
  <2>6. QED BY <1>1, <1>4, <2>3, <2>4, <2>5, OthersStep
<1>7. CASE DemonsDue(q)
  <2>1. PICK h : h = [demons_maybe_poll(q) EXCEPT !.polled = TRUE,
                      !.before = {i \in DemonSlots : q.demons[i].armed /\ q.demons[i].was_true}]
    OBVIOUS
  <2>2. gfx' = h /\ calls' = PollCalls \o Tail(calls) /\ program' = program
    BY <1>4, <1>7, <2>1 DEF PollAt
  <2>3. DOMAIN h = DOMAIN q /\ h.demons = q.demons /\ h.tilemap = q.tilemap /\ Set(q, h) /\ h.ok = q.ok
        /\ Clocks(q, h)
    BY <1>5, <2>1 DEF Waited, Held, Formed, Framed, Set, Clocks, demons_maybe_poll
  <2>4. Timed(h) /\ Waited(p, q, h)
    BY <1>5, <2>3, WaitedHeld, ClocksTimed DEF Waited
  <2>5. Held(p, h) /\ (Home(gfx) => Home(h)) /\ ~h.frozen /\ ~h.suspended
    BY <1>5, <1>7, <2>3, <2>4 DEF Waited, Set, Home, Clocks, DemonsDue
  <2>6. PICK t : t = <<Call0("tick")>>
    OBVIOUS
  <2>7. PICK V : V = {Call1("turn", i) : i \in DemonSlots} \cup {Always(Call0("polled"))}
    OBVIOUS
  <2>8. PICK w : w = Turns \o <<Always(Call0("polled"))>>
    OBVIOUS
  <2>9. Turns \in Seq(V)
    <3>1. Turns \in [1 .. MAX_DEMONS -> V]
      BY <2>7 DEF Turns, DemonSlots
    <3>2. QED BY <3>1, ListOf, DemonAssumption
  <2>10. w \in Seq(V)
    BY <2>7, <2>8, <2>9
  <2>11. \A c \in V : Fit(p, c) /\ c.verb \in {"turn", "polled"}
    BY <2>7 DEF Fit, Always, Call0, Call1, Call
  <2>12. IsSeq(w) /\ \A i \in 1 .. Len(w) : w[i] \in V
    BY <2>10 DEF IsSeq
  <2>13. IsSeq(t) /\ Len(t) = 1 /\ t[1].verb = "tick" /\ Fit(p, t[1])
    <3>1. t \in Seq({Call0("tick")}) /\ Len(t) = 1 /\ t[1] = Call0("tick")
      BY <2>6
    <3>2. QED BY <3>1 DEF IsSeq, Fit, Call0, Call
  <2>14. PICK x : x = t \o w
    OBVIOUS
  <2>15. x = PollCalls
    <3>1. t \in Seq(V \cup {Call0("tick")}) /\ Turns \in Seq(V \cup {Call0("tick")})
          /\ <<Always(Call0("polled"))>> \in Seq(V \cup {Call0("tick")})
      BY <2>6, <2>7, <2>9
    <3>2. QED BY <2>6, <2>8, <2>14, <3>1, ConcatAssociative DEF PollCalls
  <2>16. IsSeq(x) /\ \A i \in 1 .. Len(x) : (i = 1 /\ x[i] = t[1]) \/ (i # 1 /\ x[i] \in V)
    <3>1. /\ IsSeq(x) /\ Len(w) \in Nat /\ Len(x) = 1 + Len(w)
          /\ \A i \in 1 .. Len(x) : x[i] = IF i <= 1 THEN t[i] ELSE w[i - 1]
      <4>1. /\ IsSeq(t \o w) /\ Len(t \o w) = Len(t) + Len(w)
            /\ \A i \in 1 .. Len(t \o w) : (t \o w)[i] = IF i <= Len(t) THEN t[i] ELSE w[i - Len(t)]
        BY <2>12, <2>13, SeqCat, Zenon
      <4>2. Len(w) \in Nat
        BY <2>12, SeqLen
      <4>3. QED BY <2>13, <2>14, <4>1, <4>2
    <3>2. QED BY <2>12, <3>1
  <2>17. Fits(p, h, x)
    BY <2>5, <2>11, <2>13, <2>16 DEF Fits
  <2>18. Home(gfx) => Addressed(h, x)
    BY <2>5, <2>11, <2>13, <2>16, AddressedAtHome
  <2>19. QED BY <1>1, <1>4, <2>2, <2>4, <2>5, <2>15, <2>17, <2>18, BecomesStep
<1>8. QED BY <1>6, <1>7

LEMMA AddressedBySelect ==
  ASSUME NEW h, h.ok, Home(h), NEW y, NEW V, y \in Seq(V), \A c \in V : c.verb \in Ticking,
         NEW z, z = Select(h.current)
  PROVE  Addressed(h, y \o <<z>>)
<1>1. PICK w : w = <<z>>
  OBVIOUS
<1>2. IsSeq(w) /\ Len(w) = 1 /\ w[1] = z
  <2>1. w \in Seq({z}) /\ Len(w) = 1 /\ w[1] = z
    BY <1>1
  <2>2. QED BY <2>1 DEF IsSeq
<1>3. IsSeq(y) /\ \A i \in 1 .. Len(y) : y[i] \in V
  BY DEF IsSeq
<1>4. PICK x : x = y \o w
  OBVIOUS
<1>5. /\ Len(y) \in Nat /\ Len(x) = Len(y) + 1
      /\ \A i \in 1 .. Len(x) : x[i] = IF i <= Len(y) THEN y[i] ELSE w[i - Len(y)]
  <2>1. /\ Len(x) = Len(y) + Len(w)
        /\ \A i \in 1 .. Len(x) : x[i] = IF i <= Len(y) THEN y[i] ELSE w[i - Len(y)]
    BY <1>2, <1>3, <1>4, SeqCat, Zenon
  <2>2. Len(y) \in Nat
    BY <1>3, SeqLen
  <2>3. QED BY <1>2, <2>1, <2>2
<1>6. PICK k : k = Len(y) + 1
  OBVIOUS
<1>7. k \in 1 .. Len(x) /\ ~(k <= Len(y)) /\ k - Len(y) = 1 /\ \A i \in 0 .. Len(x) : i <= k
  BY <1>5, <1>6
<1>8. x[k] = z
  BY <1>2, <1>5, <1>7
<1>9. z.verb = "select" /\ z.a = h.current
  BY DEF Select, Call1, Call
<1>10. \A j \in 1 .. k : j = k \/ (j \in 1 .. Len(y) /\ x[j] = y[j])
  BY <1>5, <1>6
<1>11. \A j \in 1 .. k : x[j].verb \in Ticking
  BY <1>3, <1>8, <1>9, <1>10 DEF Ticking
<1>12. Closes(h, x, k)
  BY <1>8, <1>9, <1>11 DEF Closes, Home
<1>13. QED BY <1>1, <1>4, <1>7, <1>12 DEF Addressed

\* Time that was credited has passed while the turtles were alive.
LEMMA TickedTimed ==
  ASSUME NEW p, NEW g, Held(p, g), Timed(g), ~g.frozen, ~g.suspended
  PROVE  LET h == Ticked(g)
         IN  Timed(h) /\ Held(p, h) /\ Set(g, h) /\ h.ok = g.ok
<1>1. PICK h : h = Ticked(g)
  OBVIOUS
<1>2. PICK ms : ms = TickTime(g)
  OBVIOUS
<1>3. ms \in Int /\ g.credited + ms <= g.alive
  <2>1. CASE g.have_ticked
    BY <1>2, <2>1 DEF Timed, TickTime
  <2>2. CASE ~g.have_ticked
    BY <1>2, <2>2 DEF Timed, TickTime
  <2>3. QED BY <2>1, <2>2
<1>4. /\ h.now = g.now /\ h.alive = g.alive /\ h.sync = g.sync /\ h.last_tick = g.now
      /\ h.credited = g.credited + ms /\ h.frozen = g.frozen /\ h.suspended = g.suspended
      /\ h.demons = g.demons /\ h.tilemap = g.tilemap /\ Set(g, h) /\ h.ok = g.ok /\ DOMAIN h = DOMAIN g
  BY <1>1, <1>2 DEF Ticked, Held, Formed, Framed, Set
<1>5. Timed(h)
  BY <1>3, <1>4 DEF Timed
<1>6. QED BY <1>1, <1>4, <1>5, WaitedHeld DEF Waited

LEMMA TickAllStep ==
  ASSUME Inv, TickAll
  PROVE  Inv'
<1>1. PICK p : p = Programs[program]
  OBVIOUS
<1>2. PICK h : h = Ticked(gfx)
  OBVIOUS
<1>3. PICK v : v = "tick"
  OBVIOUS
<1>4. Does(v) /\ v \notin Inner /\ Does("tick")
  BY <1>3 DEF TickAll, Inner, EachTurtles, Ticking
<1>5. ~gfx.frozen /\ ~gfx.suspended /\ gfx.ok
  BY <1>4, Commanded DEF Fit
<1>6. Timed(h) /\ Held(p, h) /\ Set(gfx, h) /\ h.ok
  BY <1>1, <1>2, <1>5, TickedTimed DEF Inv, Whole
<1>7. PICK ms : ms = TickTime(gfx)
  OBVIOUS
<1>8. PICK S : S = Moving(gfx)
  OBVIOUS
<1>9. PICK V : V = {Select(n) : n \in AllTurtles} \cup {Call1("glide", ms), Call1("animate", ms)}
                     \cup {Select(gfx.current)}
  OBVIOUS
<1>10. PICK s : s = [i \in 1 .. Cardinality(S) |->
                        <<Select(Ascending(S)[i]), Call1("glide", ms), Call1("animate", ms)>>]
  OBVIOUS
<1>11. S \in SUBSET AllTurtles /\ Cardinality(S) \in Nat
  <2>1. S \in SUBSET AllTurtles
    BY <1>8 DEF Moving
  <2>2. QED BY <2>1, FiniteTurtles, FS_CardinalityType
<1>12. IsSeq(s) /\ Len(s) = Cardinality(S) /\ \A i \in 1 .. Cardinality(S) : s[i] \in Seq(V)
  <2>1. \A i \in 1 .. Cardinality(S) : Ascending(S)[i] \in AllTurtles
    BY <1>11, AscendingIn
  <2>2. \A i \in 1 .. Cardinality(S) :
            <<Select(Ascending(S)[i]), Call1("glide", ms), Call1("animate", ms)>> \in Seq(V)
    BY <1>9, <2>1
  <2>3. s \in [1 .. Cardinality(S) -> Seq(V)]
    BY <1>10, <2>2
  <2>4. QED BY <1>11, <2>3, ListOf
<1>13. PICK y : y = FlattenSeq(s)
  OBVIOUS
<1>14. y \in Seq(V)
  BY <1>11, <1>12, <1>13, FlattenIn
<1>15. \A c \in V : Fit(p, c) /\ c.verb # "tick" /\ c.verb \in Ticking
  BY <1>9 DEF Fit, Select, Call1, Call, Ticking
<1>16. PICK z : z = Select(gfx.current)
  OBVIOUS
<1>17. PICK x : x = y \o <<z>>
  OBVIOUS
<1>18. x \in Seq(V)
  BY <1>9, <1>14, <1>16, <1>17
<1>19. Fits(p, h, x)
  BY <1>15, <1>18, FitsOf
<1>20. Home(gfx) => Addressed(h, x)
  BY <1>6, <1>14, <1>15, <1>16, <1>17, AddressedBySelect DEF Set, Home
<1>21. Tick(gfx) = x
  BY <1>7, <1>8, <1>10, <1>13, <1>16, <1>17 DEF Tick
<1>22. gfx' = h /\ calls' = x \o Tail(calls) /\ program' = program
  BY <1>2, <1>21 DEF TickAll
<1>23. QED BY <1>1, <1>4, <1>6, <1>19, <1>20, <1>22, BecomesStep

-----------------------------------------------------------------------------
(* Instructions.                                                             *)

\* What a command becomes when it is issued.
LEMMA IssuedFits ==
  ASSUME NEW p, NEW call, IsCommand(p, call)
  PROVE  \E c : /\ Issue(call) = <<c>> /\ Fit(p, c) /\ c.verb \notin {"tick", "select", "stop"}
<1>1. CASE call.verb \in EachTurtles
  <2>1. PICK c : c = Call1("fan", call)
    OBVIOUS
  <2>2. c.verb = "fan" /\ c.a = call /\ ~c.always
    BY <2>1 DEF Call1, Call
  <2>3. Fit(p, c)
    BY <1>1, <2>2 DEF Fit, IsCommand
  <2>4. Issue(call) = <<c>>
    BY <1>1, <2>1 DEF Issue
  <2>5. QED BY <2>2, <2>3, <2>4
<1>2. CASE call.verb \notin EachTurtles
  <2>1. Issue(call) = <<call>>
    BY <1>2 DEF Issue
  <2>2. call.verb \in Primitives
    BY DEF IsCommand
  <2>3. call.verb \notin {"tick", "select", "stop", "poll", "setsync", "turn", "fan", "do"}
    BY <2>2 DEF Primitives, EachTurtles
  <2>4. Fit(p, call)
    BY <2>3 DEF Fit, IsCommand
  <2>5. QED BY <2>1, <2>3, <2>4
<1>3. QED BY <1>1, <1>2

LEMMA ListFits ==
  ASSUME NEW p, NEW list, IsList(p, list)
  PROVE  \E V : /\ Issued(list) \in Seq(V)
                /\ \A c \in V : Fit(p, c) /\ c.verb \notin {"tick", "select", "stop"}
<1>1. PICK n : n = Len(list)
  OBVIOUS
<1>2. n \in Nat /\ \A i \in 1 .. n : IsCommand(p, list[i])
  BY <1>1 DEF IsList
<1>3. PICK V : V = {Issue(list[i])[1] : i \in 1 .. n}
  OBVIOUS
<1>4. ASSUME NEW i \in 1 .. n
      PROVE  /\ Issue(list[i]) \in Seq(V) /\ Fit(p, Issue(list[i])[1])
             /\ Issue(list[i])[1].verb \notin {"tick", "select", "stop"}
  <2>1. PICK c : /\ Issue(list[i]) = <<c>> /\ Fit(p, c) /\ c.verb \notin {"tick", "select", "stop"}
    BY <1>2, IssuedFits
  <2>2. Issue(list[i])[1] = c
    BY <2>1
  <2>3. c \in V
    BY <1>3, <2>2
  <2>4. QED BY <2>1, <2>2, <2>3
<1>5. PICK s : s = [i \in 1 .. n |-> Issue(list[i])]
  OBVIOUS
<1>6. s \in [1 .. n -> Seq(V)]
  BY <1>4, <1>5
<1>7. FlattenSeq(s) \in Seq(V)
  BY <1>2, <1>6, ListOf, FlattenIn
<1>8. Issued(list) = FlattenSeq(s)
  BY <1>1, <1>5 DEF Issued
<1>9. \A c \in V : Fit(p, c) /\ c.verb \notin {"tick", "select", "stop"}
  BY <1>3, <1>4
<1>10. QED BY <1>7, <1>8, <1>9

LEMMA DoStep ==
  ASSUME Inv, Do
  PROVE  Inv'
<1>1. PICK p : p = Programs[program]
  OBVIOUS
<1>2. PICK v : v = "do"
  OBVIOUS
<1>3. Does(v) /\ v \notin Inner /\ Does("do") /\ Becomes(Instruction(gfx, A))
  BY <1>2 DEF Do, Inner, EachTurtles, Ticking
<1>4. program \in DOMAIN Programs
  BY DEF Inv
<1>5. PICK op : op = A
  OBVIOUS
<1>6. \E i \in DOMAIN p.ops : op = p.ops[i]
  BY <1>1, <1>3, <1>5, Commanded DEF Fit
<1>7. /\ op.how \in {"plain", "ask", "each", "load"} /\ op.who \in TurtleSets /\ op.lag \in Nat
      /\ IsCommand(p, op.call)
  BY <1>1, <1>4, <1>6, ProgramAssumption
<1>8. PICK c : Issue(op.call) = <<c>> /\ Fit(p, c) /\ c.verb \notin {"tick", "select", "stop"}
  BY <1>7, IssuedFits
<1>9. PICK n : n = Cardinality(gfx.active)
  OBVIOUS
<1>10. gfx.active \in TurtleSets /\ gfx.active \in SUBSET AllTurtles /\ n \in Nat
  BY <1>9, FiniteTurtles, FS_CardinalityType DEF Inv, Whole, Held, TurtleSets
<1>11. PICK V : V = {c, Address(op.who), Poll(op.lag), Always(Address(gfx.active)),
                     Call0("suspend"), Always(Call0("resume"))}
                      \cup {Address({t}) : t \in gfx.active}
  OBVIOUS
<1>12. \A d \in V : Fit(p, d) /\ d.verb \notin {"tick", "select", "stop"}
  <2>1. \A t \in gfx.active : {t} \in TurtleSets
    BY <1>10 DEF TurtleSets
  <2>2. \A d \in V : \/ d = c
                     \/ d.verb = "address" /\ d.a \in TurtleSets
                     \/ d.verb = "poll" /\ d.a \in Nat
                     \/ d.verb \in {"suspend", "resume"}
    BY <1>7, <1>10, <1>11, <2>1 DEF Address, Poll, Always, Call0, Call1, Call
  <2>3. QED BY <1>8, <2>2 DEF Fit
<1>13. PICK back : back = <<Always(Address(gfx.active))>>
  OBVIOUS
<1>14. back \in Seq(V) /\ Issue(op.call) \in Seq(V)
  BY <1>8, <1>11, <1>13
<1>15. Instruction(gfx, op) \in Seq(V)
  <2>1. CASE op.how = "plain"
    BY <1>14, <2>1 DEF Instruction
  <2>2. CASE op.how = "ask"
    <3>1. <<Address(op.who), Poll(op.lag)>> \in Seq(V)
      BY <1>11
    <3>2. <<Address(op.who), Poll(op.lag)>> \o Issue(op.call) \o back \in Seq(V)
      BY <1>14, <3>1
    <3>3. QED BY <1>13, <2>2, <3>2 DEF Instruction
  <2>3. CASE op.how = "each"
    <3>1. PICK s : s = [i \in 1 .. n |-> <<Address({Ascending(gfx.active)[i]}), Poll(op.lag)>>
                                            \o Issue(op.call)]
      OBVIOUS
    <3>2. ASSUME NEW i \in 1 .. n
          PROVE  <<Address({Ascending(gfx.active)[i]}), Poll(op.lag)>> \o Issue(op.call) \in Seq(V)
      <4>1. PICK t \in gfx.active : t = Ascending(gfx.active)[i]
        BY <1>9, <1>10, AscendingIn
      <4>2. Address({t}) \in V /\ Poll(op.lag) \in V
        BY <1>11
      <4>3. <<Address({t}), Poll(op.lag)>> \in Seq(V)
        BY <4>2
      <4>4. QED BY <1>14, <4>1, <4>3
    <3>3. s \in [1 .. n -> Seq(V)]
      BY <3>1, <3>2
    <3>4. FlattenSeq(s) \in Seq(V)
      BY <1>10, <3>3, ListOf, FlattenIn
    <3>5. FlattenSeq(s) \o back \in Seq(V)
      BY <1>14, <3>4
    <3>6. QED BY <1>9, <1>13, <2>3, <3>1, <3>5 DEF Instruction
  <2>4. CASE op.how = "load"
    <3>1. <<Call0("suspend"), Poll(op.lag)>> \in Seq(V) /\ <<Always(Call0("resume"))>> \in Seq(V)
      BY <1>11
    <3>2. <<Call0("suspend"), Poll(op.lag)>> \o Issue(op.call) \o <<Always(Call0("resume"))>> \in Seq(V)
      BY <1>14, <3>1
    <3>3. QED BY <2>4, <3>2 DEF Instruction
  <2>5. QED BY <1>7, <2>1, <2>2, <2>3, <2>4
<1>16. PICK x : x = Instruction(gfx, op)
  OBVIOUS
<1>17. Becomes(x) /\ x \in Seq(V)
  BY <1>3, <1>5, <1>15, <1>16
<1>18. QED BY <1>1, <1>3, <1>12, <1>17, OthersStep DEF Becomes, Inv, Whole

\* A demon's turn: its condition leaves the lowest turtle selected, or the one it found.
LEMMA TurnStep ==
  ASSUME Inv, Turn
  PROVE  Inv'
<1>1. PICK p : p = Programs[program]
  OBVIOUS
<1>2. PICK v : v = "turn"
  OBVIOUS
<1>3. Does(v) /\ v \notin Inner /\ Plainly(v) /\ Does("turn")
  BY <1>2 DEF Turn, Plainly, Inner, EachTurtles, Ticking
<1>4. CASE ~gfx.demons[A].armed
  BY <1>3, <1>4, CalmSelf, CalmStep DEF Turn
<1>5. CASE gfx.demons[A].armed
  <2>1. A \in DemonSlots /\ Held(p, gfx) /\ Timed(gfx) /\ program \in DOMAIN Programs
    BY <1>1, <1>3, Commanded DEF Fit, Inv, Whole
  <2>2. PICK i : i = A
    OBVIOUS
  <2>3. PICK c : c = Condition(gfx, gfx.demons[A].cond)
    OBVIOUS
  <2>4. Acts(c, i)
    BY <1>5, <2>2, <2>3 DEF Turn
  <2>5. PICK q : q = c.g
    OBVIOUS
  <2>6. Held(p, q) /\ Clocks(gfx, q) /\ (Lowest(gfx, q) \/ Set(gfx, q))
    BY <2>1, <2>3, <2>5, ConditionHeld
  <2>7. ASSUME NEW h, DOMAIN h = DOMAIN q, DOMAIN h.demons = DemonSlots,
               \A j \in DemonSlots : Demon(p, h.demons[j]), h.tilemap = q.tilemap, Clocks(q, h),
               Set(q, h)
        PROVE  Held(p, h) /\ Timed(h) /\ (Home(gfx) => Home(h))
    <3>1. Held(p, h)
      BY <2>6, <2>7 DEF Held, Formed, Demons, Mapped, Set
    <3>2. Clocks(gfx, h)
      BY <2>6, <2>7 DEF Clocks
    <3>3. Home(gfx) => Home(h)
      BY <2>6, <2>7 DEF Home, Set, Lowest
    <3>4. QED BY <2>1, <3>1, <3>2, <3>3, ClocksTimed
  <2>8. PICK f : f = Found(c, i)
    OBVIOUS
  <2>9. PICK w : w = [f EXCEPT !.fired = @ \cup {i}]
    OBVIOUS
  <2>10. /\ DOMAIN f = DOMAIN q /\ DOMAIN f.demons = DemonSlots /\ f.tilemap = q.tilemap
         /\ \A j \in DemonSlots : Demon(p, f.demons[j])
         /\ Clocks(q, f) /\ Set(q, f)
    <3>1. CASE ~q.ok
      BY <2>5, <2>6, <2>8, <3>1 DEF Found, Held, Demons, Clocks, Set
    <3>2. CASE q.ok
      <4>1. f = [q EXCEPT !.demons[i].was_true = c.truth]
        BY <2>5, <2>8, <3>2 DEF Found
      <4>2. DOMAIN f = DOMAIN q /\ f.tilemap = q.tilemap /\ Clocks(q, f) /\ Set(q, f)
        BY <2>6, <4>1 DEF Held, Formed, Framed, Clocks, Set
      <4>3. f.demons = [q.demons EXCEPT ![i].was_true = c.truth]
        BY <2>6, <4>1 DEF Held, Formed, Framed
      <4>4. DOMAIN f.demons = DemonSlots /\ \A j \in DemonSlots : Demon(p, f.demons[j])
        BY <2>6, <4>3 DEF Held, Demons, Demon
      <4>5. QED BY <4>2, <4>4
    <3>3. QED BY <3>1, <3>2
  <2>11. /\ DOMAIN w = DOMAIN q /\ DOMAIN w.demons = DemonSlots /\ w.tilemap = q.tilemap
         /\ \A j \in DemonSlots : Demon(p, w.demons[j])
         /\ Clocks(q, w) /\ Set(q, w)
    <3>1. DOMAIN w = DOMAIN f /\ w.demons = f.demons /\ w.tilemap = f.tilemap /\ Clocks(f, w) /\ Set(f, w)
      BY <2>6, <2>9, <2>10 DEF Held, Formed, Framed, Clocks, Set
    <3>2. QED BY <2>10, <3>1 DEF Clocks, Set
  <2>12. PICK list : list = Action(i)
    OBVIOUS
  <2>13. IsList(p, list)
    <3>1. CASE gfx.demons[i].action = NODE_NIL
      BY <2>12, <3>1 DEF Action, IsList
    <3>2. CASE gfx.demons[i].action # NODE_NIL
      <4>1. gfx.demons[i].action \in DOMAIN p.actions
        BY <2>1, <2>2, <3>2 DEF Held, Demons, Demon
      <4>2. list = p.actions[gfx.demons[i].action]
        BY <1>1, <2>12, <3>2 DEF Action
      <4>3. QED BY <1>1, <2>1, <4>1, <4>2, ProgramAssumption
    <3>3. QED BY <3>1, <3>2
  <2>14. PICK V : /\ Issued(list) \in Seq(V)
                  /\ \A d \in V : Fit(p, d) /\ d.verb \notin {"tick", "select", "stop"}
    BY <2>13, ListFits
  <2>15. PICK h : h = IF Fires(gfx, c, i) THEN w ELSE f
    OBVIOUS
  <2>16. PICK x : x = IF Fires(gfx, c, i) THEN Issued(list) ELSE <<>>
    OBVIOUS
  <2>17. x \in Seq(V)
    BY <2>14, <2>16
  <2>18. gfx' = h /\ calls' = x \o Tail(calls) /\ program' = program
    BY <2>4, <2>8, <2>9, <2>12, <2>15, <2>16 DEF Acts
  <2>19. Held(p, h) /\ Timed(h) /\ (Home(gfx) => Home(h))
    BY <2>7, <2>10, <2>11, <2>15
  <2>20. QED BY <1>1, <1>3, <2>14, <2>17, <2>18, <2>19, OthersStep
<1>6. QED BY <1>4, <1>5

-----------------------------------------------------------------------------
(* What an error ends in, and what a program or the prompt begins.           *)

LEMMA EndStep ==
  ASSUME Inv, EndPoll \/ EndLine \/ EndIdle
  PROVE  Inv'
<1>1. PICK p : p = Programs[program]
  OBVIOUS
<1>2. Held(p, gfx) /\ Timed(gfx) /\ Formed(gfx)
  BY <1>1 DEF Inv, Whole, Held
<1>3. CASE EndPoll
  <2>1. PICK h : h = [gfx EXCEPT !.polling = FALSE]
    OBVIOUS
  <2>2. DOMAIN h = DOMAIN gfx /\ h.demons = gfx.demons /\ h.tilemap = gfx.tilemap /\ Set(gfx, h)
        /\ h.ok = gfx.ok /\ Clocks(gfx, h)
    BY <1>2, <2>1 DEF Formed, Framed, Set, Clocks
  <2>3. Timed(h) /\ Waited(p, gfx, h)
    BY <1>2, <2>2, WaitedHeld, ClocksTimed
  <2>4. QED BY <1>1, <1>3, <2>1, <2>3, WaitedStep DEF EndPoll, Plainly, Ticking
<1>4. ASSUME NEW g, Held(p, g), Timed(g), NEW h, h = [demons_reset(g) EXCEPT !.ok = TRUE]
      PROVE  Held(p, h) /\ Timed(h) /\ Home(h)
  <2>1. PICK q : q = demons_reset(g)
    OBVIOUS
  <2>2. /\ Held(p, q) /\ q.active = g.active /\ q.current = 0 /\ q.astray = (Min(g.active) # 0)
        /\ q.now = g.now /\ q.alive = g.alive /\ q.credited = g.credited /\ q.sync = g.sync
        /\ q.last_tick = g.last_tick /\ ~q.have_ticked
    BY <1>4, <2>1, DemonsResetHeld
  <2>3. /\ DOMAIN h = DOMAIN q /\ h.demons = q.demons /\ h.tilemap = q.tilemap /\ Clocks(q, h)
        /\ h.active = q.active /\ h.astray = q.astray /\ h.current = q.current
    BY <1>4, <2>1, <2>2 DEF Held, Formed, Framed, Clocks
  <2>4. Held(p, h)
    BY <2>2, <2>3 DEF Held, Formed, Demons, Mapped
  <2>5. Timed(h)
    BY <1>4, <2>2, <2>3 DEF Timed, Clocks
  <2>6. Home(h)
    BY <2>2, <2>3 DEF Home
  <2>7. QED BY <2>4, <2>5, <2>6
<1>5. ASSUME NEW v, Does(v), v \notin Ticking, NEW h, Sets(h), Held(p, h), Timed(h), Home(h)
      PROVE  Inv'
  BY <1>1, <1>5, SetsStep
<1>6. ASSUME NEW v, Does(v), Plainly(v), Sets(gfx)
      PROVE  Inv'
  BY <1>6, CalmStep, CalmSelf
<1>7. CASE EndLine
  <2>1. PICK v : v = "ended"
    OBVIOUS
  <2>2. Does(v) /\ v \notin Ticking /\ Plainly(v)
    BY <1>7, <2>1 DEF EndLine, Ticking, Plainly
  <2>3. CASE gfx.ok
    BY <1>6, <1>7, <2>2, <2>3 DEF EndLine
  <2>4. CASE ~gfx.ok
    <3>1. PICK q : q = screen_gfx_set_refresh_auto(gfx, TRUE)
      OBVIOUS
    <3>2. Held(p, q) /\ Timed(q)
      <4>1. Calm(gfx, q)
        BY <1>2, <3>1, RefreshAutoCalm
      <4>2. QED BY <1>2, <4>1, StillHeld, ClocksTimed DEF Calm, Still
    <3>3. PICK r : r = frame_sync_reset(q)
      OBVIOUS
    <3>4. Held(p, r) /\ Timed(r)
      BY <3>2, <3>3, FrameSyncTimed DEF Waited
    <3>5. PICK h : h = [demons_reset(r) EXCEPT !.ok = TRUE]
      OBVIOUS
    <3>6. Held(p, h) /\ Timed(h) /\ Home(h)
      BY <1>4, <3>4, <3>5
    <3>7. Sets(h)
      BY <1>7, <2>4, <3>1, <3>3, <3>5 DEF EndLine, Toplevel
    <3>8. QED BY <1>5, <2>2, <3>6, <3>7
  <2>5. QED BY <2>3, <2>4
<1>8. CASE EndIdle
  <2>1. PICK v : v = "idled"
    OBVIOUS
  <2>2. Does(v) /\ v \notin Ticking /\ Plainly(v)
    BY <1>8, <2>1 DEF EndIdle, Ticking, Plainly
  <2>3. CASE gfx.ok
    BY <1>6, <1>8, <2>2, <2>3 DEF EndIdle
  <2>4. CASE ~gfx.ok
    <3>1. PICK h : h = [demons_reset(gfx) EXCEPT !.ok = TRUE]
      OBVIOUS
    <3>2. Held(p, h) /\ Timed(h) /\ Home(h)
      BY <1>2, <1>4, <3>1
    <3>3. Sets(h)
      BY <1>8, <2>4, <3>1 DEF EndIdle
    <3>4. QED BY <1>5, <2>2, <3>2, <3>3
  <2>5. QED BY <2>3, <2>4
<1>9. QED BY <1>3, <1>7, <1>8

LEMMA UnwindStep ==
  ASSUME Inv, Unwind
  PROVE  Inv'
<1>1. PICK p : p = Programs[program]
  OBVIOUS
<1>2. calls # <<>> /\ ~gfx.ok /\ ~Head(calls).always
      /\ gfx' = gfx /\ program' = program /\ calls' = <<>> \o Tail(calls)
  BY DEF Unwind, Becomes
<1>3. Fits(p, gfx, calls) /\ IsSeq(calls) /\ Addressed(gfx, calls)
  BY <1>1 DEF Inv, Whole, Fits
<1>4. IsSeq(Tail(calls)) /\ Head(calls) = calls[1]
  BY <1>2, <1>3, SeqTail
<1>5. calls' = Tail(calls)
  BY <1>2, <1>4 DEF IsSeq
<1>6. Fits(p, gfx, Tail(calls)) /\ Addressed(gfx, Tail(calls))
  BY <1>2, <1>3, <1>4, FitsTail, AddressedDrop
<1>7. QED BY <1>1, <1>2, <1>5, <1>6 DEF Inv, Whole

\* With no call to come the lowest turtle is selected.
LEMMA SettledHome ==
  ASSUME Inv, calls = <<>>
  PROVE  Home(gfx)
<1>1. Len(calls) = 0 /\ 0 \in 0 .. Len(calls) /\ Addressed(gfx, calls)
  BY SeqLen DEF Inv, Whole, Fits
<1>2. ~Strays(gfx, calls, 0)
  BY <1>1 DEF Addressed
<1>3. QED BY <1>2 DEF Strays

LEMMA BeginStep ==
  ASSUME Inv, calls = <<>>, Begin(gfx), NEW V, calls' \in Seq(V),
         \A c \in V : Fit(Programs[program], c) /\ c.verb \notin {"tick", "select", "stop"}
  PROVE  Inv'
<1>1. PICK p : p = Programs[program]
  OBVIOUS
<1>2. Held(p, gfx) /\ Timed(gfx) /\ program \in DOMAIN Programs
  BY <1>1 DEF Inv, Whole
<1>3. PICK h : h = [gfx EXCEPT !.fired = {}, !.polled = FALSE]
  OBVIOUS
<1>4. gfx' = h /\ program' = program
  BY <1>3 DEF Begin
<1>5. DOMAIN h = DOMAIN gfx /\ h.demons = gfx.demons /\ h.tilemap = gfx.tilemap /\ Set(gfx, h)
      /\ h.ok = gfx.ok /\ Clocks(gfx, h)
  BY <1>2, <1>3 DEF Held, Formed, Framed, Set, Clocks
<1>6. Held(p, h) /\ Timed(h)
  BY <1>2, <1>5, WaitedHeld, ClocksTimed DEF Waited
<1>7. Home(h)
  BY <1>5, SettledHome DEF Set, Home
<1>8. PICK x : x = calls'
  OBVIOUS
<1>9. Fits(p, h, x) /\ \A i \in 1 .. Len(x) : x[i] \in V
  BY <1>1, <1>8, FitsOf
<1>10. Addressed(h, x)
  BY <1>7, <1>9, AddressedAtHome
<1>11. QED BY <1>1, <1>2, <1>4, <1>6, <1>8, <1>9, <1>10 DEF Inv, Whole

LEMMA RunStep ==
  ASSUME Inv, Run
  PROVE  Inv'
<1>1. PICK p : p = Programs[program]
  OBVIOUS
<1>2. PICK i \in DOMAIN p.ops, ms \in p.lags :
         /\ calls = <<>> /\ Begin(gfx)
         /\ calls' = <<Poll(ms), Call1("do", p.ops[i]), Always(Call0("ended"))>>
  BY <1>1 DEF Run
<1>3. ms \in Nat
  BY <1>1, ProgramAssumption DEF Inv
<1>4. PICK V : V = {Poll(ms), Call1("do", p.ops[i]), Always(Call0("ended"))}
  OBVIOUS
<1>5. calls' \in Seq(V)
  BY <1>2, <1>4
<1>6. \A c \in V : Fit(p, c) /\ c.verb \notin {"tick", "select", "stop"}
  BY <1>3, <1>4 DEF Fit, Poll, Always, Call0, Call1, Call
<1>7. QED BY <1>1, <1>2, <1>5, <1>6, BeginStep

LEMMA IdleStep ==
  ASSUME Inv, console_idle_poll
  PROVE  Inv'
<1>1. PICK p : p = Programs[program]
  OBVIOUS
<1>2. PICK ms \in p.lags :
         /\ calls = <<>> /\ Begin(gfx)
         /\ calls' = <<Poll(ms), Always(Call0("idled")), Always(Call0("flush"))>>
  BY <1>1 DEF console_idle_poll
<1>3. ms \in Nat
  BY <1>1, ProgramAssumption DEF Inv
<1>4. PICK V : V = {Poll(ms), Always(Call0("idled")), Always(Call0("flush"))}
  OBVIOUS
<1>5. calls' \in Seq(V)
  BY <1>2, <1>4
<1>6. \A c \in V : Fit(p, c) /\ c.verb \notin {"tick", "select", "stop"}
  BY <1>3, <1>4 DEF Fit, Poll, Always, Call0, Call1, Call
<1>7. QED BY <1>1, <1>2, <1>5, <1>6, BeginStep

LEMMA FrameTimeStep ==
  ASSUME Inv, FrameTime
  PROVE  Inv'
<1>1. PICK p : p = Programs[program]
  OBVIOUS
<1>2. PICK h : h = [gfx EXCEPT !.recent = FALSE]
  OBVIOUS
<1>3. calls = <<>> /\ gfx' = h /\ calls' = <<>> /\ program' = program
  BY <1>2 DEF FrameTime
<1>4. DOMAIN h = DOMAIN gfx /\ h.demons = gfx.demons /\ h.tilemap = gfx.tilemap /\ Set(gfx, h)
      /\ h.ok = gfx.ok /\ Clocks(gfx, h)
  BY <1>2 DEF Inv, Whole, Held, Formed, Framed, Set, Clocks
<1>5. Held(p, h) /\ Timed(h)
  BY <1>1, <1>4, WaitedHeld, ClocksTimed DEF Waited, Inv, Whole
<1>6. Home(h)
  BY <1>3, <1>4, SettledHome DEF Set, Home
<1>7. PICK x : x = <<>>
  OBVIOUS
<1>8. Len(x) = 0 /\ IsSeq(x)
  BY <1>7 DEF IsSeq
<1>9. Fits(p, h, x) /\ Addressed(h, x)
  BY <1>6, <1>8, AddressedAtHome DEF Fits
<1>10. QED BY <1>1, <1>3, <1>5, <1>7, <1>9 DEF Inv, Whole

-----------------------------------------------------------------------------
(* The theorems.                                                             *)

LEMMA InitInv ==
  ASSUME Init
  PROVE  Inv
<1>1. PICK p : p = Programs[program]
  OBVIOUS
<1>2. PICK base : base =
        [mode |-> "TXT", boundary |-> "wrap", canvas |-> EmptyCanvas,
         panel |-> [q \in Pixels |-> Ink], tiles |-> dirty_tiles_clear,
         auto |-> TRUE, recent |-> FALSE, palette |-> [s \in Palette |-> s],
         sprites |-> [i \in Sprites |-> Hidden], rasters |-> [i \in Sprites |-> <<>>],
         turtles |-> [i \in AllTurtles |-> BootTurtle(i)], current |-> 0, active |-> {0},
         shapes |-> [s \in Shapes |-> [i \in 0 .. BITMAP_RASTER_SIZE * BITMAP_RASTER_SIZE - 1 |-> 1]],
         costumes |-> [s \in Shapes |-> NoCostume], background |-> Min(Slots),
         demons |-> [i \in DemonSlots |-> Free], frozen |-> FALSE, polling |-> FALSE,
         suspended |-> FALSE, astray |-> FALSE, have_ticked |-> FALSE, last_tick |-> 0, have_polled |-> FALSE,
         last_poll |-> 0, now |-> 0, credited |-> 0, alive |-> 0, fired |-> {}, before |-> {}, polled |-> FALSE,
         sync |-> [active |-> FALSE, period |-> 0, deadline |-> 0, have |-> FALSE],
         tilemap |-> tilemap_reset, ok |-> TRUE]
  OBVIOUS
<1>3. /\ base.demons = [i \in DemonSlots |-> Free] /\ base.tilemap = tilemap_reset
      /\ base.active = {0} /\ base.current = 0 /\ base.now = 0 /\ base.alive = 0 /\ base.credited = 0
      /\ base.last_tick = 0 /\ base.have_ticked = FALSE
      /\ base.sync = [active |-> FALSE, period |-> 0, deadline |-> 0, have |-> FALSE]
      /\ Formed(base)
  BY <1>2 DEF Formed, Framed
<1>4. Held(p, base)
  <2>1. {0} \in TurtleSets
    <3>1. 0 \in AllTurtles
      BY TurtleAssumption, SpriteAssumption DEF AllTurtles
    <3>2. {0} # {} /\ {0} \subseteq AllTurtles
      BY <3>1
    <3>3. QED BY <3>2 DEF TurtleSets
  <2>2. Demons(p, base)
    BY <1>3 DEF Demons, Demon, Free
  <2>3. Mapped(base)
    BY <1>3 DEF Mapped, tilemap_reset
  <2>4. QED BY <1>3, <2>1, <2>2, <2>3 DEF Held
<1>5. Timed(base)
  BY <1>3 DEF Timed
<1>6. PICK a : a = turtle_set_bg_colour(base, Min(Slots))
  OBVIOUS
<1>7. Calm(base, a) /\ Formed(a)
  BY <1>3, <1>6, ColoursCalm, CalmFormed
<1>8. PICK b : b = screen_gfx_clear(a)
  OBVIOUS
<1>9. Calm(a, b) /\ Formed(b)
  BY <1>7, <1>8, ClearCalm, CalmFormed
<1>10. PICK c : c = turtle_draw(b)
  OBVIOUS
<1>11. Calm(b, c) /\ Formed(c)
  BY <1>9, <1>10, DrawCalm, CalmFormed
<1>12. Boot = c
  BY <1>2, <1>6, <1>8, <1>10, Zenon DEF Boot
<1>13. Calm(c, gfx)
  BY <1>11, <1>12, ModeCalm DEF Init
<1>14. Calm(base, gfx)
  BY <1>7, <1>9, <1>11, <1>13, CalmTwice
<1>15. Held(p, gfx) /\ Timed(gfx) /\ gfx.current = 0 /\ gfx.active = {0}
  <2>1. Held(p, gfx) /\ Clocks(base, gfx)
    BY <1>4, <1>14, StillHeld DEF Calm, Still
  <2>2. Timed(gfx)
    BY <1>5, <2>1, ClocksTimed
  <2>3. QED BY <1>3, <1>14, <2>1, <2>2 DEF Calm, Still, Steady
<1>16. Home(gfx)
  <2>1. Min({0}) = 0
    BY DEF Min
  <2>2. QED BY <1>15, <2>1 DEF Home
<1>17. program \in DOMAIN Programs /\ calls = Issued(p.first) /\ IsList(p, p.first)
  BY <1>1, ProgramAssumption DEF Init
<1>18. PICK V : /\ Issued(p.first) \in Seq(V)
                /\ \A d \in V : Fit(p, d) /\ d.verb \notin {"tick", "select", "stop"}
  BY <1>17, ListFits
<1>19. Fits(p, gfx, calls) /\ \A i \in 1 .. Len(calls) : calls[i] \in V
  BY <1>17, <1>18, FitsOf
<1>20. Addressed(gfx, calls)
  BY <1>16, <1>18, <1>19, AddressedAtHome
<1>21. QED BY <1>1, <1>15, <1>17, <1>19, <1>20 DEF Inv, Whole

LEMMA NextInv ==
  ASSUME Inv, [Next]_vars
  PROVE  Inv'
<1>1. CASE UNCHANGED vars
  BY <1>1 DEF vars, Inv
<1>2. CASE Rest
  BY <1>2 DEF Rest, vars, Inv
<1>3. CASE Run \/ Do \/ console_idle_poll \/ FrameTime \/ Unwind
  BY <1>3, RunStep, DoStep, IdleStep, FrameTimeStep, UnwindStep
<1>4. CASE Addressing \/ Travel \/ Heading \/ Pens \/ Visibility \/ Painting \/ Boundaries
  <2>1. CASE Addressing
    <3>1. CASE Does("fan")
      <4>1. Becomes(Fanned(gfx, A))
        BY <2>1, <3>1 DEF Addressing, Does
      <4>2. QED BY <3>1, <4>1, FanStep
    <3>2. QED BY <2>1, <3>1, AddressingStep
  <2>2. QED BY <1>4, <2>1, TravelStep, PaintingStep, BoundariesStep
<1>5. CASE Colours \/ Dress \/ Stamping \/ Motion \/ Tickings \/ Loadpic \/ Modes \/ Showing
  BY <1>5, BoundariesStep, DressStep, MotionStep, TickingsStep, PictureStep, ShowingStep
<1>6. CASE Tiles \/ DemonTable \/ StartPoll \/ TickAll \/ Turn \/ EndPoll \/ EndLine \/ EndIdle
  BY <1>6, TilesStep, DemonTableStep, PollStep, TickAllStep, TurnStep, EndStep
<1>7. QED BY <1>1, <1>2, <1>3, <1>4, <1>5, <1>6 DEF Next

\* Whatever programs there are, and however frozen, suspended and late the polls are,
\* the turtles are credited with no more time than passed while they were alive
\* (demons_tick, demons_thaw, demons_resume), and the deadline of sync is never in the
\* future once a frame is shown (prim_sync).
THEOREM TimeAlwaysHonest == Spec => []TimeHonest
<1>1. Inv => TimeHonest
  BY DEF Inv, Whole, Timed, TimeHonest
<1>2. QED BY <1>1, InitInv, NextInv, PTL DEF Spec

\* Whatever a program issues and wherever an error cuts it short, the lowest turtle of
\* the addressed set is the one selected when the commands are done; the one exception
\* is after an error at the top level, until a command addresses the set.
THEOREM AlwaysAddressedFirst == Spec => []AddressedFirst
<1>1. Inv => AddressedFirst
  BY SettledHome DEF AddressedFirst, Settled, Home
<1>2. QED BY <1>1, InitInv, NextInv, PTL DEF Spec

-----------------------------------------------------------------------------
(* What is marked is what is covered.  A rectangle, and one that wraps, cut  *)
(* into the pieces of each axis.                                             *)

\* Division by the side of a tile.
LEMMA Division ==
  ASSUME NEW n \in Nat \ {0}, NEW a \in Int
  PROVE  a \div n \in Int /\ a % n \in 0 .. n - 1 /\ a = n * (a \div n) + (a % n)
BY SMT

LEMMA Larger ==
  ASSUME NEW n \in Nat \ {0}, NEW p \in Int, NEW q \in Int, p < q
  PROVE  n * p + n <= n * q
<1>1. q - p - 1 \in Nat
  OBVIOUS
<1>2. n * (q - p - 1) \in Nat
  BY <1>1
<1>3. n * (q - p - 1) = n * q - n * p - n
  OBVIOUS
<1>4. n * p \in Int /\ n * q \in Int
  OBVIOUS
<1>5. QED BY <1>2, <1>3, <1>4

LEMMA DivisionOrder ==
  ASSUME NEW n \in Nat \ {0}, NEW a \in Int, NEW b \in Int, a <= b
  PROVE  a \div n <= b \div n
<1>1. PICK p, r, q, s : /\ p = a \div n /\ r = a % n /\ q = b \div n /\ s = b % n
  OBVIOUS
<1>2. /\ p \in Int /\ q \in Int /\ r \in 0 .. n - 1 /\ s \in 0 .. n - 1
      /\ a = n * p + r /\ b = n * q + s
  BY <1>1, Division
<1>3. ASSUME q < p PROVE FALSE
  <2>1. n * q + n <= n * p
    BY <1>2, <1>3, Larger
  <2>2. n * q \in Int /\ n * p \in Int
    BY <1>2
  <2>3. QED BY <1>2, <2>1, <2>2
<1>4. QED BY <1>1, <1>2, <1>3

LEMMA Remainder ==
  ASSUME NEW n \in Nat \ {0}, NEW a \in Int, NEW q \in Int, NEW r \in 0 .. n - 1, a = n * q + r
  PROVE  a % n = r /\ a \div n = q
<1>1. PICK p, s : p = a \div n /\ s = a % n
  OBVIOUS
<1>2. p \in Int /\ s \in 0 .. n - 1 /\ a = n * p + s
  BY <1>1, Division
<1>3. n * p \in Int /\ n * q \in Int
  BY <1>2
<1>4. ~(p < q)
  <2>1. p < q => n * p + n <= n * q
    BY <1>2, Larger
  <2>2. QED BY <1>2, <1>3, <2>1
<1>5. ~(q < p)
  <2>1. q < p => n * q + n <= n * p
    BY <1>2, Larger
  <2>2. QED BY <1>2, <1>3, <2>1
<1>6. p = q
  BY <1>2, <1>4, <1>5
<1>7. QED BY <1>1, <1>2, <1>3, <1>6

\* A place past the end of an axis wraps around once.
LEMMA WrapsOnce ==
  ASSUME NEW n \in Nat \ {0}, NEW v \in Int, NEW k \in Nat, k < n
  PROVE  (v + k) % n = IF (v % n) + k < n THEN (v % n) + k ELSE (v % n) + k - n
<1>1. PICK q, r : q = v \div n /\ r = v % n
  OBVIOUS
<1>2. q \in Int /\ r \in 0 .. n - 1 /\ v = n * q + r
  BY <1>1, Division
<1>3. n * q \in Int /\ n * (q + 1) = n * q + n /\ q + 1 \in Int
  BY <1>2
<1>4. CASE r + k < n
  <2>1. r + k \in 0 .. n - 1 /\ v + k \in Int /\ v + k = n * q + (r + k)
    BY <1>2, <1>3, <1>4
  <2>2. (v + k) % n = r + k
    BY <1>2, <2>1, Remainder
  <2>3. QED BY <1>1, <1>4, <2>2
<1>5. CASE ~(r + k < n)
  <2>1. r + k - n \in 0 .. n - 1 /\ v + k \in Int /\ v + k = n * (q + 1) + (r + k - n)
    BY <1>2, <1>3, <1>5
  <2>2. (v + k) % n = r + k - n
    BY <1>3, <2>1, Remainder
  <2>3. QED BY <1>1, <1>5, <2>2
<1>6. QED BY <1>4, <1>5, Zenon

\* The pieces of n cells from v hold each of them, where it wraps to.
LEMMA SegmentsHold ==
  ASSUME NEW v \in Int, NEW n \in Nat \ {0}, NEW max \in Nat \ {0}
  PROVE  /\ \A s \in Segments(v, n, max) : s[1] \in Int /\ s[2] \in Int
         /\ IsFiniteSet(Segments(v, n, max))
         /\ \A k \in 0 .. n - 1 : \E s \in Segments(v, n, max) : (v + k) % max \in s[1] .. s[2]
<1>1. PICK start, count : start = (IF n > max THEN 0 ELSE v % max) /\ count = Least(n, max)
  OBVIOUS
<1>2. v % max \in 0 .. max - 1
  BY Division
<1>3. start \in 0 .. max - 1 /\ count \in 1 .. max
  BY <1>1, <1>2 DEF Least
<1>4. Segments(v, n, max) = IF start + count <= max THEN {<<start, start + count - 1>>}
                            ELSE {<<start, max - 1>>, <<0, start + count - max - 1>>}
  BY <1>1 DEF Segments
<1>5. IsFiniteSet(Segments(v, n, max))
  <2>1. \A a, b : IsFiniteSet({a}) /\ IsFiniteSet({a, b})
    <3>1. ASSUME NEW a, NEW b PROVE IsFiniteSet({a}) /\ IsFiniteSet({a, b})
      <4>1. IsFiniteSet({a})
        BY FS_Singleton, Zenon
      <4>2. IsFiniteSet({a} \cup {b})
        BY <4>1, FS_AddElement, Zenon
      <4>3. {a} \cup {b} = {a, b}
        OBVIOUS
      <4>4. QED BY <4>1, <4>2, <4>3, Zenon
    <3>2. QED BY <3>1, Zenon
  <2>2. CASE start + count <= max
    BY <1>4, <2>1, <2>2, Zenon
  <2>3. CASE ~(start + count <= max)
    BY <1>4, <2>1, <2>3, Zenon
  <2>4. QED BY <2>2, <2>3, Zenon
<1>6. ASSUME NEW k \in 0 .. n - 1
      PROVE  \E s \in Segments(v, n, max) : (v + k) % max \in s[1] .. s[2]
  <2>1. (v + k) % max \in 0 .. max - 1
    <3>1. v + k \in Int
      OBVIOUS
    <3>2. QED BY <3>1, Division
  <2>2. CASE n > max
    <3>1. Segments(v, n, max) = {<<0, max - 1>>}
      BY <1>1, <1>4, <2>2 DEF Least
    <3>2. QED BY <2>1, <3>1
  <2>3. CASE ~(n > max)
    <3>1. start = v % max /\ count = n /\ k < max /\ k \in Nat
      BY <1>1, <2>3 DEF Least
    <3>2. PICK w : w = (v + k) % max
      OBVIOUS
    <3>3. w = IF start + k < max THEN start + k ELSE start + k - max
      <4>1. (v + k) % max = IF (v % max) + k < max THEN (v % max) + k ELSE (v % max) + k - max
        BY <3>1, WrapsOnce, Zenon
      <4>2. QED BY <3>1, <3>2, <4>1, Zenon
    <3>4. CASE start + count <= max
      <4>1. w \in start .. start + count - 1
        BY <1>3, <3>1, <3>3, <3>4
      <4>2. QED BY <1>4, <3>2, <3>4, <4>1
    <3>5. CASE ~(start + count <= max)
      <4>1. w \in start .. max - 1 \/ w \in 0 .. start + count - max - 1
        BY <1>3, <3>1, <3>3
      <4>2. PICK a, b : a = <<start, max - 1>> /\ b = <<0, start + count - max - 1>>
        OBVIOUS
      <4>3. a \in Segments(v, n, max) /\ b \in Segments(v, n, max)
        BY <1>4, <3>5, <4>2
      <4>4. w \in a[1] .. a[2] \/ w \in b[1] .. b[2]
        BY <4>1, <4>2
      <4>5. QED BY <3>2, <4>3, <4>4
    <3>6. QED BY <3>4, <3>5
  <2>4. QED BY <2>2, <2>3
<1>7. \A s \in Segments(v, n, max) : s[1] \in Int /\ s[2] \in Int
  BY <1>3, <1>4
<1>8. QED BY <1>5, <1>6, <1>7

\* The columns of the canvas are whole tiles.
LEMMA TilesFit ==
  /\ \A x \in Xs : x \div DIRTY_TILE_SIZE \in TileCols
  /\ \A y \in Ys : y \div DIRTY_TILE_SIZE \in TileRows
  /\ Cardinality(TileCols) = SCREEN_WIDTH \div DIRTY_TILE_SIZE
  /\ SCREEN_WIDTH \div DIRTY_TILE_SIZE \in Nat
<1>1. ASSUME NEW n \in Nat \ {0}, NEW m \in Nat \ {0}, m % n = 0, NEW a \in 0 .. m - 1
      PROVE  a \div n \in 0 .. (m \div n) - 1
  <2>1. PICK q, r, c : q = a \div n /\ r = a % n /\ c = m \div n
    OBVIOUS
  <2>2. q \in Int /\ r \in 0 .. n - 1 /\ a = n * q + r /\ c \in Int /\ m = n * c + 0
    BY <1>1, <2>1, Division
  <2>3. n * q \in Int /\ n * c \in Int /\ n * 0 = 0 /\ 0 \in Int /\ a < m /\ 0 <= a
    BY <2>2
  <2>4. q < 0 => n * q + n <= n * 0
    BY <2>2, <2>3, Larger
  <2>5. c < q => n * c + n <= n * q
    BY <2>2, Larger
  <2>6. q # c
    BY <2>2, <2>3
  <2>7. 0 <= q /\ q < c
    BY <2>2, <2>3, <2>4, <2>5, <2>6
  <2>8. QED BY <2>1, <2>2, <2>7
<1>2. SCREEN_WIDTH \div DIRTY_TILE_SIZE \in Nat
  <2>1. SCREEN_WIDTH \div DIRTY_TILE_SIZE \in Int /\ 0 \div DIRTY_TILE_SIZE = 0
        /\ 0 \div DIRTY_TILE_SIZE <= SCREEN_WIDTH \div DIRTY_TILE_SIZE
    <3>1. 0 = DIRTY_TILE_SIZE * 0 + 0 /\ 0 \in 0 .. DIRTY_TILE_SIZE - 1 /\ SCREEN_WIDTH \in Int /\ 0 \in Int
          /\ 0 <= SCREEN_WIDTH
      BY TileAssumption
    <3>2. QED BY <3>1, TileAssumption, Division, DivisionOrder, Remainder
  <2>2. QED BY <2>1
<1>3. Cardinality(TileCols) = SCREEN_WIDTH \div DIRTY_TILE_SIZE
  <2>1. PICK c : c = SCREEN_WIDTH \div DIRTY_TILE_SIZE
    OBVIOUS
  <2>2. 0 \in Int /\ c - 1 \in Int /\ c \in Nat
    BY <1>2, <2>1
  <2>3. Cardinality(0 .. c - 1) = IF 0 > c - 1 THEN 0 ELSE (c - 1) - 0 + 1
    BY <2>2, FS_Interval
  <2>4. QED BY <2>1, <2>2, <2>3 DEF TileCols
<1>4. QED BY <1>1, <1>2, <1>3, TileAssumption DEF Xs, Ys, TileCols, TileRows

\* What is marked in a rectangle, and what stays marked.
Marked(dt, new) == new \in Spans /\ SpanPixels(dt) \subseteq SpanPixels(new)

LEMMA RectMarked ==
  ASSUME NEW dt \in Spans, NEW x0 \in Int, NEW y0 \in Int, NEW x1 \in Int, NEW y1 \in Int
  PROVE  /\ Marked(dt, dirty_tiles_mark_rect(dt, x0, y0, x1, y1))
         /\ \A p \in Pixels : p[1] \in x0 .. x1 /\ p[2] \in y0 .. y1
                              => p \in SpanPixels(dirty_tiles_mark_rect(dt, x0, y0, x1, y1))
<1>1. PICK l, t, r, b : /\ l = Greatest(x0, 0) /\ t = Greatest(y0, 0)
                        /\ r = Least(x1, SCREEN_WIDTH - 1) /\ b = Least(y1, SCREEN_HEIGHT - 1)
  OBVIOUS
<1>2. /\ l \in Int /\ t \in Int /\ r \in Int /\ b \in Int /\ l >= 0 /\ t >= 0
      /\ r <= SCREEN_WIDTH - 1 /\ b <= SCREEN_HEIGHT - 1
      /\ SCREEN_WIDTH \in Int /\ SCREEN_HEIGHT \in Int
  BY <1>1, TileAssumption DEF Greatest, Least
<1>3. PICK new : new = dirty_tiles_mark_rect(dt, x0, y0, x1, y1)
  OBVIOUS
<1>4. \A p \in Pixels : p[1] \in x0 .. x1 /\ p[2] \in y0 .. y1 => p[1] \in l .. r /\ p[2] \in t .. b
  BY <1>1, TileAssumption DEF Greatest, Least, Pixels, Xs, Ys
<1>5. CASE l > r \/ t > b
  <2>1. new = dt
    BY <1>1, <1>3, <1>5 DEF dirty_tiles_mark_rect
  <2>2. \A p \in Pixels : ~(p[1] \in l .. r /\ p[2] \in t .. b)
    BY <1>2, <1>5 DEF Pixels, Xs, Ys
  <2>3. QED BY <1>3, <1>4, <2>1, <2>2 DEF Marked
<1>6. CASE ~(l > r \/ t > b)
  <2>1. l \in Xs /\ r \in Xs /\ t \in Ys /\ b \in Ys /\ l <= r /\ t <= b
    BY <1>2, <1>6 DEF Xs, Ys
  <2>2. PICK lo, hi, top, low :
           /\ lo = l \div DIRTY_TILE_SIZE /\ hi = r \div DIRTY_TILE_SIZE
           /\ top = t \div DIRTY_TILE_SIZE /\ low = b \div DIRTY_TILE_SIZE
    OBVIOUS
  <2>3. lo \in TileCols /\ hi \in TileCols /\ top \in TileRows /\ low \in TileRows
    BY <2>1, <2>2, TilesFit
  <2>4. lo <= hi
    BY <1>2, <2>1, <2>2, TileAssumption, DivisionOrder
  <2>5. new = [row \in TileRows |-> IF row \in top .. low THEN Widen(dt[row], lo, hi) ELSE dt[row]]
    BY <1>1, <1>3, <1>6, <2>2, Zenon DEF dirty_tiles_mark_rect
  <2>6. PICK n : n = Cardinality(TileCols) /\ n \in Nat /\ TileCols = 0 .. n - 1
    <3>1. PICK n : n = SCREEN_WIDTH \div DIRTY_TILE_SIZE
      OBVIOUS
    <3>2. TileCols = 0 .. n - 1
      BY <3>1, Zenon DEF TileCols
    <3>3. n = Cardinality(TileCols) /\ n \in Nat
      <4>1. Cardinality(TileCols) = SCREEN_WIDTH \div DIRTY_TILE_SIZE /\ SCREEN_WIDTH \div DIRTY_TILE_SIZE \in Nat
        BY TilesFit
      <4>2. QED BY <3>1, <4>1
    <3>4. QED BY <3>2, <3>3, Zenon
  <2>7. ASSUME NEW row \in TileRows
        PROVE  LET s == dt[row]
                   w == Widen(dt[row], lo, hi)
               IN  /\ w \in [min : TileCols, max : TileCols]
                   /\ \A c \in Int : c \in s.min .. s.max \/ c \in lo .. hi => c \in w.min .. w.max
    <3>1. PICK s : s = dt[row]
      OBVIOUS
    <3>2. s \in [min : TileCols, max : TileCols] \/ s = [min |-> n, max |-> -1]
      BY <2>6, <3>1 DEF Spans, NoSpan
    <3>3. PICK w : w = Widen(s, lo, hi)
      OBVIOUS
    <3>4. w = [min |-> Least(s.min, lo), max |-> Greatest(s.max, hi)]
      BY <3>3 DEF Widen
    <3>5. CASE s \in [min : TileCols, max : TileCols]
      <4>1. s.min \in TileCols /\ s.max \in TileCols
        BY <3>5
      <4>2. w.min \in TileCols /\ w.max \in TileCols /\ w.min <= s.min /\ w.min <= lo /\ s.max <= w.max /\ hi <= w.max
        BY <2>3, <2>6, <3>4, <4>1 DEF Least, Greatest
      <4>3. \A c \in Int : c \in s.min .. s.max \/ c \in lo .. hi => c \in w.min .. w.max
        BY <2>3, <2>6, <4>1, <4>2
      <4>4. QED BY <3>1, <3>3, <3>4, <4>2, <4>3
    <3>6. CASE s = [min |-> n, max |-> -1]
      <4>0. s.min = n /\ s.max = -1 /\ lo \in 0 .. n - 1 /\ hi \in 0 .. n - 1
        BY <2>3, <2>6, <3>6, Zenon
      <4>1. w.min = lo /\ w.max = hi
        <5>1. w.min = Least(n, lo) /\ w.max = Greatest(-1, hi)
          BY <3>4, <4>0
        <5>2. n \in Int /\ lo \in Int /\ hi \in Int /\ lo < n /\ 0 <= hi
          BY <2>6, <4>0
        <5>3. QED BY <5>1, <5>2 DEF Least, Greatest
      <4>2. \A c \in Int : c \in s.min .. s.max \/ c \in lo .. hi => c \in w.min .. w.max
        <5>1. ASSUME NEW c \in Int PROVE ~(c \in s.min .. s.max)
          <6>1. n \in Nat
            BY <2>6
          <6>2. ~(c \in n .. -1)
            BY <6>1
          <6>3. s.min .. s.max = n .. -1
            BY <4>0, Zenon
          <6>4. QED BY <6>2, <6>3, Zenon
        <5>2. QED BY <4>1, <5>1
      <4>3. QED BY <2>3, <3>1, <3>3, <3>4, <4>1, <4>2
    <3>7. QED BY <3>2, <3>5, <3>6
  <2>8. new \in Spans
    BY <2>5, <2>7 DEF Spans
  <2>9. \A p \in Pixels : p[1] \div DIRTY_TILE_SIZE \in Int /\ p[2] \div DIRTY_TILE_SIZE \in TileRows
    <3>1. \A x \in Xs : x \div DIRTY_TILE_SIZE \in Int
      BY <2>6, TilesFit
    <3>2. QED BY <3>1, TilesFit DEF Pixels
  <2>10. ASSUME NEW p \in Pixels, p \in SpanPixels(dt)
         PROVE  p \in SpanPixels(new)
    <3>1. PICK row, c : row = p[2] \div DIRTY_TILE_SIZE /\ c = p[1] \div DIRTY_TILE_SIZE
      OBVIOUS
    <3>2. row \in TileRows /\ c \in Int /\ c \in dt[row].min .. dt[row].max
      BY <2>9, <2>10, <3>1 DEF SpanPixels
    <3>3. c \in new[row].min .. new[row].max
      BY <2>5, <2>7, <3>2
    <3>4. QED BY <3>1, <3>3 DEF SpanPixels
  <2>11. ASSUME NEW p \in Pixels, p[1] \in l .. r, p[2] \in t .. b
         PROVE  p \in SpanPixels(new)
    <3>1. PICK row, c : row = p[2] \div DIRTY_TILE_SIZE /\ c = p[1] \div DIRTY_TILE_SIZE
      OBVIOUS
    <3>2. p[1] \in Int /\ p[2] \in Int /\ l <= p[1] /\ p[1] <= r /\ t <= p[2] /\ p[2] <= b
      BY <1>2, <2>11
    <3>3. lo <= c /\ c <= hi
      BY <1>2, <2>2, <3>1, <3>2, TileAssumption, DivisionOrder
    <3>4. top <= row /\ row <= low
      BY <1>2, <2>2, <3>1, <3>2, TileAssumption, DivisionOrder
    <3>5. row \in TileRows /\ c \in Int
      BY <2>9, <3>1
    <3>6. row \in top .. low /\ c \in lo .. hi
      BY <2>3, <2>6, <3>3, <3>4, <3>5 DEF TileRows
    <3>7. c \in new[row].min .. new[row].max
      BY <2>5, <2>7, <3>5, <3>6
    <3>8. QED BY <3>1, <3>7 DEF SpanPixels
  <2>12. SpanPixels(dt) \subseteq Pixels
    BY DEF SpanPixels
  <2>13. QED BY <1>3, <1>4, <2>8, <2>10, <2>11, <2>12 DEF Marked
<1>7. QED BY <1>5, <1>6

Box(e) == {p \in Pixels : p[1] \in e[1][1] .. e[1][2] /\ p[2] \in e[2][1] .. e[2][2]}
Boxes == (Int \X Int) \X (Int \X Int)

LEMMA MarkIs ==
  ASSUME NEW dt, NEW S
  PROVE  FoldSet(LAMBDA s, acc : dirty_tiles_mark_rect(acc, s[1][1], s[2][1], s[1][2], s[2][2]), dt, S)
           = Fold("mark", 0, dt, S)
<1> DEFINE Onward(acc, s) == dirty_tiles_mark_rect(acc, s[1][1], s[2][1], s[1][2], s[2][2])
           Body(it, s) == LET x == CHOOSE y \in s : TRUE IN Onward(it[s \ {x}], x)
           Eq(it) == it = [s \in SUBSET S |-> IF s = {} THEN dt ELSE Body(it, s)]
<1>1. \A it : FoldEq("mark", 0, dt, SUBSET S, it) <=> Eq(it)
  <2>1. ASSUME NEW it, NEW s
        PROVE  StepOf("mark", 0, it[s \ {Pick("mark", s)}], Pick("mark", s)) = Body(it, s)
    <3>1. PICK x : x = CHOOSE y \in s : TRUE
      OBVIOUS
    <3>2. Pick("mark", s) = x
      BY <3>1 DEF Pick, ByPlace
    <3>3. \A acc : StepOf("mark", 0, acc, x) = Onward(acc, x)
      BY DEF StepOf
    <3> HIDE DEF Onward
    <3>4. Body(it, s) = Onward(it[s \ {x}], x)
      BY <3>1
    <3> HIDE DEF Body
    <3>5. QED BY <3>2, <3>3, <3>4
  <2> HIDE DEF Body
  <2>2. QED BY <2>1, Zenon DEF FoldEq
<1>2. (CHOOSE it : FoldEq("mark", 0, dt, SUBSET S, it)) = (CHOOSE it : Eq(it))
  <2> HIDE DEF Eq
  <2>1. QED BY <1>1, Zenon
<1>3. FoldSet(LAMBDA s, acc : dirty_tiles_mark_rect(acc, s[1][1], s[2][1], s[1][2], s[2][2]), dt, S)
        = (CHOOSE it : Eq(it))[S]
  BY Zenon DEF FoldSet, MapThenFoldSet
<1>4. QED BY <1>2, <1>3, Zenon DEF Fold

\* Every box of the set is marked, in whatever order they are taken.
LEMMA BoxesMarked ==
  ASSUME NEW dt \in Spans, NEW S \in SUBSET Boxes, IsFiniteSet(S)
  PROVE  /\ Marked(dt, Fold("mark", 0, dt, S))
         /\ \A e \in S : Box(e) \subseteq SpanPixels(Fold("mark", 0, dt, S))
<1> DEFINE Good(s, acc) == Marked(dt, acc) /\ \A e \in s : Box(e) \subseteq SpanPixels(acc)
<1>0. \A s \in SUBSET S : s # {} => Pick("mark", s) \in s
  BY PicksMember DEF ByPlace
<1>1. PICK it : it = CHOOSE f : FoldEq("mark", 0, dt, SUBSET S, f)
  OBVIOUS
<1>2. FoldEq("mark", 0, dt, SUBSET S, it)
  BY <1>0, <1>1, FoldExists
<1> DEFINE Bad == {i \in Nat : \E s \in SUBSET S : Cardinality(s) = i /\ ~Good(s, it[s])}
<1>3. ASSUME Bad # {} PROVE FALSE
  <2>1. Bad \in SUBSET Nat
    OBVIOUS
  <2>2. PICK m \in Bad : \A y \in Bad : m <= y
    <3> HIDE DEF Bad
    <3>1. QED BY <1>3, <2>1, LeastOf
  <2>3. PICK s \in SUBSET S : Cardinality(s) = m /\ ~Good(s, it[s])
    <3> HIDE DEF Good
    <3>1. QED BY <2>2
  <2>4. it[s] = IF s = {} THEN dt ELSE StepOf("mark", 0, it[s \ {Pick("mark", s)}], Pick("mark", s))
    BY <1>2, Zenon DEF FoldEq
  <2>5. s # {}
    <3>1. s = {} => it[s] = dt
      BY <2>4
    <3>2. s = {} => Good(s, it[s])
      BY <3>1 DEF Marked
    <3> HIDE DEF Good
    <3>3. QED BY <2>3, <3>2
  <2> DEFINE q == s \ {Pick("mark", s)}
             x == Pick("mark", s)
  <2>6. x \in s /\ s = q \cup {x}
    BY <1>0, <2>5
  <2>7. q \in SUBSET S /\ Cardinality(q) = m - 1 /\ Cardinality(q) \in Nat
    BY <2>3, <2>6, Parts
  <2>8. it[s] = StepOf("mark", 0, it[q], x)
    BY <2>4, <2>5
  <2> HIDE DEF q, x
  <2>9. it[s] = dirty_tiles_mark_rect(it[q], x[1][1], x[2][1], x[1][2], x[2][2])
    BY <2>8 DEF StepOf
  <2>10. ASSUME Good(q, it[q]) PROVE Good(s, it[s])
    <3>1. x[1][1] \in Int /\ x[2][1] \in Int /\ x[1][2] \in Int /\ x[2][2] \in Int /\ it[q] \in Spans
      BY <2>6, <2>10 DEF Boxes, Marked
    <3>2. Marked(it[q], it[s]) /\ Box(x) \subseteq SpanPixels(it[s])
      <4>1. /\ Marked(it[q], dirty_tiles_mark_rect(it[q], x[1][1], x[2][1], x[1][2], x[2][2]))
            /\ \A p \in Pixels : p[1] \in x[1][1] .. x[1][2] /\ p[2] \in x[2][1] .. x[2][2]
                 => p \in SpanPixels(dirty_tiles_mark_rect(it[q], x[1][1], x[2][1], x[1][2], x[2][2]))
        BY <3>1, RectMarked, Zenon
      <4>2. QED BY <2>9, <4>1 DEF Box
    <3>3. Marked(dt, it[s])
      BY <2>10, <3>2 DEF Marked
    <3>4. \A e \in q : Box(e) \subseteq SpanPixels(it[s])
      BY <2>10, <3>2 DEF Marked
    <3>5. QED BY <2>6, <3>2, <3>3, <3>4
  <2>11. Cardinality(q) \in Bad
    <3> HIDE DEF Good
    <3>1. ~Good(q, it[q])
      BY <2>3, <2>10
    <3>2. QED BY <2>7, <3>1
  <2> HIDE DEF Bad
  <2>12. m <= Cardinality(q) /\ m \in Nat
    BY <2>1, <2>2, <2>11
  <2>13. QED BY <2>7, <2>12
<1>4. S \in SUBSET S /\ Cardinality(S) \in Nat
  BY Parts
<1>5. Good(S, it[S])
  <2> HIDE DEF Good
  <2>1. QED BY <1>3, <1>4
<1>6. it[S] = Fold("mark", 0, dt, S)
  BY <1>1, Zenon DEF Fold
<1>7. QED BY <1>5, <1>6

\* Where the cells of a box land: what MarkBox marks.
Area(g, x, y, w, h) ==
  {p \in Pixels : \E i \in 0 .. w - 1, j \in 0 .. h - 1 : p = Landing(g, x + i, y + j)}

LEMMA BoxMarked ==
  ASSUME NEW g, "tiles" \in DOMAIN g, g.tiles \in Spans,
         NEW x \in Int, NEW y \in Int, NEW w \in Int, NEW h \in Int
  PROVE  /\ Marked(g.tiles, MarkBox(g, x, y, w, h).tiles)
         /\ Area(g, x, y, w, h) \subseteq SpanPixels(MarkBox(g, x, y, w, h).tiles)
<1>1. PICK once : once = dirty_tiles_mark_rect(g.tiles, x, y, x + w - 1, y + h - 1)
  OBVIOUS
<1>2. /\ Marked(g.tiles, once)
      /\ \A p \in Pixels : p[1] \in x .. x + w - 1 /\ p[2] \in y .. y + h - 1 => p \in SpanPixels(once)
  <2>1. x + w - 1 \in Int /\ y + h - 1 \in Int
    OBVIOUS
  <2>2. QED BY <1>1, <2>1, RectMarked, Zenon
<1>3. PICK all : all = dirty_tiles_mark_rect_wrap(once, x, y, w, h)
  OBVIOUS
<1>4. MarkBox(g, x, y, w, h).tiles = all
  BY <1>1, <1>3 DEF MarkBox
<1>5. CASE w <= 0 \/ h <= 0
  <2>1. all = once
    BY <1>3, <1>5, Zenon DEF dirty_tiles_mark_rect_wrap
  <2>2. Area(g, x, y, w, h) = {}
    BY <1>5 DEF Area
  <2>3. QED BY <1>2, <1>4, <2>1, <2>2
<1>6. CASE ~(w <= 0 \/ h <= 0)
  <2>1. PICK across, down : across = Segments(x, w, SCREEN_WIDTH) /\ down = Segments(y, h, SCREEN_HEIGHT)
    OBVIOUS
  <2>2. all = Fold("mark", 0, once, across \X down)
    <3>1. all = FoldSet(LAMBDA s, acc : dirty_tiles_mark_rect(acc, s[1][1], s[2][1], s[1][2], s[2][2]),
                        once, across \X down)
      BY <1>3, <1>6, <2>1, Zenon DEF dirty_tiles_mark_rect_wrap
    <3>2. QED BY <3>1, MarkIs, ZenonT(40)
  <2>3. /\ \A s \in across : s \in Int \X Int
        /\ \A s \in down : s \in Int \X Int
        /\ IsFiniteSet(across) /\ IsFiniteSet(down)
        /\ \A k \in 0 .. w - 1 : \E s \in across : (x + k) % SCREEN_WIDTH \in s[1] .. s[2]
        /\ \A k \in 0 .. h - 1 : \E s \in down : (y + k) % SCREEN_HEIGHT \in s[1] .. s[2]
    <3>1. w \in Nat \ {0} /\ h \in Nat \ {0}
      BY <1>6
    <3>2. /\ \A s \in across : s[1] \in Int /\ s[2] \in Int
          /\ \A s \in down : s[1] \in Int /\ s[2] \in Int
          /\ IsFiniteSet(across) /\ IsFiniteSet(down)
          /\ \A k \in 0 .. w - 1 : \E s \in across : (x + k) % SCREEN_WIDTH \in s[1] .. s[2]
          /\ \A k \in 0 .. h - 1 : \E s \in down : (y + k) % SCREEN_HEIGHT \in s[1] .. s[2]
      BY <2>1, <3>1, TileAssumption, SegmentsHold, Zenon
    <3>3. \A v, n, max : \A s \in Segments(v, n, max) : s = <<s[1], s[2]>>
      BY DEF Segments
    <3>4. QED BY <2>1, <3>2, <3>3
  <2>4. across \X down \in SUBSET Boxes /\ IsFiniteSet(across \X down)
    <3>1. across \X down \in SUBSET Boxes
      BY <2>3 DEF Boxes
    <3>2. QED BY <2>3, <3>1, FS_Product
  <2>5. /\ Marked(once, all) /\ \A e \in across \X down : Box(e) \subseteq SpanPixels(all)
    BY <1>2, <2>2, <2>4, BoxesMarked DEF Marked
  <2>6. Marked(g.tiles, all)
    BY <1>2, <2>5 DEF Marked
  <2>7. ASSUME NEW i \in 0 .. w - 1, NEW j \in 0 .. h - 1, Landing(g, x + i, y + j) \in Pixels
        PROVE  Landing(g, x + i, y + j) \in SpanPixels(all)
    <3>1. PICK p : p = Landing(g, x + i, y + j)
      OBVIOUS
    <3>2. CASE g.boundary = "wrap"
      <4>1. p = <<(x + i) % SCREEN_WIDTH, (y + j) % SCREEN_HEIGHT>>
        BY <3>1, <3>2 DEF Landing
      <4>2. PICK a \in across : (x + i) % SCREEN_WIDTH \in a[1] .. a[2]
        BY <2>3
      <4>3. PICK b \in down : (y + j) % SCREEN_HEIGHT \in b[1] .. b[2]
        BY <2>3
      <4>4. PICK e : e = <<a, b>>
        OBVIOUS
      <4>5. e \in across \X down /\ e[1] = a /\ e[2] = b
        BY <4>4
      <4>6. p[1] \in e[1][1] .. e[1][2] /\ p[2] \in e[2][1] .. e[2][2]
        BY <4>1, <4>2, <4>3, <4>5
      <4>7. p \in Box(e)
        BY <2>7, <3>1, <4>6 DEF Box
      <4>8. QED BY <2>5, <3>1, <4>5, <4>7
    <3>3. CASE g.boundary # "wrap"
      <4>1. p = <<x + i, y + j>>
        BY <3>1, <3>3 DEF Landing
      <4>2. p[1] \in x .. x + w - 1 /\ p[2] \in y .. y + h - 1
        BY <4>1
      <4>3. p \in SpanPixels(once)
        BY <1>2, <2>7, <3>1, <4>2
      <4>4. QED BY <2>5, <3>1, <4>3 DEF Marked
    <3>4. QED BY <3>2, <3>3
  <2>8. QED BY <1>4, <2>6, <2>7 DEF Area
<1>7. QED BY <1>5, <1>6

\* A sprite that is set has marked every pixel it covers and every pixel it covered
\* before, over the edges too, in every boundary mode, and nothing that was marked is
\* forgotten (screen_sprite_set, dirty_tiles_mark_rect_wrap).
SpriteBox(s) == s.x \in Int /\ s.y \in Int /\ s.w \in Int /\ s.h \in Int
THEOREM SpriteAlwaysMarked ==
  ASSUME NEW g, {"tiles", "sprites", "boundary"} \subseteq DOMAIN g, g.tiles \in Spans,
         NEW id, id \in DOMAIN g.sprites, SpriteBox(g.sprites[id]), NEW sprite, SpriteBox(sprite)
  PROVE  LET h == screen_sprite_set(g, id, sprite)
             was == g.sprites[id]
         IN  /\ Marked(g.tiles, h.tiles)
             /\ Area(g, sprite.x, sprite.y, sprite.w, sprite.h) \subseteq SpanPixels(h.tiles)
             /\ was.visible => Area(g, was.x, was.y, was.w, was.h) \subseteq SpanPixels(h.tiles)
<1>1. PICK was : was = g.sprites[id]
  OBVIOUS
<1>2. PICK old : old = IF was.visible THEN MarkBox(g, was.x, was.y, was.w, was.h) ELSE g
  OBVIOUS
<1>3. /\ "tiles" \in DOMAIN old /\ Marked(g.tiles, old.tiles) /\ old.boundary = g.boundary
      /\ was.visible => Area(g, was.x, was.y, was.w, was.h) \subseteq SpanPixels(old.tiles)
  <2>1. CASE was.visible
    <3>1. old = MarkBox(g, was.x, was.y, was.w, was.h)
      BY <1>2, <2>1
    <3>2. "tiles" \in DOMAIN old /\ old.boundary = g.boundary
      BY <3>1 DEF MarkBox
    <3>3. QED BY <1>1, <3>1, <3>2, BoxMarked DEF SpriteBox
  <2>2. CASE ~was.visible
    BY <1>2, <2>2 DEF Marked
  <2>3. QED BY <2>1, <2>2
<1>4. PICK set : set = [old EXCEPT !.sprites[id] = sprite]
  OBVIOUS
<1>5. set.tiles = old.tiles /\ set.boundary = g.boundary /\ "tiles" \in DOMAIN set
  BY <1>3, <1>4
<1>6. PICK h : h = MarkBox(set, sprite.x, sprite.y, sprite.w, sprite.h)
  OBVIOUS
<1>7. /\ Marked(set.tiles, h.tiles)
      /\ Area(set, sprite.x, sprite.y, sprite.w, sprite.h) \subseteq SpanPixels(h.tiles)
  BY <1>3, <1>5, <1>6, BoxMarked DEF SpriteBox, Marked
<1>8. Area(set, sprite.x, sprite.y, sprite.w, sprite.h) = Area(g, sprite.x, sprite.y, sprite.w, sprite.h)
  BY <1>5 DEF Area, Landing
<1>9. h = screen_sprite_set(g, id, sprite)
  BY <1>1, <1>2, <1>4, <1>6 DEF screen_sprite_set, sprite_mark
<1>10. QED BY <1>1, <1>3, <1>5, <1>7, <1>8, <1>9 DEF Marked
=============================================================================
