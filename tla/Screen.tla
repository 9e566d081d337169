-------------------------------- MODULE Screen ---------------------------------
(***************************************************************************)
(* The graphics of the PicoCalc as a program sees them.  Everything the C  *)
(* files keep is the record gfx of Canvas, Turtles, Demons and Tilemap.    *)
(* What a program issues, and the prompt's poll, become a sequence of      *)
(* calls on the console, which are then carried out one action at a time;  *)
(* calls says which are still to come.  An error drops the calls to come   *)
(* but those that are made whatever happens.                               *)
(***************************************************************************)
EXTENDS Tilemap

CONSTANTS Programs      \* a sequence of [mode, first, ops, actions, lags, steps]: the mode and the
                        \* calls made at the start, the instructions to choose from, the lists
                        \* that when is given, the delays, and how many instructions and idle
                        \* polls there are

VARIABLES gfx, calls, program, left, said

vars == <<gfx, calls, program, left, said>>

-----------------------------------------------------------------------------
(* The screen's mode, its refresh, and the pace of its frames.               *)

\* Text covers what the mode leaves to it; the graphics are sent whatever the
\* refresh is.
screen_set_mode(g, mode) ==
    LET Covered(h) == [h EXCEPT !.panel = [p \in Pixels |->
                          IF p \in Visible(mode) THEN @[p] ELSE Ink]]
    IN  IF g.mode = mode THEN g
        ELSE IF mode = "TXT" THEN Covered([g EXCEPT !.mode = mode])
        ELSE Covered(screen_gfx_present(screen_gfx_mark_all_dirty([g EXCEPT !.mode = mode])))

Passed(g, ms) == [g EXCEPT !.now = @ + ms,
                           !.alive = @ + (IF g.frozen \/ g.suspended THEN 0 ELSE ms)]

frame_sync_set(g, period) ==
    [g EXCEPT !.sync = [active |-> period > 0, period |-> period, deadline |-> @.deadline, have |-> FALSE]]
frame_sync_reset(g) ==
    [g EXCEPT !.sync = [active |-> FALSE, period |-> 0, deadline |-> 0, have |-> FALSE]]

\* The frame is shown and the rest of its period slept; a frame that took longer
\* starts the cadence anew.
Paced(g, due) ==
    IF due < g.now THEN [g EXCEPT !.sync.deadline = g.now, !.sync.have = TRUE]
    ELSE Passed([g EXCEPT !.sync.deadline = due, !.sync.have = TRUE], due - g.now)
prim_sync(g) ==
    IF ~g.sync.active THEN screen_gfx_present(g)
    ELSE Paced(screen_gfx_present(g),
               g.sync.period + (IF g.sync.have THEN g.sync.deadline ELSE g.now))

-----------------------------------------------------------------------------
(* Calls.                                                                    *)

Call(verb, a, b, c) == [verb |-> verb, a |-> a, b |-> b, c |-> c, always |-> FALSE]
Call0(verb)       == Call(verb, 0, 0, 0)
Call1(verb, a)    == Call(verb, a, 0, 0)
Call2(verb, a, b) == Call(verb, a, b, 0)
Always(call) == [call EXCEPT !.always = TRUE]

Ascending(S) == InOrder(S, <)
Select(n)    == Call1("select", n)
First        == Always(Call0("first"))
Address(set) == Call1("address", set)
Poll(ms)     == Call1("poll", ms)

\* These are done by every turtle of the set in turn; the others once.
EachTurtles == {"fd", "setpos", "setx", "sety", "home", "rt", "setpc", "pen", "setpensize", "shown",
                "dot", "fill", "arc", "setsh", "setrot", "setmag", "stamp", "write", "setspeed",
                "setanim"}

\* What a program may call, with inputs that the primitive takes.
Primitives == EachTurtles \cup
    {"address", "cs", "clean", "fence", "window", "wrap", "setbg", "setpalette", "restorepalette",
     "putsh", "snapsh", "loadpic", "mode", "setrefresh", "refresh", "sync", "newtiles", "newmap",
     "snaptile", "settile", "stampmap", "stamptile", "when", "cleardemons", "freeze", "thaw"}
TurtleSets == (SUBSET AllTurtles) \ {{}}
IsCommand(p, call) ==
    /\ call = Call(call.verb, call.a, call.b, call.c) /\ call.verb \in Primitives
    /\ call.verb = "address" => call.a \in TurtleSets
    /\ call.verb = "setrefresh" => call.b \in Nat
    /\ call.verb = "arc" => call.a \in Nat
    /\ call.verb = "newtiles" => call.a \in TILE_SIZES
    /\ call.verb = "newmap" => call.a \in Nat \ {0} /\ call.b \in Nat \ {0}
    /\ call.verb = "when" => call.b \in {NODE_NIL} \cup DOMAIN p.actions
IsList(p, list) ==
    Len(list) \in Nat /\ DOMAIN list = 1 .. Len(list) /\ \A i \in DOMAIN list : IsCommand(p, list[i])

ASSUME ProgramAssumption ==
    \A n \in DOMAIN Programs :
        LET p == Programs[n]
        IN  /\ p.lags \subseteq Nat /\ IsList(p, p.first)
            /\ \A k \in DOMAIN p.actions : IsList(p, p.actions[k])
            /\ \A i \in DOMAIN p.ops :
                   /\ p.ops[i].how \in {"plain", "ask", "each", "load"}
                   /\ p.ops[i].who \in TurtleSets /\ p.ops[i].lag \in Nat
                   /\ IsCommand(p, p.ops[i].call)

Issue(call) == <<IF call.verb \in EachTurtles THEN Call1("fan", call) ELSE call>>
Issued(list) == FlattenSeq([i \in 1 .. Len(list) |-> Issue(list[i])])

\* An instruction [how, who, lag, call]: alone; as the list of an ask or an each, with
\* the set it addresses put back whatever happens; or as the one line of a file that
\* is loaded.  Before an instruction of a list, too, the demons are polled.
Instruction(g, op) ==
    CASE op.how = "plain" -> Issue(op.call)
      [] op.how = "ask"   -> <<Address(op.who), Poll(op.lag)>> \o Issue(op.call)
                                 \o <<Always(Address(g.active))>>
      [] op.how = "each"  -> FlattenSeq([i \in 1 .. Cardinality(g.active) |->
                                 <<Address({Ascending(g.active)[i]}), Poll(op.lag)>> \o Issue(op.call)])
                                 \o <<Always(Address(g.active))>>
      [] op.how = "load"  -> <<Call0("suspend"), Poll(op.lag)>> \o Issue(op.call)
                                 \o <<Always(Call0("resume"))>>

\* Mutant: the turtle a command came to last stays selected.
FannedAstray(g, call) ==
    FlattenSeq([i \in 1 .. Cardinality(g.active) |-> <<Select(Ascending(g.active)[i]), call>>])

Fanned(g, call) ==
    FlattenSeq([i \in 1 .. Cardinality(g.active) |-> <<Select(Ascending(g.active)[i]), call>>])
        \o <<First>>

\* An arc: with the pen up to its start, around in quarter turns (the code takes many
\* smaller ones), and back to the centre with the pen up, even after an error.
ArcPoint(pos, angle, radius) ==
    Call2("setpos", pos[1] + radius * Sin(angle % 360), pos[2] + radius * Cos(angle % 360))
ArcFrom(pos, angle, pen, quarters, radius) ==
    <<Call1("pen", "up"), ArcPoint(pos, angle, radius), Call1("pen", pen)>>
        \o [i \in 1 .. quarters |-> ArcPoint(pos, angle + 90 * i, radius)]
        \o <<Always(Call1("pen", "up")), Always(Call2("setpos", pos[1], pos[2])), Always(Call1("pen", pen))>>
prim_arc(g, quarters, radius) ==
    ArcFrom(turtle_get_position(g), Cur(g).angle, Cur(g).pen_state, quarters, radius)

\* clearscreen: one turtle at home, the others hidden there, nothing moving.
Rehidden(n) == <<Select(n), Call1("pen", "up"), Call0("home"), Call1("pen", "down"), Call1("shown", FALSE)>>
prim_clearscreen(g) ==
    <<Address({0}), Call0("stop"), Call0("first"), Call0("clean"),
      Call1("pen", "up"), Call0("home"), Call1("pen", g.turtles[0].pen_state)>>
        \o FlattenSeq([n \in 1 .. MAX_TURTLES - 1 |-> Rehidden(n)])
        \o <<First, Call1("auto", TRUE), Call0("unsync")>>

\* A tick moves every turtle that moves, and leaves the one selected that was.
Tick(g) ==
    LET ms == TickTime(g)
        moving == Ascending(Moving(g))
        Ticks(n) == <<Select(n), Call1("glide", ms), Call1("animate", ms)>>
    IN  FlattenSeq([i \in 1 .. Cardinality(Moving(g)) |-> Ticks(moving[i])]) \o <<Select(g.current)>>

Turns == [i \in DemonSlots |-> Call1("turn", i)]
PollCalls == <<Call0("tick")>> \o Turns \o <<Always(Call0("polled"))>>

\* Nothing acts on its own, and the screen is in automatic refresh, once an error has
\* come to the top level.
Toplevel(g) ==
    [demons_reset(frame_sync_reset(screen_gfx_set_refresh_auto(g, TRUE))) EXCEPT !.ok = TRUE]

-----------------------------------------------------------------------------
(* Carrying out a call.                                                      *)

Does(verb) == calls # <<>> /\ (gfx.ok \/ Head(calls).always) /\ Head(calls).verb = verb
Sets(g) == gfx' = g /\ calls' = Tail(calls) /\ UNCHANGED <<program, left, said>>
Becomes(more) == calls' = more \o Tail(calls) /\ UNCHANGED <<gfx, program, left, said>>

A == Head(calls).a
B == Head(calls).b
C == Head(calls).c

Unwind == calls # <<>> /\ ~gfx.ok /\ ~Head(calls).always /\ Becomes(<<>>)

Addressing ==
    \/ Does("select")  /\ Sets(turtle_op_select(gfx, A))
    \/ Does("first")   /\ Sets(select_first_active(gfx))
    \/ Does("address") /\ Sets(prim_tell(gfx, A))
    \/ Does("fan")     /\ Becomes(Fanned(gfx, A))

Travel ==
    \/ Does("fd")     /\ Sets(turtle_move(gfx, A))
    \/ Does("setpos") /\ Sets(turtle_set_position(gfx, A, B))
    \/ Does("setx")   /\ Becomes(<<Call2("setpos", A, turtle_get_position(gfx)[2])>>)
    \/ Does("sety")   /\ Becomes(<<Call2("setpos", turtle_get_position(gfx)[1], A)>>)
    \/ Does("home")   /\ Sets(turtle_home(gfx))

Heading == Does("rt") /\ Sets(turtle_set_angle(gfx, Cur(gfx).angle + A))

Pens ==
    \/ Does("setpc")      /\ Sets(turtle_set_colour(gfx, A))
    \/ Does("pen")        /\ Sets(turtle_set_pen_state(gfx, A))
    \/ Does("setpensize") /\ Sets(turtle_set_pen_size(gfx, A))

Visibility == Does("shown") /\ Sets(turtle_set_visibility(gfx, A))

Painting ==
    \/ Does("cs")    /\ Becomes(prim_clearscreen(gfx))
    \/ Does("clean") /\ Sets(turtle_clearscreen(gfx))
    \/ Does("dot")   /\ Sets(turtle_dot(gfx, A, B))
    \/ Does("fill")  /\ Sets(turtle_fill(gfx))
    \/ Does("arc")   /\ Becomes(prim_arc(gfx, A, B))

Boundaries ==
    \/ Does("fence")  /\ Sets(turtle_set_fence(gfx))
    \/ Does("window") /\ Sets(turtle_set_window(gfx))
    \/ Does("wrap")   /\ Sets(turtle_set_wrap(gfx))

Colours ==
    \/ Does("setbg")          /\ Sets(turtle_set_bg_colour(gfx, A))
    \/ Does("setpalette")     /\ Sets(turtle_set_palette(gfx, A, B))
    \/ Does("restorepalette") /\ Sets(turtle_restore_palette(gfx))

Dress ==
    \/ Does("putsh")  /\ Sets(turtle_put_shape_data(gfx, A, B))
    \/ Does("setsh")  /\ Sets(turtle_set_shape_num(gfx, A))
    \/ Does("setrot") /\ Sets(turtle_set_rotation_style(gfx, A))
    \/ Does("setmag") /\ Sets(turtle_set_scale(gfx, A))

Stamping ==
    \/ Does("stamp")  /\ Sets(turtle_stamp(gfx))
    \/ Does("write")  /\ Sets(turtle_draw_text(gfx, A))
    \/ Does("snapsh") /\ Sets(turtle_snap_costume(gfx, A, B, C))

Motion ==
    \/ Does("setspeed") /\ Sets(turtle_set_speed(gfx, A))
    \/ Does("setanim")  /\ Sets(turtle_set_anim(gfx, A, B, C))
    \/ Does("stop")     /\ Sets(turtle_stop_motion(gfx))

\* A tick's calls: gliding, counting the time to the next frame, and the frames due,
\* one at a time.
AndFrames == calls' = <<Call0("frames")>> \o Tail(calls) /\ UNCHANGED <<program, left, said>>
Tickings ==
    \/ Does("glide")   /\ Sets(Glided(gfx, A))
    \/ Does("animate") /\ gfx' = Accumulated(gfx, A) /\ AndFrames
    \/ Does("frames")  /\ FrameDue(Cur(gfx)) /\ gfx' = NextFrame(gfx) /\ AndFrames
    \/ Does("frames")  /\ ~FrameDue(Cur(gfx)) /\ Sets(gfx)

Loadpic == Does("loadpic") /\ Sets(turtle_gfx_load(gfx, A))

Modes == Does("mode") /\ Sets(screen_set_mode(gfx, A))

Showing ==
    \/ Does("setrefresh") /\ Becomes(<<Call1("auto", A), Call1("setsync", B)>>)
    \/ Does("auto")       /\ Sets(screen_gfx_set_refresh_auto(gfx, A))
    \/ Does("setsync")    /\ Sets(frame_sync_set(gfx, A))
    \/ Does("unsync")     /\ Sets(frame_sync_reset(gfx))
    \/ Does("refresh")    /\ Sets(screen_gfx_present(gfx))
    \/ Does("sync")       /\ Sets(prim_sync(gfx))
    \/ Does("flush")      /\ Sets(screen_gfx_flush(gfx))

Tiles ==
    \/ Does("newtiles")  /\ Sets(tilemap_new_tiles(gfx, A))
    \/ Does("newmap")    /\ Sets(tilemap_new_map(gfx, A, B))
    \/ Does("snaptile")  /\ Sets(prim_snaptile(gfx, A))
    \/ Does("settile")   /\ Sets(prim_settile(gfx, A, B, C))
    \/ Does("stampmap")  /\ Sets(prim_stampmap(gfx))
    \/ Does("stamptile") /\ Sets(prim_stamptile(gfx, A, B))

DemonTable ==
    \/ Does("when")        /\ Sets(demons_set(gfx, A, B))
    \/ Does("cleardemons") /\ Sets(demons_clear(gfx))
    \/ Does("freeze")      /\ Sets(demons_freeze(gfx))
    \/ Does("thaw")        /\ Sets(demons_thaw(gfx))
    \/ Does("suspend")     /\ Sets(demons_suspend(gfx))
    \/ Does("resume")      /\ Sets(demons_resume(gfx))

\* Time passes before a poll; one that is due ticks and gives each demon its turn.
PollAt(g) ==
    /\ gfx' = IF DemonsDue(g) THEN [demons_maybe_poll(g) EXCEPT !.polled = TRUE,
                   !.before = {i \in DemonSlots : g.demons[i].armed /\ g.demons[i].was_true}] ELSE g
    /\ calls' = (IF DemonsDue(g) THEN PollCalls ELSE <<>>) \o Tail(calls)
    /\ UNCHANGED <<program, left, said>>
StartPoll == Does("poll") /\ PollAt(Passed(gfx, A))

TickAll == /\ Does("tick") /\ gfx' = Ticked(gfx) /\ calls' = Tick(gfx) \o Tail(calls)
           /\ UNCHANGED <<program, left, said>>

\* A demon disarmed since the poll began has no turn.
Action(i) == IF gfx.demons[i].action = NODE_NIL THEN <<>>
             ELSE Programs[program].actions[gfx.demons[i].action]
Acts(c, i) ==
    /\ gfx' = IF Fires(gfx, c, i) THEN [Found(c, i) EXCEPT !.fired = @ \cup {i}] ELSE Found(c, i)
    /\ calls' = (IF Fires(gfx, c, i) THEN Issued(Action(i)) ELSE <<>>) \o Tail(calls)
    /\ UNCHANGED <<program, left, said>>
Turn == Does("turn") /\ IF gfx.demons[A].armed THEN Acts(Condition(gfx, gfx.demons[A].cond), A)
                        ELSE Sets(gfx)

EndPoll == Does("polled") /\ Sets([gfx EXCEPT !.polling = FALSE])

\* What an error ends in: at the top level, and at the prompt.
EndLine == Does("ended") /\ Sets(IF gfx.ok THEN gfx ELSE Toplevel(gfx))
EndIdle == Does("idled") /\ Sets(IF gfx.ok THEN gfx ELSE [demons_reset(gfx) EXCEPT !.ok = TRUE])

-----------------------------------------------------------------------------
(* The program, the prompt and the clock.                                    *)

\* turtles_init and the rest of the console's start.
Boot ==
    turtle_draw(screen_gfx_clear(turtle_set_bg_colour(
        [mode |-> "TXT", boundary |-> "wrap", canvas |-> EmptyCanvas,
         panel |-> [p \in Pixels |-> Ink], tiles |-> dirty_tiles_clear,
         auto |-> TRUE, recent |-> FALSE, palette |-> [s \in Palette |-> s],
         sprites |-> [i \in Sprites |-> Hidden], rasters |-> [i \in Sprites |-> <<>>],
         turtles |-> [i \in AllTurtles |-> BootTurtle(i)], current |-> 0, active |-> {0},
         shapes |-> [s \in Shapes |-> [i \in 0 .. BITMAP_RASTER_SIZE * BITMAP_RASTER_SIZE - 1 |-> 1]],
         costumes |-> [s \in Shapes |-> NoCostume], background |-> Min(Slots),
         demons |-> [i \in DemonSlots |-> Free], frozen |-> FALSE, polling |-> FALSE,
         suspended |-> FALSE, astray |-> FALSE, have_ticked |-> FALSE, last_tick |-> 0, have_polled |-> FALSE,
         last_poll |-> 0, now |-> 0, credited |-> 0, alive |-> 0, fired |-> {}, before |-> {}, polled |-> FALSE,
         sync |-> [active |-> FALSE, period |-> 0, deadline |-> 0, have |-> FALSE],
         tilemap |-> tilemap_reset, ok |-> TRUE], Min(Slots))))

Init ==
    /\ program \in DOMAIN Programs
    /\ gfx = screen_set_mode(Boot, Programs[program].mode)
    /\ calls = Issued(Programs[program].first)
    /\ left = Programs[program].steps /\ said = "boot"

\* What fired in the last step is forgotten when a new one begins.
Begin(g) == gfx' = [g EXCEPT !.fired = {}, !.polled = FALSE] /\ left > 0 /\ left' = left - 1 /\ UNCHANGED program

Run == \E i \in DOMAIN Programs[program].ops, ms \in Programs[program].lags :
    /\ calls = <<>> /\ Begin(gfx)
    /\ calls' = <<Poll(ms), Call1("do", Programs[program].ops[i]), Always(Call0("ended"))>>
    /\ said' = "program"

Do == Does("do") /\ Becomes(Instruction(gfx, A))

\* The prompt polls while no key is there, and shows what there is to show.
console_idle_poll == \E ms \in Programs[program].lags :
    /\ calls = <<>> /\ Begin(gfx)
    /\ calls' = <<Poll(ms), Always(Call0("idled")), Always(Call0("flush"))>>
    /\ said' = "idle"

\* A frame's time has passed since the last blit.
FrameTime ==
    /\ calls = <<>> /\ gfx.recent /\ gfx' = [gfx EXCEPT !.recent = FALSE]
    /\ UNCHANGED <<calls, program, left, said>>

\* The run is over.
Rest == calls = <<>> /\ left = 0 /\ UNCHANGED vars

Next == Run \/ Do \/ console_idle_poll \/ FrameTime \/ Unwind \/ Rest
        \/ Addressing \/ Travel \/ Heading \/ Pens \/ Visibility \/ Painting \/ Boundaries
        \/ Colours \/ Dress \/ Stamping \/ Motion \/ Tickings \/ Loadpic \/ Modes \/ Showing
        \/ Tiles \/ DemonTable \/ StartPoll \/ TickAll \/ Turn \/ EndPoll \/ EndLine \/ EndIdle
Spec == Init /\ [][Next]_vars

-----------------------------------------------------------------------------
(* Properties.                                                               *)

\* What a turtle puts on the screen now, worked out from its state alone.
Look(g, i) ==
    LET t == g.turtles[i]
        raster == FreshRaster(g, t)
        s == SpriteOf(t, raster)
    IN  [drawn |-> turtle_should_draw(g, t), s |-> s, mask |-> raster.mask,
         cells |-> {c \in (0 .. s.w - 1) \X (0 .. s.h - 1) : Opaque(s, raster.mask[c[2] * s.w + c[1]])}]
Landings(g, look) == {Landing(g, look.s.x + c[1], look.s.y + c[2]) : c \in look.cells}
Over(g, looks, p) ==
    LET on == {i \in AllTurtles : looks[i].drawn /\ p \in Landings(g, looks[i])}
    IN  IF on = {} THEN g.canvas[p]
        ELSE LET k == looks[Min(on)]
                 c == CHOOSE c \in k.cells : Landing(g, k.s.x + c[1], k.s.y + c[2]) = p
             IN  InkOf(k.s, k.mask[c[2] * k.s.w + c[1]])
Picture(g) == LET looks == [i \in AllTurtles |-> Look(g, i)]
              IN  [p \in Pixels |-> g.palette[Over(g, looks, p)]]

Settled == calls = <<>>

\* Everything has the shape the C types give it.
TypeOK ==
    /\ gfx.canvas \in [Pixels -> Palette] /\ gfx.tiles \in Spans
    /\ gfx.active \in (SUBSET AllTurtles) \ {{}} /\ gfx.current \in AllTurtles
    /\ \A i \in AllTurtles : gfx.turtles[i].angle \in Headings
    /\ PoolUsed(gfx) <= COSTUME_POOL_SIZE

\* The LCD shows, outside the dirty tiles, exactly the canvas under the turtles as
\* they are now, in the palette of now, and text below it: whatever changed a pixel
\* has marked it, although rasters are cached, sprites hang over edges and turtles
\* move on their own (dirty_tiles.c, screen.c, picocalc_console.c).  The prompt has
\* nothing left to show in automatic refresh.
PanelTrue ==
    Settled =>
    /\ TypeOK
    /\ LET picture == Picture(gfx)
       IN  \A p \in Pixels : IF p \in Visible(gfx.mode)
                             THEN p \notin SpanPixels(gfx.tiles) => gfx.panel[p] = picture[p]
                             ELSE gfx.panel[p] = Ink
    /\ said = "idle" /\ gfx.auto => SpanPixels(gfx.tiles) \cap Visible(gfx.mode) = {}

\* In manual refresh the LCD changes only to a frame that is whole: nothing half
\* drawn is ever shown (screen_gfx_clear, screen_gfx_present).
FrameWhole ==
    [][~gfx.auto /\ ~gfx'.auto /\ gfx'.mode # "TXT" /\ gfx'.panel # gfx.panel
         => LET picture == Picture(gfx')
            IN  \A p \in Visible(gfx'.mode) : gfx'.panel[p] = picture[p]]_vars

\* The pixels joined to p, up and down and left and right, by pixels not of the colour.
Flood(canvas, p, colour) ==
    LET Walk(q, d) == LET r == <<q[1] + d[1], q[2] + d[2]>>
                      IN  IF r \notin Pixels THEN q ELSE IF canvas[r] = colour THEN q ELSE r
        Joined(S) == {Walk(q, d) : q \in S, d \in {<<0, 0>>, <<1, 0>>, <<-1, 0>>, <<0, 1>>, <<0, -1>>}}
    IN  FoldLeft(LAMBDA S, n : Joined(S), {p}, [n \in 1 .. FillLimit |-> n])

\* fill paints the pixels joined to the turtle, all of them and no other, whatever
\* the shape around it (screen_gfx_fill's spans).
FloodFill(g, h, t) ==
    t.pen_state = "down" /\ OnScreen(t) /\ g.canvas[<<t.x, t.y>>] # t.colour
    => LET flood == Flood(g.canvas, <<t.x, t.y>>, t.colour)
       IN  h.canvas = [p \in Pixels |-> IF p \in flood THEN t.colour ELSE g.canvas[p]]

\* Where the canvas showed the map but for one cell, stamptile makes it show the
\* map: a cell's every copy is baked (primitives_tilemap.c).
CellAt(m, p) == <<1 + ((p[1] \div m.size) % m.cols), 1 + ((p[2] \div m.size) % m.rows)>>
MapShown(g, S) == \A p \in S : g.canvas[p] = Sampled(g.tilemap, g.background, p)
TileBaked(g, h, cell) ==
    BakeReady(g) /\ MapShown(g, {p \in Pixels : CellAt(g.tilemap, p) # cell}) /\ h.ok
    => MapShown(h, Pixels)

DrawsTrue ==
    [][/\ Does("fill") => FloodFill(gfx, gfx', Cur(gfx))
       /\ Does("stamptile") => TileBaked(gfx, gfx', <<A, B>>)]_vars

\* Between instructions the console has the lowest turtle of the set selected, so
\* that a query answers for the turtle a command addresses first, whatever error
\* cut a command short (select_first_active, primitives_turtle.c); but for the time
\* after an error at top level, which leaves turtle 0 selected until a command
\* addresses the set.
AddressedFirst == Settled => gfx.current = Min(gfx.active) \/ gfx.astray

\* touching? is true of two turtles that are drawn exactly if opaque cells of the
\* two land on the same pixel (rasters_overlap).
TouchAgrees(g, a, b) ==
    a.drawn /\ b.drawn
    => (rasters_overlap([sprite |-> a.s, mask |-> a.mask], [sprite |-> b.s, mask |-> b.mask],
                        g.boundary = "wrap")
        <=> Landings(g, a) \cap Landings(g, b) # {})
TouchTrue ==
    Settled =>
    LET looks == [i \in AllTurtles |-> Look(gfx, i)]
    IN  \A a, b \in AllTurtles : a < b => TouchAgrees(gfx, looks[a], looks[b])

\* Turtles are never moved for time in which they were frozen or a file was being
\* loaded, and the cadence of sync is never ahead of the clock, so that a sync never
\* sleeps longer than a frame (demons.c, frame_sync.c).
TimeHonest ==
    /\ gfx.credited <= gfx.alive
    /\ gfx.sync.have => gfx.sync.deadline <= gfx.now

\* What a condition is true of, worked out from the turtles alone.
Meet(g, a, b) == a.drawn /\ b.drawn /\ Landings(g, a) \cap Landings(g, b) # {}
Holds(g, cond) ==
    CASE cond[1] = "touching?" -> Meet(g, Look(g, cond[2]), Look(g, cond[3]))
      [] cond[1] = "over?" -> \E p \in Landings(g, Look(g, Min(g.active))) \cap Pixels :
                                  g.canvas[p] = cond[2]
      [] OTHER -> FALSE

\* At the prompt, after a poll that ran no action, every armed condition is remembered
\* as it is and none is true that was not already found true; and an action never
\* runs for a condition that was true at the poll before (demons_poll).
EdgesTold ==
    Settled /\ said = "idle" /\ gfx.polled =>
    /\ gfx.fired \cap gfx.before = {}
    /\ gfx.fired = {} => \A i \in DemonSlots : gfx.demons[i].armed =>
           /\ gfx.demons[i].was_true = Holds(gfx, gfx.demons[i].cond)
           /\ gfx.demons[i].was_true => i \in gfx.before
=============================================================================
