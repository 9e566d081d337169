------------------------------ MODULE MCScreen -------------------------------
(***************************************************************************)
(* Instances of Screen: programs that draw and fill, that dress and move   *)
(* two turtles over edges, that refresh by hand or in step, that arm       *)
(* demons, and that bake tiles.                                            *)
(***************************************************************************)
EXTENDS Screen

Plain(call) == [how |-> "plain", who |-> {0}, lag |-> 0, call |-> call]
Ask(who, ms, call) == [how |-> "ask", who |-> who, lag |-> ms, call |-> call]
Each(ms, call) == [how |-> "each", who |-> {0}, lag |-> ms, call |-> call]
Load(ms, call) == [how |-> "load", who |-> {0}, lag |-> ms, call |-> call]
Simply(s) == [i \in DOMAIN s |-> Plain(s[i])]

MCHome == <<3, 3>>
MCGlyph == <<2, 2>>

\* A picture with a wall around two rooms, joined by a door, and pillars.
Maze == {<<2, 0>>, <<2, 1>>, <<2, 2>>, <<2, 4>>, <<4, 1>>, <<4, 2>>, <<4, 4>>, <<0, 4>>, <<3, 4>>}
Rooms == [p \in Pixels |-> IF p \in Maze THEN 1 ELSE GFX_DEFAULT_BACKGROUND]
Saved(whole, bg) == [palette |-> [s \in Palette |-> IF s = GFX_DEFAULT_BACKGROUND THEN bg ELSE s],
                     canvas |-> Rooms, whole |-> whole]
Clouds == [p \in Pixels |-> (p[1] + 2 * p[2]) % 3]

Red == Call1("setpc", 1)
Bits == [i \in 0 .. 3 |-> IF i \in {0, 3} THEN 1 ELSE 0]
MCPrograms ==
  <<\* filling
   [mode |-> "SPLIT", first |-> <<Call1("loadpic", Saved(TRUE, 0)), Call1("setpc", 1), Call1("pen", "up"),
                                  Call2("setpos", -3, 3), Call1("pen", "down")>>, actions |-> <<>>, steps |-> 3, lags |-> {0},
    ops |-> Simply(<<Call1("fd", 1), Call1("fd", -2), Call1("rt", 90), Call0("fill"),
                    Call2("setpos", -3, 3), Call1("pen", "up"), Call1("pen", "erase"), Call1("setbg", 1)>>)],
   \* lines and arcs over the edges
   [mode |-> "GFX", first |-> <<Call0("wrap"), Red, Call1("rt", 90)>>, actions |-> <<>>, steps |-> 2, lags |-> {0},
    ops |-> Simply(<<Call1("fd", 5), Call2("setpos", -4, 1), Call1("pen", "reverse"), Call1("setpensize", 2),
                    Call2("dot", 2, -2), Call1("write", 2), Call2("arc", 3, 2), Call0("home"),
                    Call1("setx", 2), Call1("sety", -2), Call2("setrefresh", TRUE, 0), Call0("clean"), Call1("mode", "TXT"), Call1("mode", "SPLIT"), Call1("mode", "GFX")>>)],
   \* costumes
   [mode |-> "GFX", first |-> <<Call1("loadpic", Saved(TRUE, 0)), Address({0, 1}), Call1("shown", TRUE),
                                Address({1}), Call1("setpc", 2)>>, actions |-> <<>>, steps |-> 3, lags |-> {0},
    ops |-> Simply(<<Address({0, 1}), Call1("setsh", 1), Call1("setrot", "full"), Call1("setmag", 2),
                    Call1("rt", 270), Call1("fd", 3), Call0("stamp")>>)],
   [mode |-> "GFX", first |-> <<Call1("loadpic", Saved(TRUE, 0)), Address({0, 1}), Call1("shown", TRUE),
                                Call1("setsh", 1)>>, actions |-> <<>>, steps |-> 3, lags |-> {0},
    ops |-> Simply(<<Address({1}), Call1("setsh", 0), Call1("setrot", "flip"), Call1("rt", 270),
                    Call2("putsh", 1, Bits), Call("snapsh", 1, 2, 2), Call1("shown", FALSE),
                    Call0("cs")>>)],
   \* the edges: a window, and a fence
   [mode |-> "GFX", first |-> <<Call0("window"), Address({0, 1}), Call1("shown", TRUE), Call1("rt", 90),
                                Address({1}), Call1("fd", 1)>>, actions |-> <<>>, steps |-> 3, lags |-> {0},
    ops |-> <<Each(0, Call1("fd", 2)), Ask({0}, 0, Call1("fd", -3)), Plain(Call1("fd", 3)),
             Plain(Address({0, 1})), Plain(Call1("rt", 90)), Plain(Call0("stamp")),
             Plain(Call0("home"))>>],
   [mode |-> "GFX", first |-> <<Call0("fence"), Red>>, actions |-> <<>>, steps |-> 3, lags |-> {0},
    ops |-> <<Each(0, Call1("fd", 2)), Ask({1}, 0, Call1("fd", 4)), Plain(Call2("arc", 4, 2)),
             Plain(Call2("arc", 2, 4)), Plain(Address({0, 1})), Plain(Address({1})),
             Plain(Call1("rt", 90)), Plain(Call0("cs")), Plain(Call2("setpos", 0, -3))>>],
   \* refresh by hand and in step
   [mode |-> "GFX", first |-> <<Red>>, actions |-> <<>>, steps |-> 3, lags |-> {3},
    ops |-> Simply(<<Call1("fd", 2), Call2("setrefresh", FALSE, 0), Call2("setrefresh", FALSE, 2),
                    Call0("refresh"), Call0("sync"), Call0("clean")>>)],
   \* the palette
   [mode |-> "SPLIT", first |-> <<Red, Call1("fd", 1)>>, actions |-> <<>>, steps |-> 3, lags |-> {0},
    ops |-> Simply(<<Call1("setbg", 2), Call2("setpalette", 1, 2), Call2("setpalette", 2, 0),
                    Call0("restorepalette"), Call1("loadpic", Saved(TRUE, 2)), Call1("fd", 1),
                    Call1("setpc", 2)>>)],
   \* demons and turtles that move
   [mode |-> "GFX", first |-> <<Address({0, 1}), Call1("shown", TRUE), Call1("pen", "up"),
                                Call1("rt", 90), Address({1}), Call1("fd", 3), Address({0})>>,
    steps |-> 3, lags |-> {2},
    actions |-> <<<<Call1("rt", 180)>>, <<Call0("freeze")>>>>,
    ops |-> <<Plain(Call2("when", <<"touching?", 0, 1>>, 1)),
             Plain(Call2("when", <<"touching?", 0, 1>>, 2)),
             Plain(Call1("setspeed", 1)), Plain(Call0("thaw")),
             Ask({1}, 2, Call1("rt", 90)), Load(2, Call1("setspeed", 1))>>],
   [mode |-> "GFX", first |-> <<Address({0, 1}), Call1("shown", TRUE), Call1("pen", "up"),
                                Call1("rt", 90), Address({1}), Call1("fd", 3), Address({0})>>,
    steps |-> 3, lags |-> {2},
    actions |-> <<<<Call2("when", <<"touching?", 0, 1>>, 2)>>, <<Call1("setpc", 2)>>,
                  <<Call1("rt", 180)>>, <<Call0("freeze")>>>>,
    ops |-> <<Plain(Call2("when", <<"over?", 255>>, 1)),
             Plain(Call2("when", <<"touching?", 0, 1>>, NODE_NIL)), Plain(Call1("setspeed", 1)),
             Plain(Call2("when", <<"touching?", 0, 1>>, 3)),
             Plain(Call0("cleardemons")), Plain(Call2("when", <<"nothing">>, 4))>>],
   [mode |-> "GFX", first |-> <<Call1("setsh", 1), Call("setanim", 1, 2, 1), Call1("setspeed", 2)>>, actions |-> <<>>, steps |-> 3, lags |-> {1, 2},
    ops |-> Simply(<<Call("setanim", 0, 0, 0), Call0("freeze"), Call0("thaw")>>)],
   \* tiles
   [mode |-> "GFX", first |-> <<Call1("loadpic", [Saved(TRUE, 0) EXCEPT !.canvas = Clouds]),
                                Call1("newtiles", 2), Call1("snaptile", 1), Call2("newmap", 2, 1)>>, actions |-> <<>>, steps |-> 3, lags |-> {0},
    ops |-> Simply(<<Call("settile", 1, 1, 1), Call("settile", 2, 1, 1), Call("settile", 2, 1, 2),
                    Call0("stampmap"), Call2("stamptile", 2, 1), Call2("stamptile", 1, 1),
                    Call1("snaptile", 2), Call1("newtiles", 2), Call2("newmap", 1, 2), Call2("newmap", 3, 2),
                    Call("settile", 1, 2, 1)>>)]>>
=============================================================================
