------------------------------- MODULE MCFat -------------------------------
EXTENDS Fat, TLC

NameSet == {"a", "d", "longer", "longest"}
PartsOf == [n \in NameSet |-> IF n \in {"longer", "longest"} THEN 2 ELSE 1]
BasisOf == [n \in {"longer", "longest"} |-> "long"]
TildeOf(n, k) == "long~1"
PathSet == {<<"a">>, <<"longer">>, <<"d">>, <<"d", "a">>}
MoveSet == {<<<<"d", "longest">>, <<"a">>>>, <<<<"longer">>, <<"d", "longer">>>>, <<<<"d">>, <<"a", "d">>>>}
Ones == [i \in 1 .. 3 |-> Byte(1)]
Twos == [i \in 1 .. 5 |-> Byte(2)]
ChunkSet == {Ones, Twos}
Streams == Permutations(Handles)

\* Two cards: one just formatted whose free space is unknown, and one on
\* which the driver has made a directory, a file in it and a file beside it.
WithDir(s, p) ==
  Then(LinkEntry(s, p, [dir |-> TRUE, start |-> FREE, size |-> 0]), LAMBDA u :
    SetSector(u, u.got, Dots(u.got, u.at[1])))
WithFile(s, p, data) ==
  Then(LinkEntry(s, p, [dir |-> FALSE, start |-> FREE, size |-> 0]), LAMBDA u :
    Write([u EXCEPT !.h = [start |-> FREE, size |-> 0, wpos |-> 0, dirty |-> FALSE,
             at |-> Place(Chain(u.t, u.at[1]), u.at[2] + Parts[Last(p)])]], data))
Fresh == Formatted([free |-> LastCluster - Root, next |-> 3])
Filled == WithFile(WithFile(WithDir(Fresh, <<"d">>), <<"d", "longest">>, Twos), <<"longer">>, Ones)
CardSet == {Formatted([free |-> Unknown, next |-> Unknown]), Filled}
=============================================================================
