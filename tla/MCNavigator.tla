---------------------------- MODULE MCNavigator ----------------------------
(* Model checking Navigator: a partition with a subdirectory of two images   *)
(* and two swap lists, and one with an image that is none and an image.      *)
EXTENDS Navigator

AllNames == {"a", "i", "j", "x", "_", "l", "AUTOSWAP.LST", NoName}
AllDirs == <<{<<"a">>}, {}>>
AllFiles == {[part |-> 1, dir |-> <<"a">>, name |-> "i", kind |-> "d41"],
             [part |-> 1, dir |-> <<"a">>, name |-> "j", kind |-> "dnp"],
             [part |-> 2, dir |-> <<>>, name |-> "i", kind |-> "dnp"],
             [part |-> 2, dir |-> <<>>, name |-> "x", kind |-> "invalid"]}
InnerDirs == {<<"a">>}

Cd(p, comps, colon, name) == [part |-> p, comps |-> comps, colon |-> colon, name |-> name]
Comment  == [kind |-> "comment"]
Entry(c) == [kind |-> "entry", cd |-> c]
AllLists == {[part |-> 1, dir |-> <<"a">>, name |-> "AUTOSWAP.LST",
              lines |-> <<Comment, Entry(Cd(0, <<>>, TRUE, "j")), Entry(Cd(0, <<>>, TRUE, "i")), Comment>>],
             [part |-> 1, dir |-> <<>>, name |-> "l",
              lines |-> <<Entry(Cd(0, <<"a", "i">>, FALSE, NoName)), Comment, Entry(Cd(2, <<>>, TRUE, "i"))>>]}
SomeCds == {Cd(0, <<>>, TRUE, "a"), Cd(0, <<>>, TRUE, "_"), Cd(0, <<NoName, "a">>, TRUE, "i"),
            Cd(0, <<>>, FALSE, NoName), Cd(0, <<"a", "j">>, FALSE, NoName), Cd(0, <<>>, TRUE, "x"), Cd(2, <<>>, TRUE, "i")}
SomePaths == {Cd(0, <<>>, TRUE, NoName), Cd(2, <<NoName>>, TRUE, NoName), Cd(3, <<>>, TRUE, NoName)}
=============================================================================
