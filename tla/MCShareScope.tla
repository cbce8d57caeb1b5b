---------------------------- MODULE MCShareScope ----------------------------
(* One grant, and a share with a file three levels deep and a file beside the *)
(* way to it on every level but the last.                                     *)
EXTENDS Search

CONSTANT a

d == <<"d">>
de == <<"d", "e">>
dex == <<"d", "e", "x">>
df == <<"d", "f">>
z == <<"z">>

MCNode == {a}
MCComponent == {"d", "e", "f", "x", "z", "none"}
MCPath == {d, de, dex, df, z}
MCFolder == {d, de}
MCNoAccess == <<"none">>
MCChoice == {{}, {de}, {dex, z}, {d, dex}}
MCOrder == <<d, de, dex, df, MCNoAccess, z>>
MCMatch == {dex, df, z}
MCScenes == {[acts |-> {"item", "scope", "files"}, changes |-> 0],
             [acts |-> {"scope", "files", "search"}, changes |-> 2],
             [acts |-> {"item", "search"}, changes |-> 1]}
============================================================================
