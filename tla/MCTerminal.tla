----------------------------- MODULE MCTerminal -----------------------------
(* An instance of Terminal: a panel that comes and goes, a longer output,    *)
(* one that is cleared, and the console of Windows.                          *)
EXTENDS Terminal
Scene(system, pieces, n) ==
    [system |-> system, reader |-> {"read"}, pieces |-> pieces, calls |-> n]
MCScenes == {Scene("unix", 2, 3), Scene("unix", 3, 2), Scene("unix", 5, 0),
             [Scene("windows", 2, 1) EXCEPT !.reader = {"read", "done"}]}
=============================================================================
