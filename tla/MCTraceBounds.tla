--------------------------- MODULE MCTraceBounds ---------------------------
(* An instance of TraceBounds for TLC.                                     *)
EXTENDS TraceBounds

CONSTANTS open_, read_

At(file, line) == [file |-> file, line |-> line, function |-> "f"]

Sites == {At("a.c", 1), At("a.c", 2), At("b.c", 1)}

\* Two wrappers in one function, and one in the function of that name in another file.
SomeWrappers ==
    {<<At("a.c", 1), open_>>, <<At("a.c", 2), read_>>, <<At("b.c", 1), open_>>}

Symmetry == Permutations(Thread)
=============================================================================
