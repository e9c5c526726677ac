------------------------------- MODULE MCNames -------------------------------
EXTENDS Names, TLC

Entry(t, e, u) == [type |-> t, ent |-> e, up |-> u]
Ent(x, y) == [n \in Name |-> IF n = "a" THEN x ELSE y]

\* /a is a directory with a file b in it; or it is a directory with an empty
\* directory a in it.
MCTrees ==
  {[i \in Inum |->
      CASE i = 1 -> Entry("dir", Ent(2, 0), 1)
        [] i = 2 -> Entry("dir", Ent(0, 3), 1)
        [] i = 3 -> Entry("file", Ent(0, 0), 0)
        [] OTHER -> Entry("none", Ent(0, 0), 0)],
   [i \in Inum |->
      CASE i = 1 -> Entry("dir", Ent(2, 0), 1)
        [] i = 2 -> Entry("dir", Ent(4, 0), 1)
        [] i = 4 -> Entry("dir", Ent(0, 0), 2)
        [] OTHER -> Entry("none", Ent(0, 0), 0)]}

MCCwds == {1, 4}

C(op, path) == [op |-> op, abs |-> FALSE, path |-> path]
L(path, new) == [op |-> "link", abs |-> FALSE, path |-> path, newabs |-> FALSE, new |-> new]
Abs(c) == [c EXCEPT !.abs = TRUE]

MCCalls ==
  {C("open", <<"a", "b">>), C("openwrite", <<"a">>), C("create", <<"b">>),
   C("mkdir", <<"a", "a">>), C("mknod", <<"a", "b">>),
   C("unlink", <<"a", "b">>), C("unlink", <<"b">>),
   C("chdir", <<"..">>), C("resize", <<"a", "b">>),
   Abs(C("unlink", <<"a">>)), Abs(C("unlink", <<"a", "a">>)), Abs(C("mkdir", <<>>)),
   L(<<"a", "b">>, <<"b">>), L(<<"b">>, <<"a", "..">>)}

NamesSymmetry == Permutations(Process)

==============================================================================
