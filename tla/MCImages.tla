------------------------------ MODULE MCImages ------------------------------
(***************************************************************************)
(* Model-checking instance of what makes images: LayerTree, ImageStore and  *)
(* ImageBuild.  They share no variable, so a behaviour runs one of them.    *)
(***************************************************************************)
EXTENDS LayerTree, ImageStore, ImageBuild

CONSTANTS r1, r2
VARIABLE scene

E(kind, name, to) == [kind |-> kind, name |-> name, to |-> to, data |-> 1, size |-> 1]
\* Entries of an image layer, plain ones and ones that climb or point outside.
LayerEntries ==
    {E("file", <<"a">>, Nowhere), E("file", <<"d", "a">>, Nowhere), E("file", <<"d", "b">>, Nowhere), E("file", <<"a.tmp">>, Nowhere),
     E("dir", <<"d">>, Nowhere), E("dir", <<"a">>, Nowhere), E("wh", <<"a">>, Nowhere), E("wh", <<"d">>, Nowhere), E("wh", <<"d", "a">>, Nowhere),
     E("opq", <<"d">>, Nowhere), E("opq", <<>>, Nowhere),
     E("link", <<"d">>, Rel(<<"..", "o">>)), E("link", <<"d">>, Rel(<<"e">>)), E("link", <<"d">>, [abs |-> TRUE, path |-> <<"o">>]),
     E("link", <<"e", "x">>, Rel(<<"..", "d">>)), E("link", <<"d">>, Nowhere),
     E("hard", <<"b">>, Rel(<<"a">>)), E("hard", <<"b">>, Rel(<<"..", "o", "a">>)), E("hard", <<"b">>, Rel(<<"d", "a">>)),
     E("file", <<"d", "..", "..", "o">>, Nowhere), E("file", <<"e", "x", "a">>, Nowhere), E("dev", <<"dev", "n">>, Nowhere), E("dev", <<"n">>, Nowhere)}
PlainEntries == {e \in LayerEntries : e.kind \in {"file", "dir", "wh", "opq"} /\ Len(e.name) < 3 /\ e.name # <<"a.tmp">> /\ e # E("dir", <<"a">>, Nowhere)}
ContextEntries == {e \in LayerEntries : e.kind \notin {"wh", "opq"}} \cup {[E("file", <<"big">>, Nowhere) EXCEPT !.size = 3]}
UpperEntries == {E("file", <<"a">>, Nowhere), E("file", <<"d", "a">>, Nowhere), E("dir", <<"d">>, Nowhere), E("link", <<"a">>, Rel(<<"d">>)),
                 E("wh", <<"a">>, Nowhere), E("opq", <<"d">>, Nowhere), E("chr", <<"a">>, Nowhere)}
Filled == (<<"r", "a">> :> File(5)) @@ (<<"r", "d">> :> Dir) @@ (<<"r", "d", "b">> :> File(5))
MCBases == {Filled, (<<"r", "d">> :> Link(Rel(<<"..", "o">>))), (<<"r", "a">> :> Link([abs |-> TRUE, path |-> <<"o", "a">>]))}
Archive(how, holds, entries, parts) == [how |-> how, holds |-> holds, entries |-> entries, layers |-> parts]
OneLayer == Archive("image", LayerEntries, 3, 1)
MCArchives == {OneLayer, Archive("image", PlainEntries, 2, 2), Archive("context", ContextEntries, 3, 1), Archive("upper", UpperEntries, 2, 1)}

MCImageNames == {<<"u">>, <<"x", "/", "u">>, <<"docker.io", "/", "u">>, <<"localhost", ":", "5", "/", "u">>}
MCBuildNames == {<<"x", "/", "u">>, <<"y", "/", "u", ":", "latest">>}

Context == [by |-> "context", to |-> Nothing, n |-> 0]
Stage(n) == [by |-> "index", to |-> Nothing, n |-> n]
Called(name) == [by |-> "name", to |-> name, n |-> 0]
I(op, arg) == [op |-> op, arg |-> arg, val |-> "v", from |-> Context, alias |-> Nothing]
From(arg, alias) == [I("FROM", arg) EXCEPT !.alias = alias]
Copy(arg, from) == [I("COPY", arg) EXCEPT !.from = from]
Env(k, v) == [I("ENV", k) EXCEPT !.val = v]
\* Build files with one and two stages, with each way to copy, and with the
\* mistakes the parsers find.
MCPrograms ==
    {<<From("u", Nothing), Env("E", "1"), I("RUN", "f"), Env("E", "2"), I("WORKDIR", "w"), I("RUN", "g"), I("CMD", "c"), I("USER", "x")>>,
     <<I("LABEL", "l"), From("u", "b"), I("RUN", "f"), From("scratch", Nothing), Copy("f", Called("b")), Copy("c", Context), Env("P", "1")>>,
     <<From("u", "b"), Copy("c", Context), From("u", "b"), I("RUN", "f"), From("u", Nothing), Copy("f", Called("b")), Copy("base", Called("img")), Copy("c", Stage(1))>>,
     <<Copy("c", Context), From("u", Nothing), Copy("c", Context), Copy("c", Stage(2))>>, <<From("u", Nothing), Copy("missing", Context)>>,
     <<I("WORKDIR", "w"), I("RUN", "f"), From("u", Nothing)>>, <<From("u", Nothing), I("WORKDIR", Nothing)>>,
     <<I("RUN", "f")>>, <<From("u", Nothing), I("RUN", Nothing)>>, <<I("ENV", "E")>>, <<From(Nothing, Nothing)>>,
     <<From("u", Nothing), I("OTHER", "x")>>, <<From("u", Nothing), I("ENV", Nothing)>>}
IdleProgram == <<From(Nothing, Nothing)>>

MCInitial ==
    /\ scene \in {"tree", "store", "build"}
    /\ scene # "tree" => mode = OneLayer
    /\ scene # "build" => prog = IdleProgram
    /\ TreeInit /\ ImageInit /\ BuildInit

MCNext ==
    /\ UNCHANGED scene
    /\ \/ scene = "tree" /\ TreeNext /\ UNCHANGED <<imgVars, buildVars>>
       \/ scene = "store" /\ ImageNext /\ UNCHANGED <<treeVars, buildVars>>
       \/ scene = "build" /\ BuildNext /\ UNCHANGED <<treeVars, imgVars>>

MCSpec == MCInitial /\ [][MCNext]_<<treeVars, imgVars, buildVars, scene>>
=============================================================================
