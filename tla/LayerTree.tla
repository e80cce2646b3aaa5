----------------------------- MODULE LayerTree ------------------------------
(***************************************************************************)
(* How archives become file trees: the layers of a pulled image             *)
(* (registry/dockerhub: applyLayers), the uploaded build context            *)
(* (core/image: ExtractTarToDirWithOptions) and the upper directory of a    *)
(* RUN container (applyOverlayUpper).  One step applies one entry.          *)
(*                                                                         *)
(* A path is a sequence of names from the root of the HOST; the tree that   *)
(* is filled lies at Root, beside other files the extraction must not       *)
(* touch.  A link's target is a path, absolute or not.                      *)
(***************************************************************************)
EXTENDS Integers, Sequences, FiniteSets, SequencesExt

CONSTANTS
    Archives,       \* kinds of archives: [how, holds, entries, layers]
    Bases,          \* trees an upper directory is applied to
    MaxEntries,     \* entries a build context may have
    MaxBytes,       \* bytes a build context may have
    MaxFile         \* bytes one of its files may have

VARIABLES mode, base, tree, layers, bytes, verdict
treeVars == <<mode, base, tree, layers, bytes, verdict>>

Root == <<"r">>
Rel(p) == [abs |-> FALSE, path |-> p]
Nowhere == Rel(<<>>)
Dir == [kind |-> "dir", data |-> 0, to |-> Nowhere]
File(d) == [kind |-> "file", data |-> d, to |-> Nowhere]
Link(to) == [kind |-> "link", data |-> 0, to |-> to]
\* The host before the extraction: the root to fill and somebody else's file.
Host == (Root :> Dir) @@ (<<"o">> :> Dir) @@ (<<"o", "a">> :> File(99))

Under(p, q) == IsPrefix(q, p)
Parent(p) == Front(p)
Put(t, p, n) == (p :> n) @@ t
\* os.RemoveAll: the path itself, never what a link there points to.
RemoveAll(t, p) == [q \in {q \in DOMAIN t : ~Under(q, p)} |-> t[q]]
Lstat(t, p) == IF p \in DOMAIN t THEN t[p].kind ELSE IF p = <<>> THEN "dir" ELSE "none"

\* filepath.Clean on the components of a relative path.
Clean(p) ==
    LET step(acc, x) == IF x # ".." THEN Append(acc, x)
                        ELSE IF acc = <<>> \/ Last(acc) = ".." THEN Append(acc, x) ELSE Front(acc)
    IN FoldLeft(step, <<>>, p)
Escapes(p) == p # <<>> /\ Head(p) = ".."
\* The same for an absolute path: .. at the top stays at the top.
CleanAbs(p) == SelectSeq(Clean(p), LAMBDA x : x # "..")

\* filepath.EvalSymlinks as the kernel resolves: <<FALSE>> when there is
\* nothing or a loop.
RECURSIVE Walk(_, _, _, _)
Walk(t, done, rest, fuel) ==
    IF rest = <<>> THEN <<TRUE, done>>
    ELSE IF Head(rest) = ".." THEN Walk(t, IF done = <<>> THEN <<>> ELSE Front(done), Tail(rest), fuel)
    ELSE LET q == Append(done, Head(rest)) IN
         IF Lstat(t, q) = "none" \/ fuel = 0 THEN <<FALSE>>
         ELSE IF Lstat(t, q) = "link" THEN Walk(t, IF t[q].to.abs THEN <<>> ELSE done, t[q].to.path \o Tail(rest), fuel - 1)
         ELSE IF Lstat(t, q) = "file" /\ Tail(rest) # <<>> THEN <<FALSE>>
         ELSE Walk(t, q, Tail(rest), fuel)
EvalSymlinks(t, p) == Walk(t, <<>>, p, 3)

Failed(t) == [ok |-> FALSE, t |-> t, cur |-> Root]
Done(t) == [ok |-> TRUE, t |-> t, cur |-> Root]

\* Mutant: a link to a directory is followed wherever it leads.
EnsureAnyDir(t0, rel) ==
    LET step(acc, part) ==
        LET p == Append(acc.cur, part)
            to == EvalSymlinks(acc.t, p)
        IN IF ~acc.ok THEN acc
           ELSE CASE Lstat(acc.t, p) = "none" -> [ok |-> TRUE, t |-> Put(acc.t, p, Dir), cur |-> p]
                  [] Lstat(acc.t, p) = "dir" -> [acc EXCEPT !.cur = p]
                  [] Lstat(acc.t, p) = "link" /\ to[1] -> [acc EXCEPT !.cur = to[2]]
                  [] OTHER -> [acc EXCEPT !.ok = FALSE]
    IN FoldLeft(step, Done(t0), rel)

\* ensureSafeExtractionDir of an image layer: make the directories of rel one
\* by one, follow a link only to a directory inside the root.
EnsureSafeDir(t0, rel) ==
    LET step(acc, part) ==
        LET p == Append(acc.cur, part)
            to == EvalSymlinks(acc.t, p)
        IN IF ~acc.ok THEN acc
           ELSE CASE Lstat(acc.t, p) = "none" -> [ok |-> TRUE, t |-> Put(acc.t, p, Dir), cur |-> p]
                  [] Lstat(acc.t, p) = "dir" -> [acc EXCEPT !.cur = p]
                  [] Lstat(acc.t, p) = "link" /\ to[1] /\ Under(to[2], Root) /\ Lstat(acc.t, to[2]) = "dir"
                        -> [acc EXCEPT !.cur = to[2]]
                  [] OTHER -> [acc EXCEPT !.ok = FALSE]
    IN FoldLeft(step, Done(t0), rel)

\* ensureSafeExtractionDir of a build context: no link is followed at all.
EnsurePlainDir(t0, rel) ==
    LET step(acc, part) ==
        LET p == Append(acc.cur, part)
        IN IF ~acc.ok THEN acc
           ELSE CASE Lstat(acc.t, p) = "none" -> [ok |-> TRUE, t |-> Put(acc.t, p, Dir), cur |-> p]
                  [] Lstat(acc.t, p) = "dir" -> [acc EXCEPT !.cur = p]
                  [] OTHER -> [acc EXCEPT !.ok = FALSE]
    IN FoldLeft(step, Done(t0), rel)

\* A link's target, read from where the link is, stays below the root; an
\* absolute one is read from the root of the image.
ValidateLinkTarget(rel, to) == to.abs \/ ~Escapes(Clean(Parent(rel) \o to.path))

\* Where a layer's file is written before it is renamed.
Tmp(name) == IF name = "a" THEN "a.tmp" ELSE name
WriteFileFromTar(t, p, data) ==
    LET tmp == Append(Parent(p), Tmp(Last(p)))
    IN IF Lstat(t, tmp) \in {"dir", "link"} /\ tmp # p THEN Failed(t)
       ELSE Done(Put(RemoveAll(RemoveAll(t, tmp), p), p, File(data)))

RemoveArchiveTarget(t, rel) ==
    LET up == EnsureSafeDir(t, Parent(rel))
    IN IF up.ok THEN [up EXCEPT !.t = RemoveAll(up.t, Append(up.cur, Last(rel)))] ELSE up

RemoveAllChildren(t, rel) ==
    LET dir == EnsureSafeDir(t, rel)
        up == EnsureSafeDir(dir.t, IF rel = <<>> THEN <<>> ELSE Parent(rel))
    IN IF ~dir.ok \/ (rel # <<>> /\ Lstat(dir.t, Append(up.cur, Last(rel))) = "link") THEN Failed(dir.t)
       ELSE Done([q \in {q \in DOMAIN dir.t : ~(Under(q, dir.cur) /\ q # dir.cur)} |-> dir.t[q]])

HardLink(t, rel, to) ==
    LET real == EvalSymlinks(t, Root \o Clean(to.path))
        gone == RemoveArchiveTarget(t, rel)
        p == Append(gone.cur, Last(rel))
    IN IF Clean(to.path) = <<>> \/ Escapes(Clean(to.path)) \/ ~real[1] THEN Failed(t)
       ELSE IF ~Under(real[2], Root) \/ Lstat(t, real[2]) # "file" \/ ~gone.ok \/ real[2] = p THEN Failed(t)
       ELSE Done(Put(gone.t, p, t[real[2]]))

\* applyOneLayer's body: one entry of a layer.  A whiteout carries the path it
\* hides, an opaque marker the directory it empties.
ApplyLayerEntry(t, e) ==
    LET rel == Clean(e.name)
        up == EnsureSafeDir(t, IF rel = <<>> THEN <<>> ELSE Parent(rel))
        p == Append(up.cur, Last(rel))
    IN IF Escapes(rel) THEN Failed(t)
       ELSE IF e.kind = "opq" THEN RemoveAllChildren(t, rel)
       ELSE IF rel = <<>> THEN Done(t)
       ELSE
       CASE e.kind = "wh" -> RemoveArchiveTarget(t, rel)
         [] e.kind = "dir" -> EnsureSafeDir(t, rel)
         [] e.kind = "file" -> IF up.ok THEN WriteFileFromTar(up.t, p, e.data) ELSE up
         [] e.kind = "link" -> IF up.ok /\ e.to # Nowhere /\ ValidateLinkTarget(rel, e.to)
                               THEN Done(Put(RemoveAll(up.t, p), p, Link(e.to))) ELSE Failed(up.t)
         [] e.kind = "hard" -> HardLink(t, rel, e.to)
         [] e.kind = "dev" -> IF Head(rel) = "dev" /\ Len(rel) > 1 THEN Done(t) ELSE Failed(t)
         [] OTHER -> Failed(t)

\* The limits on a build context, its files and their number.
WithinLimits(e) == e.size <= MaxFile /\ bytes + e.size <= MaxBytes
\* validateBuildContextSymlinkTarget: relative, and inside the context.
ValidateContextLink(rel, to) == ~to.abs /\ to # Nowhere /\ ValidateLinkTarget(rel, to)

\* ExtractTarToDirWithOptions' body: one entry of a build context.
ExtractTarEntry(t, e) ==
    LET rel == Clean(e.name)
        up == EnsurePlainDir(t, IF rel = <<>> THEN <<>> ELSE Parent(rel))
        p == Append(up.cur, Last(rel))
    IN IF Escapes(rel) \/ Len(Last(layers)) + 1 > MaxEntries THEN Failed(t)
       ELSE IF e.kind \notin {"dir", "file", "link"} \/ rel = <<>> THEN Done(t)
       ELSE
       CASE e.kind = "dir" -> EnsurePlainDir(t, rel)
         [] e.kind = "file" -> IF up.ok /\ WithinLimits(e)
                                  /\ Lstat(up.t, p) \in {"none", "file"}
                               THEN Done(Put(up.t, p, File(e.data))) ELSE Failed(up.t)
         [] e.kind = "link" -> IF up.ok /\ ValidateContextLink(rel, e.to) /\ Lstat(up.t, p) = "none"
                               THEN Done(Put(up.t, p, Link(e.to))) ELSE Failed(up.t)

\* copyFile opens the target as the kernel does, through a link that is there.
CopyFile(t, p, data) ==
    LET up == EvalSymlinks(t, Parent(p))
        q == IF up[1] THEN Append(up[2], Last(p)) ELSE p
        to == EvalSymlinks(t, q)
        there == IF Lstat(t, q) = "link" THEN IF to[1] THEN to[2] ELSE <<>> ELSE q
    IN IF ~up[1] \/ there = <<>> THEN Failed(t)
       ELSE IF Lstat(t, there) = "dir" \/ Lstat(t, Parent(there)) # "dir" THEN Failed(t)
       ELSE Done(Put(t, there, File(data)))

\* applyOverlayUpper's body: one path of the upper directory, in walking order.
\* What overlayfs itself leaves for a removed file is no regular file, and is
\* passed over.
ApplyUpperEntry(t, e) ==
    LET p == Root \o e.name
    IN CASE e.kind = "opq" -> Done([q \in {q \in DOMAIN t : ~(Under(q, p) /\ q # p)} |-> t[q]])
         [] e.kind = "wh" -> Done(RemoveAll(t, p))
         [] e.kind = "dir" -> IF Lstat(t, p) = "none" THEN Done(Put(t, p, Dir))
                              ELSE IF EvalSymlinks(t, p)[1] /\ Lstat(t, EvalSymlinks(t, p)[2]) = "dir" THEN Done(t) ELSE Failed(t)
         [] e.kind = "link" -> Done(Put(RemoveAll(t, p), p, Link(e.to)))
         [] e.kind = "file" -> CopyFile(t, p, e.data)
         [] OTHER -> Done(t)

-----------------------------------------------------------------------------
\* layers is what has been read so far, one sequence of entries per archive.
TreeInit ==
    /\ mode \in Archives
    /\ base \in IF mode.how = "upper" THEN Bases ELSE {<<>>}
    /\ tree = base @@ Host
    /\ layers = <<<<>>>> /\ bytes = 0
    /\ verdict = "running"

Applied(e) == CASE mode.how = "image" -> ApplyLayerEntry(tree, e)
                [] mode.how = "context" -> ExtractTarEntry(tree, e)
                [] mode.how = "upper" -> ApplyUpperEntry(tree, e)

\* The next entry of the archive; an error ends the extraction and leaves what
\* was done so far.
ApplyEntry(e) ==
    LET res == Applied(e)
    IN /\ verdict = "running" /\ Len(Last(layers)) < mode.entries
       /\ tree' = res.t
       /\ verdict' = IF res.ok THEN "running" ELSE "failed"
       /\ layers' = [layers EXCEPT ![Len(layers)] = Append(@, e)]
       /\ bytes' = bytes + e.size
       /\ UNCHANGED <<mode, base>>

\* applyLayers goes on with the next layer.
NextLayer ==
    /\ verdict = "running" /\ Last(layers) # <<>> /\ Len(layers) < mode.layers
    /\ layers' = Append(layers, <<>>)
    /\ UNCHANGED <<mode, base, tree, bytes, verdict>>

\* The last archive ends.
EndOfArchive ==
    /\ verdict = "running" /\ Last(layers) # <<>>
    /\ verdict' = "done"
    /\ UNCHANGED <<mode, base, tree, layers, bytes>>

TreeNext == NextLayer \/ EndOfArchive \/ \E e \in mode.holds : ApplyEntry(e)

-----------------------------------------------------------------------------
\* No archive, whatever links it makes first, changes anything outside the
\* tree being filled; an upper directory only where the tree it is applied to
\* already holds a link that leads out.
ExtractionContained ==
    (mode.how # "upper" \/ \A p \in DOMAIN base : base[p].kind # "link") =>
        \A p \in DOMAIN tree \cup DOMAIN Host : ~Under(p, Root) => p \in DOMAIN tree /\ p \in DOMAIN Host /\ tree[p] = Host[p]

\* What the layers of an image mean: a file is there when the last layer that
\* names it is not followed by one that hides it, itself or above it.
Named(i, p, k) == \E j \in DOMAIN layers[i] : layers[i][j].kind \in k /\ layers[i][j].name = p
Hidden(i, p) ==
    \/ \E n \in 1 .. Len(p) : Named(i, SubSeq(p, 1, n), {"wh"})
    \/ \E n \in 0 .. Len(p) - 1 : Named(i, SubSeq(p, 1, n), {"opq"})
Meant == {p \in UNION {{layers[i][j].name : j \in DOMAIN layers[i]} : i \in DOMAIN layers} :
            \E i \in DOMAIN layers : Named(i, p, {"file"}) /\ \A j \in i + 1 .. Len(layers) : ~Hidden(j, p)}
\* Layers as image builders write them: no links, markers before the files of
\* their layer, no file named as another one's temporary.
Orderly ==
    /\ mode.how = "image"
    /\ \A i \in DOMAIN layers : \A j \in DOMAIN layers[i] :
         LET e == layers[i][j]
         IN /\ e.kind \in {"file", "dir", "wh", "opq"} /\ Clean(e.name) = e.name /\ (e.name # <<>> => Last(e.name) # "a.tmp")
            /\ e.kind \in {"wh", "opq"} => \A k \in 1 .. j - 1 : layers[i][k].kind \in {"wh", "opq"}
ExtractedAsLayered ==
    verdict = "done" /\ Orderly => {p \in DOMAIN tree : tree[p].kind = "file" /\ Under(p, Root)} = {Root \o p : p \in Meant}

TreeTypeOK ==
    /\ verdict \in {"running", "failed", "done"}
    /\ \A p \in DOMAIN tree : tree[p].kind \in {"dir", "file", "link"} /\ (p \notin {Root, <<"o">>} => Parent(p) \in DOMAIN tree)

\* Archives become the trees they mean, and touch nothing else.
TreeSound == TreeTypeOK /\ ExtractionContained /\ ExtractedAsLayered
=============================================================================
