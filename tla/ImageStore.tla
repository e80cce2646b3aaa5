----------------------------- MODULE ImageStore -----------------------------
(***************************************************************************)
(* Images on disk and in the image store (ILM): pulls, removals, status     *)
(* queries and the storing of a build, each step by step, at the same time. *)
(*                                                                         *)
(* An image name is the sequence of its words and separators.  The service  *)
(* and the registry client each parse it; the store is keyed by             *)
(* <<repository, reference>> and so are directories below the layer root.   *)
(* A directory holds a config, a manifest, blobs and a root file system; a  *)
(* registry image of version v consists of the layers LayersOf(v).          *)
(***************************************************************************)
EXTENDS Integers, Sequences, FiniteSets, SequencesExt

CONSTANTS
    ImageNames,     \* names that are pulled, used, queried and removed
    BuildNames,     \* names builds are stored under
    ImgReqs,        \* requests at the same time
    MaxImgOps,      \* requests in a behaviour
    MaxImgFaults    \* steps that fail for a reason of their own

VARIABLES ilm, disk, tag, img, ops, faults, spoiled, stray
imgVars == <<ilm, disk, tag, img, ops, faults, spoiled, stray>>

DefaultRegistry == <<"registry-1.docker.io">>
Dotted == {"docker.io", "index.docker.io", "registry-1.docker.io", "reg.io"}
First(s, x) == SelectInSeq(s, LAMBDA y : y = x)
LastAt(s, x) == SelectLastInSeq(s, LAMBDA y : y = x)
Before(s, i) == IF i = 0 THEN s ELSE SubSeq(s, 1, i - 1)
After(s, i) == SubSeq(s, i + 1, Len(s))

IsRegistryHost(host) == host = <<"localhost">> \/ \E i \in DOMAIN host : host[i] \in Dotted \cup {":"}
NormalizeRegistry(reg) == IF reg \in {<<"docker.io">>, <<"index.docker.io">>} THEN DefaultRegistry ELSE reg

\* ImageService.parseImageRef: the key the service looks images up by.
ParseImageRef(s) ==
    LET cut == IF First(s, "@") # 0 THEN First(s, "@") ELSE First(s, ":")
        name == Before(s, cut)
        ref == IF cut = 0 \/ (s[cut] = ":" /\ After(s, cut) = <<>>) THEN <<"latest">> ELSE After(s, cut)
        slash == First(name, "/")
        named == slash # 0 /\ IsRegistryHost(Before(name, slash))
        reg == IF named THEN NormalizeRegistry(Before(name, slash)) ELSE DefaultRegistry
        repo == IF named THEN After(name, slash) ELSE name
    IN <<IF reg # DefaultRegistry THEN reg \o <<"/">> \o repo
         ELSE IF First(repo, "/") = 0 THEN <<"library", "/">> \o repo ELSE repo, ref>>

\* RegistryDockerHub.parseImageRef and storeRepository: the key a pull stores.
HubImageRef(s) ==
    LET at == First(s, "@")
        cut == IF at # 0 THEN at ELSE IF LastAt(s, ":") > LastAt(s, "/") THEN LastAt(s, ":") ELSE 0
        name == Before(s, cut)
        slash == First(name, "/")
        named == slash # 0 /\ IsRegistryHost(Before(name, slash))
        reg == IF named THEN NormalizeRegistry(Before(name, slash)) ELSE DefaultRegistry
        repo == IF named THEN After(name, slash) ELSE IF slash = 0 THEN <<"library", "/">> \o name ELSE name
    IN <<IF reg = DefaultRegistry THEN repo ELSE reg \o <<"/">> \o repo, IF cut = 0 THEN <<"latest">> ELSE After(s, cut)>>

\* storeBuiltImage keeps only the last part of the repository in the path.
BuildDir(s) == LET k == ParseImageRef(s) IN <<After(k[1], LastAt(k[1], "/")), k[2]>>

ImageKeys == {ParseImageRef(s) : s \in ImageNames \cup BuildNames} \cup {HubImageRef(s) : s \in ImageNames}
DirNames == {HubImageRef(s) : s \in ImageNames} \cup {BuildDir(s) : s \in BuildNames}
\* What a registry takes for a name has a tag that is not empty and has no
\* colon; and no image's directory is inside another's.
Path(d) == d[1] \o <<"/">> \o d[2] \o <<"/">>
ASSUME ImageAssumption ==
    /\ ImageNames \cup BuildNames \subseteq Seq(STRING)
    /\ \A s \in ImageNames : First(s, "@") = 0 /\ First(s, ":") # 0 =>
          /\ After(s, LastAt(s, ":")) # <<>>
          /\ First(s, ":") # LastAt(s, ":") => First(s, ":") < LastAt(s, "/")
    /\ \A d, e \in DirNames : d # e => ~IsPrefix(Path(d), Path(e))
LayersOf(v) == IF v = 1 THEN <<"base", "app1">> ELSE <<"base", "app2">>
NoFiles == [there |-> FALSE, root |-> FALSE, config |-> 0, manifest |-> FALSE, blobs |-> {}, tree |-> {}]
Built == 9
Complete(d) ==
    /\ disk[d].root
    /\ IF disk[d].config = Built THEN "built" \in disk[d].tree ELSE ToSet(LayersOf(disk[d].config)) \subseteq disk[d].tree

ImgIdle == [pc |-> "idle", op |-> "none", key |-> <<>>, dir |-> <<>>, v |-> 0, i |-> 0, met |-> FALSE, got |-> "none"]

ImageInit ==
    /\ ilm = <<>>           \* a function from stored keys to their directory
    /\ disk = [d \in DirNames |-> NoFiles]
    /\ tag = 1 /\ img = [r \in ImgReqs |-> ImgIdle]
    /\ ops = 0 /\ faults = 0 /\ spoiled = {} /\ stray = {}

Stored(k) == k \in DOMAIN ilm
\* IlmManager.StoreImage and RemoveImage under the store's lock.
StoreImage(k, d) == ilm' = [x \in DOMAIN ilm \cup {k} |-> IF x = k THEN d ELSE ilm[x]]
RemoveImage(k) == ilm' = [x \in DOMAIN ilm \ {k} |-> ilm[x]]
\* History: an entry that goes or is stored anew may name another directory
\* than the request's own, since a pull and a build of one name have their own.
Abandoned(r) == IF Stored(img[r].key) THEN {ilm[img[r].key]} \ {img[r].dir} ELSE {}
\* IlmManager.IsImageExist: an entry whose config file is there.
IsImageExist(k) == Stored(k) /\ disk[ilm[k]].config # 0
\* History: the directories whose files were taken away or mixed under an
\* entry; a directory is clean again when it is empty and no entry names it.
Owned(d) == \E k \in DOMAIN ilm : ilm[k] = d
Spoil(d) == spoiled' = IF Owned(d) THEN spoiled \cup {d} ELSE spoiled \ {d}
Mix(d, v) == spoiled' = IF disk[d].config \in {0, v} /\ ~Owned(d) THEN spoiled ELSE spoiled \cup {d}
\* An entry is stored: its directory is whole unless another request was at
\* work in it at the same time.
Settled(r) == spoiled' = IF img[r].met THEN spoiled \cup {img[r].dir} ELSE spoiled \ {img[r].dir}

Set(r, pc) == img' = [img EXCEPT ![r].pc = pc]
End(r, got) == img' = [img EXCEPT ![r] = [ImgIdle EXCEPT !.got = got]]
Fault == faults < MaxImgFaults /\ faults' = faults + 1
MayBegin(r) == img[r].pc = "idle" /\ ops < MaxImgOps
BeginImg(r, op, pc, key, dir) ==
    /\ MayBegin(r)
    /\ ops' = ops + 1
    /\ LET others == {x \in ImgReqs : img[x].pc # "idle" /\ img[x].dir = dir}
       IN img' = [x \in ImgReqs |-> IF x = r THEN [ImgIdle EXCEPT !.op = op, !.pc = pc, !.key = key, !.dir = dir, !.met = others # {}]
                                    ELSE [img[x] EXCEPT !.met = @ \/ x \in others]]
    /\ UNCHANGED <<ilm, disk, tag, faults, spoiled, stray>>

-----------------------------------------------------------------------------
(* Pull *)
BeginPull(r, s) == BeginImg(r, "pull", "mkdir", HubImageRef(s), HubImageRef(s))

\* createOutputDirectory keeps what an earlier pull left there.
CreateOutputDirectory(r) ==
    /\ img[r].pc = "mkdir"
    /\ disk' = [disk EXCEPT ![img[r].dir].there = TRUE, ![img[r].dir].root = TRUE]
    /\ Set(r, "token")
    /\ UNCHANGED <<ilm, tag, ops, faults, spoiled, stray>>

\* getBearerChallenge and fetchToken; the disk is not touched.
FetchToken(r) ==
    /\ img[r].pc = "token" /\ Set(r, "manifest")
    /\ UNCHANGED <<ilm, disk, tag, ops, faults, spoiled, stray>>

\* fetchManifest (twice for a list) and storeManifest: the version the tag
\* names now.
FetchManifest(r) ==
    /\ img[r].pc = "manifest"
    /\ IF disk[img[r].dir].there
       THEN /\ disk' = [disk EXCEPT ![img[r].dir].manifest = TRUE]
            /\ img' = [img EXCEPT ![r].pc = "blobs", ![r].v = tag]
       ELSE UNCHANGED disk /\ Set(r, "undo")
    /\ UNCHANGED <<ilm, tag, ops, faults, spoiled, stray>>

\* downloadBlobVerified of the config (0) and of each layer: it makes the
\* directory of the blob when it is missing.
Blob(r) == IF img[r].i = 0 THEN <<"config", img[r].v>> ELSE <<"layer", LayersOf(img[r].v)[img[r].i]>>
DownloadBlob(r) ==
    /\ img[r].pc = "blobs"
    /\ disk' = [disk EXCEPT ![img[r].dir].there = TRUE, ![img[r].dir].blobs = @ \cup {Blob(r)}]
    /\ img' = [img EXCEPT ![r].i = IF @ = Len(LayersOf(img[r].v)) THEN 0 ELSE @ + 1,
                          ![r].pc = IF img[r].i = Len(LayersOf(img[r].v)) THEN "config" ELSE @]
    /\ UNCHANGED <<ilm, tag, ops, faults, spoiled, stray>>

\* copyFile of the config blob to config.json.
WriteConfig(r) ==
    /\ img[r].pc = "config"
    /\ IF <<"config", img[r].v>> \in disk[img[r].dir].blobs
       THEN /\ disk' = [disk EXCEPT ![img[r].dir].config = img[r].v]
            /\ img' = [img EXCEPT ![r].pc = "layers", ![r].i = 1]
            /\ IF disk[img[r].dir].config = img[r].v THEN UNCHANGED spoiled ELSE Mix(img[r].dir, img[r].v)
       ELSE Set(r, "undo") /\ UNCHANGED <<disk, spoiled>>
    /\ UNCHANGED <<ilm, tag, ops, faults, stray>>

\* Mutant: applyLayers leaves out the last layer.
ApplyLayerOneShort(r) ==
    LET d == img[r].dir IN
    /\ img[r].pc = "layers"
    /\ disk' = [disk EXCEPT ![d].tree = @ \cup {LayersOf(img[r].v)[1]}]
    /\ Set(r, "store")
    /\ UNCHANGED <<ilm, tag, ops, faults, spoiled, stray>>

\* applyLayers: one layer from its blob into the root file system.
ApplyLayer(r) ==
    LET d == img[r].dir
        layer == LayersOf(img[r].v)[img[r].i]
    IN /\ img[r].pc = "layers"
       /\ IF <<"layer", layer>> \in disk[d].blobs /\ disk[d].root
          THEN /\ disk' = [disk EXCEPT ![d].tree = @ \cup {layer}]
               /\ img' = [img EXCEPT ![r].i = @ + 1, ![r].pc = IF img[r].i = Len(LayersOf(img[r].v)) THEN "store" ELSE @]
          ELSE UNCHANGED disk /\ Set(r, "undo")
       /\ UNCHANGED <<ilm, tag, ops, faults, spoiled, stray>>

StorePulled(r) ==
    /\ img[r].pc = "store" /\ img[r].op = "pull"
    /\ StoreImage(img[r].key, img[r].dir)
    /\ Settled(r) /\ stray' = stray \cup Abandoned(r)
    /\ End(r, "pulled")
    /\ UNCHANGED <<disk, tag, ops, faults>>

\* A step of a pull that fails on its own: network, digest, disk.
PullFails(r) ==
    /\ img[r].op = "pull" /\ img[r].pc \in {"mkdir", "token", "manifest", "blobs", "config", "layers", "store"}
    /\ Fault
    /\ IF img[r].pc \in {"mkdir", "store"}
       THEN /\ stray' = IF img[r].pc = "store" \/ disk[img[r].dir].there THEN stray \cup {img[r].dir} ELSE stray
            /\ End(r, "failed")
       ELSE Set(r, "undo") /\ UNCHANGED stray
    /\ UNCHANGED <<ilm, disk, tag, ops, spoiled>>

\* removeOutputDirectory, also when an earlier pull had filled it.
RemoveOutputDirectory(r) ==
    /\ img[r].pc = "undo"
    /\ disk' = [disk EXCEPT ![img[r].dir] = NoFiles]
    /\ Spoil(img[r].dir)
    /\ End(r, "failed")
    /\ UNCHANGED <<ilm, tag, ops, faults, stray>>

-----------------------------------------------------------------------------
(* Remove, status and the storing of a build *)
\* Remove looks up the bundle of the entry.
BeginRemove(r, s) ==
    /\ Stored(ParseImageRef(s))
    /\ BeginImg(r, "remove", "files", ParseImageRef(s), ilm[ParseImageRef(s)])

\* removeRootlessShiftedLayerCaches and RemoveAllUnderRoot of the bundle; a
\* pull that is filling the directory goes on in an empty one.
RemoveFiles(r) ==
    /\ img[r].pc = "files"
    /\ disk' = [disk EXCEPT ![img[r].dir] = NoFiles]
    /\ Spoil(img[r].dir)
    /\ Set(r, "entry")
    /\ UNCHANGED <<ilm, tag, ops, faults, stray>>

\* What RemoveAll leaves of a directory when it fails half way.
Halves(f) ==
    {[f EXCEPT !.config = c, !.manifest = m, !.blobs = b, !.tree = t] :
        c \in {0, f.config}, m \in {FALSE, f.manifest}, b \in {{}, f.blobs}, t \in {{}, f.tree}}

\* It fails: a removal and a failed pull end there, a status query and a build
\* ignore it.  The removed image keeps its entry.
RemovalFails(r) ==
    LET d == img[r].dir IN
    /\ img[r].pc \in {"files", "undo", "dropfiles", "clear"} /\ disk[d].there
    /\ Fault
    /\ \E f \in Halves(disk[d]) : disk' = [disk EXCEPT ![d] = f]
    /\ spoiled' = IF Owned(d) THEN spoiled \cup {d} ELSE spoiled
    /\ stray' = IF Owned(d) \/ img[r].pc = "clear" THEN stray ELSE stray \cup {d}
    /\ IF img[r].pc = "clear" THEN Set(r, "copy") ELSE End(r, IF img[r].pc = "dropfiles" THEN "lost" ELSE "failed")
    /\ UNCHANGED <<ilm, tag, ops>>

\* RemoveImage; another request may have stored the image again meanwhile.
RemoveEntry(r) ==
    /\ img[r].pc = "entry"
    /\ IF Stored(img[r].key) THEN RemoveImage(img[r].key) ELSE UNCHANGED ilm
    /\ stray' = stray \cup Abandoned(r) \cup (IF disk[img[r].dir].there THEN {img[r].dir} ELSE {})
    /\ spoiled' = IF disk[img[r].dir].there \/ \E k \in DOMAIN ilm \ {img[r].key} : ilm[k] = img[r].dir
                  THEN spoiled ELSE spoiled \ {img[r].dir}
    /\ End(r, IF Stored(img[r].key) THEN "removed" ELSE "failed")
    /\ UNCHANGED <<disk, tag, ops, faults>>

\* The store cannot remove the entry: only a status query goes on.
EntryStays(r) ==
    LET d == img[r].dir IN
    /\ img[r].pc \in {"entry", "drop", "check"} /\ Stored(img[r].key)
    /\ Fault
    /\ IF img[r].pc = "drop" THEN Set(r, "dropfiles") ELSE End(r, "failed")
    /\ stray' = IF img[r].pc # "drop" /\ disk[d].there /\ ~Owned(d) THEN stray \cup {d} ELSE stray
    /\ UNCHANGED <<ilm, disk, tag, ops, spoiled>>

\* GetImageStatus: an entry whose bundle has no manifest is taken for a lost
\* image and removed with its files.
GetImageStatus(r, s) ==
    LET k == ParseImageRef(s) IN
    /\ Stored(k)
    /\ IF disk[ilm[k]].manifest
       THEN BeginImg(r, "status", "told", k, ilm[k])
       ELSE BeginImg(r, "status", "drop", k, ilm[k])

StatusTold(r) == img[r].pc = "told" /\ End(r, "told") /\ UNCHANGED <<ilm, disk, tag, ops, faults, spoiled, stray>>

StatusDropsEntry(r) ==
    /\ img[r].pc = "drop"
    /\ IF Stored(img[r].key) THEN RemoveImage(img[r].key) ELSE UNCHANGED ilm
    /\ stray' = stray \cup Abandoned(r)
    /\ Set(r, "dropfiles")
    /\ UNCHANGED <<disk, tag, ops, faults, spoiled>>

StatusDropsFiles(r) ==
    /\ img[r].pc = "dropfiles"
    /\ disk' = [disk EXCEPT ![img[r].dir] = NoFiles]
    /\ Spoil(img[r].dir)
    /\ End(r, "lost")
    /\ UNCHANGED <<ilm, tag, ops, faults, stray>>

\* storeBuiltImage: the old image goes first, entry before files.
BeginStoreBuilt(r, s) == BeginImg(r, "build", "check", ParseImageRef(s), BuildDir(s))

RemoveOldBuild(r) ==
    /\ img[r].pc = "check"
    /\ IF IsImageExist(img[r].key) THEN RemoveImage(img[r].key) /\ Set(r, "clear") /\ stray' = stray \cup Abandoned(r)
       ELSE UNCHANGED <<ilm, stray>> /\ Set(r, "copy")
    /\ UNCHANGED <<disk, tag, ops, faults, spoiled>>

ClearOldBuild(r) ==
    /\ img[r].pc = "clear"
    /\ disk' = [disk EXCEPT ![img[r].dir] = NoFiles]
    /\ Spoil(img[r].dir)
    /\ Set(r, "copy")
    /\ UNCHANGED <<ilm, tag, ops, faults, stray>>

\* MkdirAll and copyDir of the built root file system.
CopyBuiltRootfs(r) ==
    /\ img[r].pc = "copy"
    /\ disk' = [disk EXCEPT ![img[r].dir].there = TRUE, ![img[r].dir].root = TRUE, ![img[r].dir].tree = @ \cup {"built"}]
    /\ Set(r, "wconfig")
    /\ UNCHANGED <<ilm, tag, ops, faults, spoiled, stray>>

WriteBuiltConfig(r) ==
    /\ img[r].pc = "wconfig"
    /\ IF disk[img[r].dir].there
       THEN disk' = [disk EXCEPT ![img[r].dir].config = Built] /\ Set(r, "store") /\ Mix(img[r].dir, Built)
       ELSE UNCHANGED <<disk, spoiled>> /\ End(r, "failed")
    /\ UNCHANGED <<ilm, tag, ops, faults, stray>>

StoreBuilt(r) ==
    /\ img[r].pc = "store" /\ img[r].op = "build"
    /\ StoreImage(img[r].key, img[r].dir)
    /\ Settled(r) /\ stray' = stray \cup Abandoned(r)
    /\ End(r, "built")
    /\ UNCHANGED <<disk, tag, ops, faults>>

\* A failed copy or write leaves what is there.
StoreBuiltFails(r) ==
    /\ img[r].op = "build" /\ img[r].pc \in {"copy", "wconfig", "store"}
    /\ Fault
    /\ stray' = stray \cup {img[r].dir}
    /\ spoiled' = IF Owned(img[r].dir) THEN spoiled \cup {img[r].dir} ELSE spoiled
    /\ End(r, "failed")
    /\ UNCHANGED <<ilm, disk, tag, ops>>

\* The registry's tag moves to another version.
TagMoves ==
    /\ tag = 1 /\ ops > 0 /\ tag' = 2
    /\ UNCHANGED <<ilm, disk, img, ops, faults, spoiled, stray>>

PullStep(r) == CreateOutputDirectory(r) \/ FetchToken(r) \/ FetchManifest(r) \/ DownloadBlob(r) \/ WriteConfig(r) \/ ApplyLayer(r)
               \/ StorePulled(r) \/ PullFails(r) \/ RemoveOutputDirectory(r)
ImageNext ==
    \/ TagMoves
    \/ \E r \in ImgReqs :
        \/ MayBegin(r) /\ \E s \in ImageNames : BeginPull(r, s)
        \/ MayBegin(r) /\ \E s \in ImageNames \cup BuildNames : BeginRemove(r, s) \/ GetImageStatus(r, s)
        \/ MayBegin(r) /\ \E s \in BuildNames : BeginStoreBuilt(r, s)
        \/ PullStep(r)
        \/ RemoveFiles(r) \/ RemoveEntry(r) \/ RemovalFails(r) \/ EntryStays(r)
        \/ StatusTold(r) \/ StatusDropsEntry(r) \/ StatusDropsFiles(r)
        \/ RemoveOldBuild(r) \/ ClearOldBuild(r) \/ CopyBuiltRootfs(r) \/ WriteBuiltConfig(r) \/ StoreBuilt(r) \/ StoreBuiltFails(r)

ImageSpec == ImageInit /\ [][ImageNext]_imgVars

-----------------------------------------------------------------------------
ImageTypeOK ==
    /\ DOMAIN ilm \subseteq ImageKeys /\ \A k \in DOMAIN ilm : ilm[k] \in DirNames
    /\ \A d \in DirNames : disk[d].config \in {0, 1, 2, Built} /\ disk[d].tree \subseteq {"base", "app1", "app2", "built"}
    /\ spoiled \subseteq DirNames /\ stray \subseteq DirNames

\* An image the service takes for present has all of its layers, however
\* pulls, builds, removals and status queries of it overlap and fail; only a
\* directory that two requests filled or emptied at the same time, or that was
\* emptied, half emptied or given another version under its entry, may not.
PresentIsComplete ==
    \A k \in DOMAIN ilm : IsImageExist(k) /\ ilm[k] \notin spoiled => Complete(ilm[k])

\* An image that was pulled is found under the name it was pulled by.  The two
\* parsers part on names with a port but no digest, and on Docker Hub's host
\* before a single word.
Ambiguous(s) ==
    LET at == First(s, "@")
        name == Before(s, IF at # 0 THEN at ELSE First(s, ":"))
        slash == First(name, "/")
    IN \/ at = 0 /\ First(s, ":") # 0 /\ First(s, ":") < LastAt(s, "/")
       \/ slash # 0 /\ NormalizeRegistry(Before(name, slash)) = DefaultRegistry /\ First(After(name, slash), "/") = 0
KeyPairs == {<<HubImageRef(s), ParseImageRef(s)>> : s \in {x \in ImageNames : ~Ambiguous(x)}}
FoundByName == \A pair \in KeyPairs : Stored(pair[1]) => Stored(pair[2])

\* Nothing of an image stays on disk without an entry once no request works on
\* it, unless a build, a store or the removal of files failed, a removal met a
\* new pull, or a build took the place of a pulled image or the other way round.
NoStrayFiles ==
    \A d \in DirNames \ stray :
        disk[d].there /\ (\A r \in ImgReqs : img[r].pc # "idle" => img[r].dir # d) => Owned(d)

\* The image store and its directories: the invariants above.
ImageSound == ImageTypeOK /\ PresentIsComplete /\ FoundByName /\ NoStrayFiles
=============================================================================
