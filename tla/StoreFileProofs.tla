--------------------------- MODULE StoreFileProofs ---------------------------
(***************************************************************************)
(* Proofs about what the daemon keeps on disk.  The JSON stores, for any     *)
(* number of callers, ids, calls, failed steps, crashes and losses of power: *)
(* the invariants of StoreFile, and that its protocol implements             *)
(* LockedStore.  The images, for any names the two parsers take and any      *)
(* number of requests, operations and faults: the invariants of ImageStore.  *)
(* The builds, for any build files and any number of faults: the invariants  *)
(* of ImageBuild.                                                            *)
(***************************************************************************)
EXTENDS StoreFile, ImageStore, ImageBuild, FiniteSetTheorems, TLAPS

Keys == Ids \cup {Default}
Entries == [name : {"n", "d"}, rev : {0, 1}]
Contents == UNION {[D -> Entries] : D \in SUBSET Keys}
Files == [there : BOOLEAN, ok : BOOLEAN, safe : BOOLEAN, map : Contents]
Steps == {"idle", "mutex", "flock", "load", "fn", "open", "write", "sync", "rename", "chmod", "unlock", "named"}
Gots == {"none", "ok", "refused", "taken", "free", "error"}
Calls == [pc : Steps, op : StoreOps, buf : Contents, got : Gots, creating : BOOLEAN]

StoreStateOK ==
    /\ kind \in AllStores /\ shared \in BOOLEAN /\ raced \in BOOLEAN
    /\ file \in Files /\ old \in Files /\ tmp \in Files
    /\ mu \in [Objects -> Callers \cup {Free}] /\ flock \in Callers \cup {Free}
    /\ w \in [Callers -> Calls]

\* What is or may come back under the store's name was synced and parses.
FilesWhole == file.ok /\ file.safe /\ old.ok /\ old.safe

Saving == {"open", "write", "sync", "rename"}
Working == {"load", "fn", "chmod"} \cup Saving

\* The mutex of its object is with a caller from the lock to the unlock, the
\* lock file from the flock on, unless the flock itself failed.
LocksHeld ==
    /\ \A x \in Callers : w[x].pc \notin {"idle", "named", "mutex"} => mu[Obj(x)] = x
    /\ \A o \in Objects : mu[o] # Free => Obj(mu[o]) = o /\ w[mu[o]].pc \notin {"idle", "named", "mutex"}
    /\ \A x \in Callers : w[x].pc \in Working \/ (w[x].pc = "unlock" /\ w[x].got # "error") => flock = x
    /\ flock # Free => w[flock].pc \notin {"idle", "named", "mutex", "flock"}

\* What a caller works on is what the file still holds: the change under way
\* is the operation applied to the content it will replace.
WorksOnFile(x) ==
    /\ w[x].pc = "fn" => w[x].buf = Content(file)
    /\ w[x].pc \in Saving => Outcome(kind, Content(file), w[x].op) = Said(w[x].buf, "ok")
    /\ w[x].pc = "write" => tmp.there
    /\ w[x].pc \in {"sync", "rename"} => tmp.there /\ tmp.ok /\ tmp.map = w[x].buf
    /\ w[x].pc = "rename" => tmp.safe
    /\ w[x].pc = "chmod" => kind.private

\* Names are asked for only by a create, and a named store stores only then.
CreateAsks(x) ==
    /\ w[x].pc # "idle" /\ w[x].op.what = "used" => w[x].creating /\ w[x].op.id \in Ids
    /\ w[x].pc = "named" => w[x].op.what = "used"
    /\ w[x].pc # "idle" /\ w[x].op.what = "store" /\ kind.manager.named => w[x].creating

\* A create that was told its name is free.
Cleared(x) == w[x].pc = "named" \/ (w[x].pc # "idle" /\ w[x].creating /\ w[x].op.what = "store")
Pending(x) == Cleared(x) /\ w[x].pc \notin {"chmod", "unlock"}
ToldFree(x) == w[x].pc = "unlock" /\ w[x].op.what = "used" /\ w[x].got = "free"
Distinct(c) == \A i, j \in DOMAIN c : c[i].name = c[j].name => i = j

\* As long as no two creates met and no check failed, one create at a time was
\* told that the name is free, and until it has stored its entry it is.
NamesApart ==
    kind.manager.named /\ ~raced =>
        /\ Distinct(file.map) /\ Distinct(old.map)
        /\ \A x, y \in Callers : Cleared(x) /\ Cleared(y) => x = y
        /\ \A x \in Callers : Pending(x) \/ ToldFree(x) => ~NameUsed(Content(file), "n")

\* The inductive invariant.
StoreInv ==
    /\ StoreStateOK /\ FilesWhole /\ LocksHeld /\ NamesApart
    /\ \A x \in Callers : WorksOnFile(x) /\ CreateAsks(x)

-----------------------------------------------------------------------------
(***************************************************************************)
(* Contents and what the managers' functions do to them                     *)
(***************************************************************************)
LEMMA ContentsAre ==
    ASSUME NEW c
    PROVE  c \in Contents <=> DOMAIN c \subseteq Keys /\ c \in [DOMAIN c -> Entries]
<1>1. ASSUME c \in Contents PROVE DOMAIN c \subseteq Keys /\ c \in [DOMAIN c -> Entries]
  <2>1. PICK D \in SUBSET Keys : c \in [D -> Entries]
    BY <1>1 DEF Contents
  <2>2. QED
    BY <2>1
<1>2. ASSUME DOMAIN c \subseteq Keys, c \in [DOMAIN c -> Entries] PROVE c \in Contents
  BY <1>2 DEF Contents
<1>3. QED
  BY <1>1, <1>2

\* A new file holds nothing, which is a content.
LEMMA EmptyIsContent == Empty \in Contents /\ DOMAIN Empty = {}
BY ContentsAre DEF Empty

\* What a missing file stands for is a content without an entry named by a create.
LEMMA FreshIsContent ==
    ASSUME NEW k \in AllStores
    PROVE  k.fresh \in Contents /\ DOMAIN k.fresh \subseteq {Default} /\ ~NameUsed(k.fresh, "n") /\ Distinct(k.fresh)
<1>1. DOMAIN k.fresh \subseteq {Default} /\ k.fresh \in [DOMAIN k.fresh -> [name : {"d"}, rev : {0}]]
  BY StoreAssumption DEF Default
<1>2. k.fresh \in [DOMAIN k.fresh -> Entries]
  BY <1>1 DEF Entries
<1>3. k.fresh \in Contents
  BY <1>1, <1>2, ContentsAre DEF Keys
<1>4. ~NameUsed(k.fresh, "n") /\ Distinct(k.fresh)
  BY <1>1 DEF NameUsed, Distinct
<1>5. QED
  BY <1>1, <1>3, <1>4

\* Adding an entry of a new name keeps a content, and its names distinct.
LEMMA WithIsContent ==
    ASSUME NEW c \in Contents, NEW id \in Keys, NEW e \in Entries
    PROVE  /\ With(c, id, e) \in Contents
           /\ Distinct(c) /\ ~NameUsed(c, e.name) => Distinct(With(c, id, e))
<1>1. DOMAIN c \subseteq Keys /\ c \in [DOMAIN c -> Entries]
  BY ContentsAre
<1>2. DOMAIN With(c, id, e) = DOMAIN c \cup {id} /\ With(c, id, e) \in [DOMAIN c \cup {id} -> Entries]
  BY <1>1 DEF With
<1>3. With(c, id, e) \in Contents
  BY <1>1, <1>2, ContentsAre
<1>4. Distinct(c) /\ ~NameUsed(c, e.name) => Distinct(With(c, id, e))
  BY <1>1 DEF With, Distinct, NameUsed
<1>5. QED
  BY <1>3, <1>4

\* Taking an entry away keeps a content, its names distinct, and a free name free.
LEMMA WithoutIsContent ==
    ASSUME NEW c \in Contents, NEW id
    PROVE  /\ Without(c, id) \in Contents
           /\ Distinct(c) => Distinct(Without(c, id))
           /\ NameUsed(Without(c, id), "n") => NameUsed(c, "n")
<1>1. DOMAIN c \subseteq Keys /\ c \in [DOMAIN c -> Entries]
  BY ContentsAre
<1>2. DOMAIN Without(c, id) = DOMAIN c \ {id} /\ Without(c, id) \in [DOMAIN c \ {id} -> Entries]
  BY <1>1 DEF Without
<1>3. QED
  BY <1>1, <1>2, ContentsAre DEF Without, Distinct, NameUsed

\* Editing an entry keeps a content and frees and takes no name.
LEMMA RevisedIsContent ==
    ASSUME NEW c \in Contents, NEW id \in DOMAIN c
    PROVE  LET r == [c EXCEPT ![id].rev = 1]
           IN r \in Contents /\ (Distinct(c) => Distinct(r)) /\ (NameUsed(r, "n") => NameUsed(c, "n"))
<1> DEFINE r == [c EXCEPT ![id].rev = 1]
<1>1. DOMAIN c \subseteq Keys /\ c \in [DOMAIN c -> Entries]
  BY ContentsAre
<1>2. /\ DOMAIN r = DOMAIN c /\ r \in [DOMAIN c -> Entries]
      /\ \A x \in DOMAIN c : r[x].name = c[x].name
  BY <1>1 DEF Entries
<1>3. r \in Contents
  BY <1>1, <1>2, ContentsAre
<1>4. (Distinct(c) => Distinct(r)) /\ (NameUsed(r, "n") => NameUsed(c, "n"))
  BY <1>2 DEF Distinct, NameUsed
<1>5. QED
  BY <1>3, <1>4

\* What an operation may ask: only a store has an id of its own.
LEMMA OpsAre ==
    ASSUME NEW op \in StoreOps
    PROVE  /\ op.what \in {"store", "update", "remove", "get", "list", "used", "find"} /\ op.id \in Keys /\ op.name = "n"
           /\ op.what = "store" => op.id \in Ids
BY DEF StoreOps, Keys

\* What a caller gets: a read and a refused change leave the content as it
\* was, any other change says "ok", and only a store of a free name adds one.
OutcomeOK(c, op, new, got) ==
    /\ new \in Contents /\ got \in Gots /\ got # "error"
    /\ op.what \in Reads \/ got = "refused" => new = c
    /\ op.what \notin Reads /\ got # "refused" => got = "ok"
    /\ op.what = "used" /\ got = "free" => ~NameUsed(c, "n")
    /\ op.what # "store" => (NameUsed(new, "n") => NameUsed(c, "n"))
    /\ Distinct(c) /\ (op.what = "store" => ~NameUsed(c, "n")) => Distinct(new)

\* Every operation ends with a content that OutcomeOK allows it.
LEMMA OutcomeIs ==
    ASSUME NEW k \in AllStores, NEW c \in Contents, NEW op \in StoreOps
    PROVE  /\ Outcome(k, c, op) = Said(Outcome(k, c, op).content, Outcome(k, c, op).got)
           /\ OutcomeOK(c, op, Outcome(k, c, op).content, Outcome(k, c, op).got)
<1> DEFINE Is(new, got) == Outcome(k, c, op) = Said(new, got) /\ OutcomeOK(c, op, new, got)
<1> SUFFICES \E new, got : Is(new, got)
  BY DEF Said
<1>0. /\ op.what \in {"store", "update", "remove", "get", "list", "used", "find"} /\ op.id \in Keys /\ op.name = "n"
  BY OpsAre
<1>1. CASE Refused(k, c, op)
  <2>1. Outcome(k, c, op) = Said(c, "refused")
    BY <1>1 DEF Outcome
  <2>2. op.what # "used"
    BY <1>1, <1>0 DEF Refused
  <2>3. OutcomeOK(c, op, c, "refused")
    BY <2>2 DEF OutcomeOK, Gots
  <2>4. QED
    BY <2>1, <2>3
<1>2. CASE ~Refused(k, c, op) /\ op.what = "store"
  <2> DEFINE new == With(c, op.id, Entry("n", 0))
  <2>1. Outcome(k, c, op) = Said(new, "ok")
    BY <1>2, <1>0 DEF Outcome
  <2>2. Entry("n", 0) \in Entries /\ Entry("n", 0).name = "n"
    BY DEF Entry, Entries
  <2>3. new \in Contents /\ (Distinct(c) /\ ~NameUsed(c, "n") => Distinct(new))
    BY <2>2, <1>0, WithIsContent
  <2>4. OutcomeOK(c, op, new, "ok")
    BY <2>3, <1>2 DEF OutcomeOK, Gots, Reads
  <2>5. QED
    BY <2>1, <2>4
<1>3. CASE ~Refused(k, c, op) /\ op.what = "update"
  <2> DEFINE new == [c EXCEPT ![op.id].rev = 1]
  <2>1. Outcome(k, c, op) = Said(new, "ok") /\ op.id \in DOMAIN c
    BY <1>3 DEF Outcome, Refused
  <2>2. new \in Contents /\ (Distinct(c) => Distinct(new)) /\ (NameUsed(new, "n") => NameUsed(c, "n"))
    BY <2>1, RevisedIsContent
  <2> HIDE DEF new
  <2>3. OutcomeOK(c, op, new, "ok")
    BY <2>2, <1>3 DEF OutcomeOK, Gots, Reads
  <2>4. QED
    BY <2>1, <2>3
<1>4. CASE ~Refused(k, c, op) /\ op.what = "remove"
  <2> DEFINE new == Without(c, op.id)
  <2>1. Outcome(k, c, op) = Said(new, "ok")
    BY <1>4 DEF Outcome
  <2>2. new \in Contents /\ (Distinct(c) => Distinct(new)) /\ (NameUsed(new, "n") => NameUsed(c, "n"))
    BY WithoutIsContent
  <2>3. OutcomeOK(c, op, new, "ok")
    BY <2>2, <1>4 DEF OutcomeOK, Gots, Reads
  <2>4. QED
    BY <2>1, <2>3
<1>5. CASE ~Refused(k, c, op) /\ op.what = "used"
  <2> DEFINE got == IF NameUsed(c, "n") THEN "taken" ELSE "free"
  <2>1. Outcome(k, c, op) = Said(c, got)
    BY <1>5, <1>0 DEF Outcome
  <2>2. OutcomeOK(c, op, c, got)
    BY <1>5 DEF OutcomeOK, Gots, Reads
  <2>3. QED
    BY <2>1, <2>2
<1>6. CASE ~Refused(k, c, op) /\ op.what \in {"get", "list", "find"}
  <2>1. Outcome(k, c, op) = Said(c, "ok")
    BY <1>6 DEF Outcome
  <2>2. OutcomeOK(c, op, c, "ok")
    BY <1>6 DEF OutcomeOK, Gots, Reads
  <2>3. QED
    BY <2>1, <2>2
<1>7. QED
  BY <1>0, <1>1, <1>2, <1>3, <1>4, <1>5, <1>6

\* What a file says, of any kind of store, is a content; a broken or absent one says nothing.
LEMMA ContentIs ==
    ASSUME NEW f \in Files, kind \in AllStores
    PROVE  Content(f) \in Contents /\ (Distinct(f.map) => Distinct(Content(f)))
BY FreshIsContent DEF Content, Files

-----------------------------------------------------------------------------
(***************************************************************************)
(* The invariant                                                            *)
(***************************************************************************)
LEMMA AsleepIsCall == Asleep \in Calls
<1>1. Op("list", Default, "n") \in StoreOps
  BY DEF Op, StoreOps
<1>2. QED
  BY <1>1, EmptyIsContent DEF Asleep, Calls, Steps, Gots

\* The invariant holds of the files the daemon finds when it starts.
LEMMA StoreInitially == StoreInit => StoreInv
<1> SUFFICES ASSUME StoreInit PROVE StoreInv
  OBVIOUS
<1> DEFINE first == CHOOSE id \in Ids : TRUE
<1>1. kind \in AllStores /\ shared \in BOOLEAN /\ tmp = Missing /\ (file = Missing \/ file = Earlier) /\ old = file
  BY DEF StoreInit
<1>2. Missing \in Files /\ Missing.ok /\ Missing.safe /\ Distinct(Missing.map)
  BY EmptyIsContent DEF Missing, Files, Distinct
<1>3. Earlier \in Files /\ Earlier.ok /\ Earlier.safe /\ Distinct(Earlier.map)
  <2>1. first \in Ids
    BY StoreAssumption
  <2>2. Entry("n", 0) \in Entries /\ Entry("n", 0).name = "n"
    BY DEF Entry, Entries
  <2>3. With(kind.fresh, first, Entry("n", 0)) \in Contents /\ Distinct(With(kind.fresh, first, Entry("n", 0)))
    BY <1>1, <2>1, <2>2, FreshIsContent, WithIsContent DEF Keys
  <2>4. QED
    BY <2>3 DEF Earlier, Files
<1>4. StoreStateOK
  BY <1>1, <1>2, <1>3, AsleepIsCall DEF StoreInit, StoreStateOK
<1>5. \A x \in Callers : w[x].pc = "idle"
  BY DEF StoreInit, Asleep
<1>6. NamesApart
  BY <1>1, <1>2, <1>3, <1>5 DEF NamesApart, Cleared, Pending, ToldFree
<1>7. LocksHeld
  BY <1>5 DEF StoreInit, LocksHeld, Working, Saving
<1>8. QED
  BY <1>1, <1>2, <1>3, <1>4, <1>5, <1>6, <1>7 DEF StoreInv, FilesWhole, WorksOnFile, CreateAsks, Saving

\* Every step keeps the types: what is loaded, changed and saved is a content.
LEMMA StoreTypeStep == StoreInv /\ [StoreNext]_storeVars => StoreStateOK'
<1> SUFFICES ASSUME StoreInv, [StoreNext]_storeVars PROVE StoreStateOK'
  OBVIOUS
<1> USE DEF StoreInv, StoreStateOK
<1>a. "free" = Free /\ Free \notin Callers /\ \A x \in Callers : Obj(x) \in Objects
  BY StoreAssumption DEF Free, Obj, Objects
<1>1. ASSUME NEW x \in Callers, LockMutex(x) \/ Flock(x) PROVE StoreStateOK'
  BY <1>1, <1>a DEF LockMutex, Flock, Goto, Calls, Steps, files, Objects
<1>2. ASSUME NEW x \in Callers, LoadOrInit(x) PROVE StoreStateOK'
  <2>1. file.map \in Contents /\ kind.fresh \in Contents
    BY FreshIsContent DEF Files
  <2>2. QED
    BY <1>2, <2>1 DEF LoadOrInit, Returning, Calls, Steps, files, Gots, Objects
<1>3. ASSUME NEW x \in Callers, RunFn(x) PROVE StoreStateOK'
  <2> DEFINE out == Outcome(kind, w[x].buf, w[x].op)
  <2>1. out.content \in Contents /\ out.got \in Gots
    BY OutcomeIs DEF Calls, OutcomeOK
  <2> HIDE DEF out
  <2>2. IF w[x].op.what \in Reads \/ out.got = "refused" THEN Returning(x, out.got)
        ELSE w' = [w EXCEPT ![x].pc = "open", ![x].buf = out.content]
    BY <1>3 DEF RunFn, out
  <2>3. w' \in [Callers -> Calls]
    BY <2>1, <2>2 DEF Returning, Calls, Steps
  <2>4. QED
    BY <1>3, <2>3 DEF RunFn, files, Objects
<1>4. ASSUME NEW x \in Callers, OpenTmp(x) \/ WriteTmp(x) \/ SyncTmp(x) \/ Rename(x) PROVE StoreStateOK'
  <2>1. w' \in [Callers -> Calls]
    BY <1>4 DEF OpenTmp, WriteTmp, SyncTmp, Rename, Goto, Returning, Calls, Steps, Gots
  <2>2. file' \in Files /\ tmp' \in Files /\ old' \in Files
    <3>1. CASE OpenTmp(x)
      BY <3>1, EmptyIsContent DEF OpenTmp, Files
    <3>2. CASE WriteTmp(x)
      BY <3>2 DEF WriteTmp, Files, Calls
    <3>3. CASE SyncTmp(x)
      BY <3>3 DEF SyncTmp, Files
    <3>4. CASE Rename(x)
      BY <3>4, EmptyIsContent DEF Rename, Files, Missing
    <3>5. QED
      BY <1>4, <3>1, <3>2, <3>3, <3>4
  <2>3. QED
    BY <1>4, <2>1, <2>2 DEF OpenTmp, WriteTmp, SyncTmp, Rename, Objects
<1>5. ASSUME NEW x \in Callers, Chmod(x) \/ StepFails(x) PROVE StoreStateOK'
  BY <1>5 DEF Chmod, StepFails, Returning, Calls, Steps, Gots, files, Objects
<1>6. ASSUME NEW x \in Callers, Unlock(x) PROVE StoreStateOK'
  <2>1. raced' \in BOOLEAN
    BY <1>6 DEF Unlock
  <2>2. w' \in [Callers -> Calls]
    BY <1>6, AsleepIsCall DEF Unlock, Goto, Calls, Steps
  <2>3. QED
    BY <1>6, <1>a, <2>1, <2>2 DEF Unlock, files, Objects
<1>7. ASSUME NEW x \in Callers, StoreNamed(x) PROVE StoreStateOK'
  <2>1. [w[x].op EXCEPT !.what = "store"] \in StoreOps
    BY <1>7 DEF StoreNamed, At, CreateAsks, Calls, StoreOps
  <2>2. QED
    BY <1>7, <2>1, AsleepIsCall DEF StoreNamed, Calls, Steps, files, Objects
<1>8. ASSUME NEW x \in Callers, NEW op \in StoreOps, CallStore(x, op) PROVE StoreStateOK'
  BY <1>8, AsleepIsCall DEF CallStore, Calls, Steps, files, Objects
<1>9. ASSUME NEW x \in Callers, NEW id \in Ids, CreateNamed(x, id) PROVE StoreStateOK'
  <2>1. Op("used", id, "n") \in StoreOps
    BY DEF Op, StoreOps
  <2>2. QED
    BY <1>9, <2>1, AsleepIsCall DEF CreateNamed, Calls, Steps, files, Objects
<1>10. CASE Settle \/ Crash \/ UNCHANGED storeVars
  BY <1>10, AsleepIsCall DEF Settle, Crash, storeVars, files, Objects
<1>11. CASE PowerLoss
  <2>1. \A f \in Files : OnDisk(f) \in Files
    BY DEF OnDisk, Files
  <2>2. QED
    BY <1>11, <2>1, AsleepIsCall DEF PowerLoss, Objects
<1>12. QED
  BY <1>1, <1>2, <1>3, <1>4, <1>5, <1>6, <1>7, <1>8, <1>9, <1>10, <1>11 DEF StoreNext, StoreStep

\* Only a synced file that parses is renamed to the store's name.
LEMMA FilesStep == StoreInv /\ [StoreNext]_storeVars => FilesWhole'
<1> SUFFICES ASSUME StoreInv, [StoreNext]_storeVars PROVE FilesWhole'
  OBVIOUS
<1> USE DEF StoreInv, FilesWhole
<1>1. ASSUME NEW x \in Callers, Rename(x) PROVE FilesWhole'
  BY <1>1 DEF Rename, At, WorksOnFile
<1>2. CASE PowerLoss
  BY <1>2 DEF PowerLoss, OnDisk
<1>3. CASE Settle
  BY <1>3 DEF Settle
<1>4. CASE UNCHANGED <<file, old>>
  BY <1>4
<1>5. QED
  BY <1>1, <1>2, <1>3, <1>4 DEF StoreNext, StoreStep, LockMutex, Flock, LoadOrInit, RunFn, OpenTmp, WriteTmp, SyncTmp,
         Chmod, Unlock, StoreNamed, StepFails, CallStore, CreateNamed, Crash, storeVars, files

\* A lock is taken when it is free and given back by the one that has it.
LEMMA LocksStep == StoreInv /\ [StoreNext]_storeVars => LocksHeld'
<1> SUFFICES ASSUME StoreInv, [StoreNext]_storeVars PROVE LocksHeld'
  OBVIOUS
<1> USE StoreAssumption DEF StoreInv, LocksHeld, StoreStateOK, Calls, Obj, Objects, Free, Working, Saving
<1>1. ASSUME NEW x \in Callers, LockMutex(x) PROVE LocksHeld'
  BY <1>1 DEF LockMutex, Goto, At, files
<1>2. ASSUME NEW x \in Callers, Flock(x) PROVE LocksHeld'
  BY <1>2 DEF Flock, Goto, At, files
<1>3. ASSUME NEW x \in Callers, LoadOrInit(x) PROVE LocksHeld'
  BY <1>3 DEF LoadOrInit, Returning, At, files
<1>4. ASSUME NEW x \in Callers, RunFn(x) PROVE LocksHeld'
  BY <1>4 DEF RunFn, Returning, At, files
<1>5. ASSUME NEW x \in Callers, OpenTmp(x) PROVE LocksHeld'
  BY <1>5 DEF OpenTmp, Goto, At
<1>6. ASSUME NEW x \in Callers, WriteTmp(x) PROVE LocksHeld'
  BY <1>6 DEF WriteTmp, Goto, At
<1>7. ASSUME NEW x \in Callers, SyncTmp(x) PROVE LocksHeld'
  BY <1>7 DEF SyncTmp, Goto, At
<1>8. ASSUME NEW x \in Callers, Rename(x) PROVE LocksHeld'
  BY <1>8 DEF Rename, Goto, Returning, At
<1>9. ASSUME NEW x \in Callers, Chmod(x) PROVE LocksHeld'
  BY <1>9 DEF Chmod, Returning, At, files
<1>10. ASSUME NEW x \in Callers, StepFails(x) PROVE LocksHeld'
  BY <1>10 DEF StepFails, Returning, files
<1>11. ASSUME NEW x \in Callers, Unlock(x) PROVE LocksHeld'
  BY <1>11 DEF Unlock, Goto, At, Asleep, files
<1>12. ASSUME NEW x \in Callers, StoreNamed(x) PROVE LocksHeld'
  BY <1>12 DEF StoreNamed, At, Asleep, files
<1>13. ASSUME NEW x \in Callers, \E op \in StoreOps : CallStore(x, op) PROVE LocksHeld'
  BY <1>13 DEF CallStore, At, Asleep, files
<1>14. ASSUME NEW x \in Callers, \E id \in Ids : CreateNamed(x, id) PROVE LocksHeld'
  BY <1>14 DEF CreateNamed, At, Asleep, files
<1>15. CASE Settle
  BY <1>15 DEF Settle
<1>16. CASE Crash
  BY <1>16 DEF Crash, Asleep, files
<1>17. CASE PowerLoss
  BY <1>17 DEF PowerLoss, Asleep
<1>18. CASE UNCHANGED storeVars
  BY <1>18 DEF storeVars
<1>19. QED
  BY <1>1, <1>2, <1>3, <1>4, <1>5, <1>6, <1>7, <1>8, <1>9, <1>10, <1>11, <1>12, <1>13, <1>14, <1>15, <1>16, <1>17, <1>18 DEF StoreNext, StoreStep

\* Only a create asks for a name, and only with an id of its own.
AllAsk == \A x \in Callers : CreateAsks(x)

\* Every step leaves each caller asking something the API can ask.
LEMMA AsksStep == StoreInv /\ [StoreNext]_storeVars => AllAsk'
<1> SUFFICES ASSUME StoreInv, [StoreNext]_storeVars PROVE AllAsk'
  OBVIOUS
<1> USE StoreAssumption, OpsAre DEF StoreInv, CreateAsks, AllAsk, StoreStateOK, Calls, Op
<1>1. ASSUME NEW x \in Callers, LockMutex(x) PROVE AllAsk'
  BY <1>1 DEF LockMutex, Goto, At, files
<1>2. ASSUME NEW x \in Callers, Flock(x) PROVE AllAsk'
  BY <1>2 DEF Flock, Goto, At, files
<1>3. ASSUME NEW x \in Callers, LoadOrInit(x) PROVE AllAsk'
  BY <1>3 DEF LoadOrInit, Returning, At, files
<1>4. ASSUME NEW x \in Callers, RunFn(x) PROVE AllAsk'
  BY <1>4 DEF RunFn, Returning, At, files
<1>5. ASSUME NEW x \in Callers, OpenTmp(x) PROVE AllAsk'
  BY <1>5 DEF OpenTmp, Goto, At
<1>6. ASSUME NEW x \in Callers, WriteTmp(x) PROVE AllAsk'
  BY <1>6 DEF WriteTmp, Goto, At
<1>7. ASSUME NEW x \in Callers, SyncTmp(x) PROVE AllAsk'
  BY <1>7 DEF SyncTmp, Goto, At
<1>8. ASSUME NEW x \in Callers, Rename(x) PROVE AllAsk'
  BY <1>8 DEF Rename, Goto, Returning, At
<1>9. ASSUME NEW x \in Callers, Chmod(x) PROVE AllAsk'
  BY <1>9 DEF Chmod, Returning, At, files
<1>10. ASSUME NEW x \in Callers, StepFails(x) PROVE AllAsk'
  BY <1>10 DEF StepFails, Returning, files
<1>11. ASSUME NEW x \in Callers, Unlock(x) PROVE AllAsk'
  BY <1>11 DEF Unlock, Goto, At, Asleep, files
<1>12. ASSUME NEW x \in Callers, StoreNamed(x) PROVE AllAsk'
  BY <1>12 DEF StoreNamed, At, Asleep, files
<1>13. ASSUME NEW x \in Callers, \E op \in StoreOps : op.what # "used" /\ CallStore(x, op) PROVE AllAsk'
  BY <1>13 DEF CallStore, At, Asleep, files
<1>14. ASSUME NEW x \in Callers, \E id \in Ids : CreateNamed(x, id) PROVE AllAsk'
  BY <1>14 DEF CreateNamed, At, Asleep, files
<1>15. CASE Settle
  BY <1>15 DEF Settle
<1>16. CASE Crash
  BY <1>16 DEF Crash, Asleep, files
<1>17. CASE PowerLoss
  BY <1>17 DEF PowerLoss, Asleep
<1>18. CASE UNCHANGED storeVars
  BY <1>18 DEF storeVars
<1>19. QED
  BY <1>1, <1>2, <1>3, <1>4, <1>5, <1>6, <1>7, <1>8, <1>9, <1>10, <1>11, <1>12, <1>13, <1>14, <1>15, <1>16, <1>17, <1>18 DEF StoreNext, StoreStep

\* Nobody changes the file between another caller's load and rename.
AllOnFile == \A x \in Callers : WorksOnFile(x)

\* Every step leaves each caller working on what the file held when it took the lock.
LEMMA OnFileStep == StoreInv /\ [StoreNext]_storeVars => AllOnFile'
<1> SUFFICES ASSUME StoreInv, [StoreNext]_storeVars PROVE AllOnFile'
  OBVIOUS
<1> USE DEF StoreInv, WorksOnFile, AllOnFile, StoreStateOK, Calls, LocksHeld, FilesWhole, Working, Saving, Content
<1>1. ASSUME NEW x \in Callers, LockMutex(x) PROVE AllOnFile'
  BY <1>1 DEF LockMutex, Goto, At, files
<1>2. ASSUME NEW x \in Callers, Flock(x) PROVE AllOnFile'
  BY <1>2 DEF Flock, Goto, At, files
<1>3. ASSUME NEW x \in Callers, LoadOrInit(x) PROVE AllOnFile'
  BY <1>3 DEF LoadOrInit, Returning, At, files
<1>4. ASSUME NEW x \in Callers, RunFn(x) PROVE AllOnFile'
  <2> DEFINE out == Outcome(kind, w[x].buf, w[x].op)
  <2>1. out = Said(out.content, out.got) /\ (w[x].op.what \notin Reads /\ out.got # "refused" => out.got = "ok")
    BY OutcomeIs DEF OutcomeOK
  <2>2. w[x].pc = "fn" /\ w[x].buf = Content(file)
    BY <1>4 DEF RunFn, At
  <2>3. CASE w[x].op.what \in Reads \/ out.got = "refused"
    BY <1>4, <2>3 DEF RunFn, Returning, files
  <2>4. CASE ~(w[x].op.what \in Reads \/ out.got = "refused")
    <3>1. w' = [w EXCEPT ![x].pc = "open", ![x].buf = out.content]
      BY <1>4, <2>4 DEF RunFn
    <3>2. Outcome(kind, Content(file), w[x].op) = Said(out.content, "ok")
      BY <2>1, <2>2, <2>4
    <3> HIDE DEF out
    <3>3. QED
      BY <1>4, <3>1, <3>2 DEF RunFn, files
  <2>5. QED
    BY <2>3, <2>4
<1>5. ASSUME NEW x \in Callers, OpenTmp(x) PROVE AllOnFile'
  BY <1>5 DEF OpenTmp, Goto, At
<1>6. ASSUME NEW x \in Callers, WriteTmp(x) PROVE AllOnFile'
  BY <1>6 DEF WriteTmp, Goto, At
<1>7. ASSUME NEW x \in Callers, SyncTmp(x) PROVE AllOnFile'
  BY <1>7 DEF SyncTmp, Goto, At
<1>8. ASSUME NEW x \in Callers, Rename(x) PROVE AllOnFile'
  BY <1>8 DEF Rename, Goto, Returning, At
<1>9. ASSUME NEW x \in Callers, Chmod(x) PROVE AllOnFile'
  BY <1>9 DEF Chmod, Returning, At, files
<1>10. ASSUME NEW x \in Callers, StepFails(x) PROVE AllOnFile'
  BY <1>10 DEF StepFails, Returning, files
<1>11. ASSUME NEW x \in Callers, Unlock(x) PROVE AllOnFile'
  BY <1>11 DEF Unlock, Goto, At, Asleep, files
<1>12. ASSUME NEW x \in Callers, StoreNamed(x) PROVE AllOnFile'
  BY <1>12 DEF StoreNamed, At, Asleep, files
<1>13. ASSUME NEW x \in Callers, \E op \in StoreOps : op.what # "used" /\ CallStore(x, op) PROVE AllOnFile'
  BY <1>13 DEF CallStore, At, Asleep, files
<1>14. ASSUME NEW x \in Callers, \E id \in Ids : CreateNamed(x, id) PROVE AllOnFile'
  BY <1>14 DEF CreateNamed, At, Asleep, files
<1>15. CASE Settle
  BY <1>15 DEF Settle
<1>16. CASE Crash
  BY <1>16 DEF Crash, Asleep, files
<1>17. CASE PowerLoss
  BY <1>17 DEF PowerLoss, Asleep
<1>18. CASE UNCHANGED storeVars
  BY <1>18 DEF storeVars
<1>19. QED
  BY <1>1, <1>2, <1>3, <1>4, <1>5, <1>6, <1>7, <1>8, <1>9, <1>10, <1>11, <1>12, <1>13, <1>14, <1>15, <1>16, <1>17, <1>18 DEF StoreNext, StoreStep

\* Two creates told that the name is free would have met at the unlock.
LEMMA NamesStep == StoreInv /\ [StoreNext]_storeVars => NamesApart'
<1> SUFFICES ASSUME StoreInv, [StoreNext]_storeVars PROVE NamesApart'
  OBVIOUS
<1> USE DEF StoreInv, NamesApart, StoreStateOK, Calls, CreateAsks, Cleared, Pending, ToldFree, Content, NameUsed, Distinct
<1>1. ASSUME NEW x \in Callers, LockMutex(x) PROVE NamesApart'
  BY <1>1 DEF LockMutex, Goto, At, files
<1>2. ASSUME NEW x \in Callers, Flock(x) PROVE NamesApart'
  BY <1>2 DEF Flock, Goto, At, files
<1>3. ASSUME NEW x \in Callers, LoadOrInit(x) PROVE NamesApart'
  BY <1>3 DEF LoadOrInit, Returning, At, files
<1>4. ASSUME NEW x \in Callers, RunFn(x) PROVE NamesApart'
  <2> DEFINE out == Outcome(kind, w[x].buf, w[x].op)
  <2>1. w[x].op.what = "used" /\ out.got = "free" => ~NameUsed(Content(file), "n")
    BY <1>4, OutcomeIs DEF OutcomeOK, RunFn, At, WorksOnFile
  <2> HIDE DEF out
  <2>2. /\ w[x].pc = "fn" /\ UNCHANGED <<kind, file, old, raced>>
        /\ IF w[x].op.what \in Reads \/ out.got = "refused" THEN Returning(x, out.got)
           ELSE w' = [w EXCEPT ![x].pc = "open", ![x].buf = out.content]
    BY <1>4 DEF RunFn, At, files, out
  <2>3. \A y \in Callers : (Cleared(y)' => Cleared(y)) /\ ((Pending(y) \/ ToldFree(y))' => Pending(y) \/ (y = x /\ w[x].op.what = "used" /\ out.got = "free") \/ ToldFree(y))
    BY <2>2 DEF Returning
  <2> USE DEF Content
  <2>4. Content(file)' = Content(file)
    BY <2>2
  <2> HIDE DEF Content, Cleared, Pending, ToldFree, NameUsed, Distinct
  <2>5. QED
    BY <2>1, <2>2, <2>3, <2>4 DEF NameUsed, Distinct
<1>5. ASSUME NEW x \in Callers, OpenTmp(x) PROVE NamesApart'
  BY <1>5 DEF OpenTmp, Goto, At
<1>6. ASSUME NEW x \in Callers, WriteTmp(x) PROVE NamesApart'
  BY <1>6 DEF WriteTmp, Goto, At
<1>7. ASSUME NEW x \in Callers, SyncTmp(x) PROVE NamesApart'
  BY <1>7 DEF SyncTmp, Goto, At
<1>8. ASSUME NEW x \in Callers, Rename(x) PROVE NamesApart'
  <2> SUFFICES ASSUME kind.manager.named, ~raced
               PROVE  /\ Distinct(file'.map) /\ Distinct(old'.map)
                      /\ \A y, z \in Callers : Cleared(y)' /\ Cleared(z)' => y = z
                      /\ \A y \in Callers : (Pending(y) \/ ToldFree(y))' => ~NameUsed(Content(file)', "n")
    BY <1>8 DEF Rename
  <2>1. /\ w[x].pc = "rename" /\ file' = tmp /\ tmp.map = w[x].buf /\ tmp.there
        /\ Outcome(kind, Content(file), w[x].op) = Said(w[x].buf, "ok") /\ UNCHANGED <<old, kind>>
        /\ w' \in {[w EXCEPT ![x].pc = "chmod"], [w EXCEPT ![x].pc = "unlock", ![x].got = "ok"]}
    BY <1>8 DEF Rename, At, Goto, Returning, WorksOnFile, Saving
  <2>2. OutcomeOK(Content(file), w[x].op, w[x].buf, "ok")
    BY <2>1, OutcomeIs, ContentIs DEF Said
  <2>3. Distinct(Content(file))
    BY ContentIs
  <2>4. w[x].op.what = "store" => Pending(x)
    BY <2>1
  <2>5. Content(file)' = w[x].buf
    BY <2>1
  <2>6. \A y \in Callers : (Cleared(y)' => Cleared(y)) /\ ((Pending(y) \/ ToldFree(y))' => y # x /\ (Pending(y) \/ ToldFree(y)))
    BY <2>1
  <2>7. \A y \in Callers \ {x} : ~ToldFree(y)
    BY <2>1 DEF LocksHeld, Working, Saving
  <2>8. Distinct(file'.map) /\ Distinct(old'.map)
    <3> HIDE DEF Content, Cleared, Pending, ToldFree, NameUsed, Distinct
    <3>1. QED
      BY <2>1, <2>2, <2>3, <2>4 DEF OutcomeOK
  <2>9. \A y, z \in Callers : Cleared(y)' /\ Cleared(z)' => y = z
    BY <2>6
  <2>10. ASSUME NEW y \in Callers, (Pending(y) \/ ToldFree(y))' PROVE ~NameUsed(Content(file)', "n")
    <3>1. Pending(y) /\ y # x /\ Cleared(y)
      BY <2>6, <2>7, <2>10
    <3>2. w[x].op.what # "store"
      BY <2>4, <3>1
    <3>3. ~NameUsed(Content(file), "n")
      BY <3>1
    <3> HIDE DEF Content, NameUsed
    <3>4. QED
      BY <2>2, <2>5, <3>2, <3>3 DEF OutcomeOK
  <2>11. QED
    BY <2>8, <2>9, <2>10
<1>9. ASSUME NEW x \in Callers, Chmod(x) PROVE NamesApart'
  BY <1>9 DEF Chmod, Returning, At, files
<1>10. ASSUME NEW x \in Callers, StepFails(x) PROVE NamesApart'
  BY <1>10 DEF StepFails, Returning, files
<1>11. ASSUME NEW x \in Callers, Unlock(x) PROVE NamesApart'
  <2> DEFINE told == w[x].op.what = "used" /\ w[x].got \in {"free", "error"}
  <2>1. w[x].pc = "unlock" /\ UNCHANGED <<kind, file, old>> /\ Content(file)' = Content(file)
    BY <1>11 DEF Unlock, At, files
  <2>2. CASE ~told
    BY <1>11, <2>1, <2>2 DEF Unlock, Asleep
  <2>3. CASE told /\ ~raced'
    <3>1. /\ ~raced /\ w[x].got = "free" /\ \A y \in Callers \ {x} : ~Creating(y, w[x].op.name)
          /\ w' = [w EXCEPT ![x].pc = "named"]
      BY <1>11, <2>3 DEF Unlock, Goto
    <3>2. \A y \in Callers : w[y].op.name = "n"
      BY OpsAre
    <3>3. \A y \in Callers \ {x} : ~Cleared(y)
      BY <3>1, <3>2 DEF Creating
    <3>4. \A y \in Callers \ {x} : ~Cleared(y)' /\ (ToldFree(y)' => ToldFree(y))
      BY <3>1, <3>3
    <3>5. ToldFree(x)
      BY <2>1, <2>3, <3>1
    <3> HIDE DEF Content, Cleared, ToldFree, NameUsed, Distinct
    <3>6. QED
      BY <2>1, <3>1, <3>4, <3>5 DEF NameUsed, Distinct
  <2>4. QED
    BY <2>2, <2>3
<1>12. ASSUME NEW x \in Callers, StoreNamed(x) PROVE NamesApart'
  BY <1>12 DEF StoreNamed, At, Asleep, files
<1>13. ASSUME NEW x \in Callers, \E op \in StoreOps : op.what # "used" /\ CallStore(x, op) PROVE NamesApart'
  BY <1>13 DEF CallStore, At, Asleep, files
<1>14. ASSUME NEW x \in Callers, \E id \in Ids : CreateNamed(x, id) PROVE NamesApart'
  BY <1>14 DEF CreateNamed, At, Asleep, Op, files
<1>15. CASE Settle
  BY <1>15 DEF Settle
<1>16. CASE Crash
  BY <1>16 DEF Crash, Asleep, files
<1>17. CASE PowerLoss
  BY <1>17 DEF PowerLoss, Asleep, OnDisk, FilesWhole
<1>18. CASE UNCHANGED storeVars
  BY <1>18 DEF storeVars
<1>19. QED
  BY <1>1, <1>2, <1>3, <1>4, <1>5, <1>6, <1>7, <1>8, <1>9, <1>10, <1>11, <1>12, <1>13, <1>14, <1>15, <1>16, <1>17, <1>18 DEF StoreNext, StoreStep

\* Every step of the stores keeps the invariant.
LEMMA StoreInvStep == StoreInv /\ [StoreNext]_storeVars => StoreInv'
BY StoreTypeStep, FilesStep, LocksStep, AsksStep, OnFileStep, NamesStep DEF StoreInv, AllAsk, AllOnFile

\* The file of a store always parses, one caller at a time works on it whatever
\* store object it uses, no lock is left behind, and a name is used twice only
\* if two creates asked for it at the same time or a check of it failed.
THEOREM StoresSound == StoreSpec => []StoreSound
<1>1. StoreInv => StoreSound
  <2> SUFFICES ASSUME StoreInv PROVE StoreSound
    OBVIOUS
  <2>1. StoreTypeOK
    BY ContentsAre DEF StoreInv, StoreStateOK, StoreTypeOK, Files, Calls, Keys
  <2>2. NeverBroken
    BY DEF StoreInv, FilesWhole, NeverBroken, OnDisk
  <2>3. OneAtATime
    BY StoreAssumption DEF StoreInv, StoreStateOK, LocksHeld, OneAtATime, Working, Saving, Free, Obj, Objects
  <2>4. NamesUnique
    BY DEF StoreInv, NamesApart, NamesUnique, Distinct
  <2>5. QED
    BY <2>1, <2>2, <2>3, <2>4 DEF StoreSound
<1>2. QED
  BY <1>1, StoreInitially, StoreInvStep, PTL DEF StoreSpec

-----------------------------------------------------------------------------
(***************************************************************************)
(* The protocol implements LockedStore                                      *)
(***************************************************************************)
\* A step that changes neither the files nor what a caller is known to have
\* asked or got is a stuttering step of LockedStore.
LEMMA SameCalls ==
    ASSUME UNCHANGED <<file, old, kind>>, \A x \in Callers : CallOf(x)' = CallOf(x)
    PROVE  UNCHANGED Abstract!lsVars
BY DEF Abstract!lsVars, Content

\* A step that changes what one caller is known to have asked or got.
LEMMA OneCall ==
    ASSUME NEW x \in Callers, NEW r, CallOf(x)' = r, \A y \in Callers \ {x} : CallOf(y)' = CallOf(y)
    PROVE  /\ [y \in Callers |-> CallOf(y)]' = [[y \in Callers |-> CallOf(y)] EXCEPT ![x] = r]
           /\ [y \in Callers |-> CallOf(y)][x] = CallOf(x)
OBVIOUS

\* What a file says depends on the file and the kind of store alone.
LEMMA SameContent == ASSUME UNCHANGED <<file, old, kind>> PROVE Content(file)' = Content(file) /\ Content(old)' = Content(old)
BY DEF Content

\* With nobody at work, every caller is known to be idle.
LEMMA NobodyCalls == ASSUME w' = [x \in Callers |-> Asleep] PROVE [x \in Callers |-> CallOf(x)]' = [x \in Callers |-> Abstract!NoCall]
BY DEF CallOf, Asleep, Abstract!NoCall

\* An update takes effect with the rename, a read or a refused update when its
\* function is run, and the lock file keeps the content in between.
LEMMA StoreImplementsStep == StoreInv /\ [StoreNext]_storeVars => [Abstract!LSNext]_(Abstract!lsVars)
<1> SUFFICES ASSUME StoreInv, [StoreNext]_storeVars PROVE Abstract!LSNext \/ UNCHANGED Abstract!lsVars
  OBVIOUS
<1> USE DEF StoreInv, StoreStateOK
<1> DEFINE Others(x) == \A y \in Callers \ {x} : CallOf(y)' = CallOf(y)
           Called(x) == [pc |-> "called", op |-> w[x].op]
           Got(got) == [pc |-> "returns", got |-> got]
<1>1. ASSUME NEW x \in Callers, LockMutex(x) \/ Flock(x) \/ LoadOrInit(x) \/ OpenTmp(x) \/ WriteTmp(x) \/ SyncTmp(x)
      PROVE  UNCHANGED Abstract!lsVars
  <2>1. UNCHANGED <<file, old, kind>> /\ \A y \in Callers : CallOf(y)' = CallOf(y)
    BY <1>1 DEF LockMutex, Flock, LoadOrInit, OpenTmp, WriteTmp, SyncTmp, Goto, At, files, CallOf, Calls, FilesWhole
  <2>2. QED
    BY <2>1, SameCalls
<1>2. ASSUME NEW x \in Callers, RunFn(x) PROVE Abstract!LSNext \/ UNCHANGED Abstract!lsVars
  <2> DEFINE out == Outcome(kind, w[x].buf, w[x].op)
  <2>1. /\ w[x].buf = Content(file) /\ w[x].pc = "fn" /\ UNCHANGED <<file, old, kind>>
        /\ w[x].op.what \in Reads \/ out.got = "refused" => out.content = Content(file)
    BY <1>2, OutcomeIs DEF RunFn, At, WorksOnFile, files, Calls, OutcomeOK
  <2>2. CASE ~(w[x].op.what \in Reads \/ out.got = "refused")
    <3>1. \A y \in Callers : CallOf(y)' = CallOf(y)
      BY <1>2, <2>1, <2>2 DEF RunFn, CallOf, Calls
    <3>2. QED
      BY <2>1, <3>1, SameCalls
  <2>3. CASE w[x].op.what \in Reads \/ out.got = "refused"
    <3>1. w' = [w EXCEPT ![x].pc = "unlock", ![x].got = out.got]
      BY <1>2, <2>3 DEF RunFn, Returning
    <3> HIDE DEF out
    <3>2. CallOf(x) = Called(x) /\ CallOf(x)' = Got(out.got) /\ Others(x)
      BY <2>1, <3>1 DEF CallOf, Calls
    <3>3. Abstract!LSApply(x)
      BY <2>1, <2>3, <3>2, OneCall, SameContent DEF Abstract!LSApply, out
    <3>4. QED
      BY <3>3 DEF Abstract!LSNext
  <2>4. QED
    BY <2>2, <2>3
<1>3. ASSUME NEW x \in Callers, Rename(x) PROVE Abstract!LSNext
  <2>1. /\ w[x].pc = "rename" /\ file' = tmp /\ tmp.there /\ tmp.map = w[x].buf /\ UNCHANGED <<old, kind>>
        /\ Outcome(kind, Content(file), w[x].op) = Said(w[x].buf, "ok")
    BY <1>3 DEF Rename, At, WorksOnFile, Saving
  <2>2. CallOf(x) = Called(x) /\ CallOf(x)' = Got("ok") /\ Others(x)
    BY <1>3, <2>1 DEF Rename, Goto, Returning, CallOf, Calls
  <2>3. Content(file)' = w[x].buf /\ Content(old)' = Content(old)
    BY <2>1 DEF Content
  <2>4. Abstract!LSApply(x)
    BY <2>1, <2>2, <2>3, OneCall DEF Abstract!LSApply, Said
  <2>5. QED
    BY <2>4 DEF Abstract!LSNext
<1>4. ASSUME NEW x \in Callers, Chmod(x) PROVE Abstract!LSNext \/ UNCHANGED Abstract!lsVars
  <2>1. w[x].pc = "chmod" /\ kind.private /\ UNCHANGED <<file, old, kind>> /\ CallOf(x) = Got("ok") /\ Others(x)
    BY <1>4 DEF Chmod, At, WorksOnFile, files, Returning, CallOf, Calls
  <2>2. CASE Returning(x, "ok")
    <3>1. CallOf(x)' = Got("ok")
      BY <2>2 DEF Returning, CallOf, Calls
    <3>2. QED
      BY <2>1, <3>1, SameCalls
  <2>3. CASE Returning(x, "error")
    <3>1. CallOf(x)' = Got("error")
      BY <2>3 DEF Returning, CallOf, Calls
    <3>2. Abstract!LSLateError(x)
      BY <2>1, <3>1, OneCall, SameContent DEF Abstract!LSLateError
    <3>3. QED
      BY <3>2 DEF Abstract!LSNext
  <2>4. QED
    BY <1>4, <2>2, <2>3 DEF Chmod
<1>5. ASSUME NEW x \in Callers, StepFails(x) PROVE Abstract!LSNext
  <2>1. UNCHANGED <<file, old, kind>> /\ CallOf(x) = Called(x) /\ CallOf(x)' = Got("error") /\ Others(x)
    BY <1>5 DEF StepFails, Returning, CallOf, Calls, files
  <2>2. Abstract!LSFail(x)
    BY <2>1, OneCall, SameContent DEF Abstract!LSFail
  <2>3. QED
    BY <2>2 DEF Abstract!LSNext
<1>6. ASSUME NEW x \in Callers, Unlock(x) PROVE Abstract!LSNext
  <2>1. UNCHANGED <<file, old, kind>> /\ CallOf(x) = Got(w[x].got) /\ CallOf(x)' = Abstract!NoCall /\ Others(x)
    BY <1>6 DEF Unlock, At, Goto, CallOf, Calls, files, Asleep, Abstract!NoCall
  <2>2. Abstract!LSReturn(x)
    BY <2>1, OneCall, SameContent DEF Abstract!LSReturn
  <2>3. QED
    BY <2>2 DEF Abstract!LSNext
<1>7. ASSUME NEW x \in Callers, NEW op \in StoreOps, UNCHANGED <<file, old, kind>>, w[x].pc \in {"idle", "named"},
             w'[x].pc = "mutex", w'[x].op = op, \A y \in Callers \ {x} : w'[y] = w[y]
      PROVE  Abstract!LSNext
  <2>1. CallOf(x) = Abstract!NoCall /\ CallOf(x)' = [pc |-> "called", op |-> op] /\ Others(x)
    BY <1>7 DEF CallOf, Abstract!NoCall
  <2>2. Abstract!LSCall(x, op)
    BY <1>7, <2>1, OneCall, SameContent DEF Abstract!LSCall
  <2>3. QED
    BY <2>2 DEF Abstract!LSNext
<1>8. ASSUME NEW x \in Callers, StoreNamed(x) PROVE Abstract!LSNext
  <2>1. [w[x].op EXCEPT !.what = "store"] \in StoreOps
    BY <1>8 DEF StoreNamed, At, CreateAsks, Calls, StoreOps
  <2>2. QED
    BY <1>7, <1>8, <2>1 DEF StoreNamed, At, files, Asleep
<1>9. ASSUME NEW x \in Callers, NEW op \in StoreOps, CallStore(x, op) PROVE Abstract!LSNext
  BY <1>7, <1>9 DEF CallStore, At, files, Asleep
<1>10. ASSUME NEW x \in Callers, NEW id \in Ids, CreateNamed(x, id) PROVE Abstract!LSNext
  <2>1. Op("used", id, "n") \in StoreOps
    BY DEF Op, StoreOps
  <2>2. QED
    BY <1>7, <1>10, <2>1 DEF CreateNamed, At, files, Asleep
<1>11. CASE Settle
  <2>1. Content(old)' = Content(file) /\ Content(file)' = Content(file) /\ kind' = kind /\ \A x \in Callers : CallOf(x)' = CallOf(x)
    BY <1>11 DEF Settle, Content, CallOf
  <2>2. Abstract!LSSettle
    BY <2>1 DEF Abstract!LSSettle
  <2>3. QED
    BY <2>2 DEF Abstract!LSNext
<1>12. CASE Crash
  <2>1. UNCHANGED <<file, old, kind>>
    BY <1>12 DEF Crash, files
  <2>2. Abstract!LSCrash
    BY <1>12, <2>1, NobodyCalls, SameContent DEF Crash, Abstract!LSCrash
  <2>3. QED
    BY <2>2 DEF Abstract!LSNext
<1>13. CASE PowerLoss
  <2>1. kind' = kind /\ file' \in {file, old} /\ old' = file'
    BY <1>13 DEF PowerLoss, OnDisk, FilesWhole
  <2>2. Content(file)' \in {Content(file), Content(old)} /\ Content(old)' = Content(file)'
    BY <2>1 DEF Content
  <2>3. Abstract!LSCrash
    BY <1>13, <2>1, <2>2, NobodyCalls DEF PowerLoss, Abstract!LSCrash
  <2>4. QED
    BY <2>3 DEF Abstract!LSNext
<1>14. CASE UNCHANGED storeVars
  <2>1. UNCHANGED <<file, old, kind>> /\ \A x \in Callers : CallOf(x)' = CallOf(x)
    BY <1>14 DEF storeVars, CallOf
  <2>2. QED
    BY <2>1, SameCalls
<1>15. QED
  BY <1>1, <1>2, <1>3, <1>4, <1>5, <1>6, <1>8, <1>9, <1>10, <1>11, <1>12, <1>13, <1>14 DEF StoreNext, StoreStep

\* Callers of a store see LockedStore: each operation takes effect at once or
\* not at all, whatever fails, and a loss of power brings back an earlier state
\* at worst.
THEOREM StoreRefinesLockedStore == StoreSpec => StoreImplements
<1>1. StoreInit => Abstract!LSInit
  <2> SUFFICES ASSUME StoreInit PROVE Abstract!LSInit
    OBVIOUS
  <2>1. old = file /\ \A x \in Callers : CallOf(x) = Abstract!NoCall
    BY DEF StoreInit, CallOf, Asleep, Abstract!NoCall
  <2>2. QED
    BY <2>1 DEF Abstract!LSInit, Content
<1>2. QED
  BY <1>1, StoreInitially, StoreInvStep, StoreImplementsStep, PTL DEF StoreSpec, StoreImplements, Abstract!LSSpec

-----------------------------------------------------------------------------
(* Images: pulls, removals, status queries and the storing of builds, whose  *)
(* steps come in any order and may fail at any of them.                      *)

LayerNames == {"base", "app1", "app2"}
ImgBlobs == ({"config"} \X {0, 1, 2}) \cup ({"layer"} \X LayerNames)
DirFiles == [there : BOOLEAN, root : BOOLEAN, config : {0, 1, 2, Built}, manifest : BOOLEAN, blobs : SUBSET ImgBlobs,
             tree : SUBSET (LayerNames \cup {"built"})]
PullPcs == {"mkdir", "token", "manifest", "blobs", "config", "layers", "store", "undo"}
RemoveImgPcs == {"files", "entry"}
StatusPcs == {"told", "drop", "dropfiles"}
BuildPcs == {"check", "clear", "copy", "wconfig", "store"}
ImgPcs == {"idle"} \cup PullPcs \cup RemoveImgPcs \cup StatusPcs \cup BuildPcs
ImgCalls == [pc : ImgPcs, op : {"none", "pull", "remove", "status", "build"}, key : ImageKeys \cup {<<>>},
             dir : DirNames \cup {<<>>}, v : {0, 1, 2}, i : {0, 1, 2, 3}, met : BOOLEAN,
             got : {"none", "pulled", "failed", "removed", "told", "lost", "built"}]
ImgTyped ==
    /\ DOMAIN ilm \subseteq ImageKeys /\ \A k \in DOMAIN ilm : ilm[k] \in DirNames
    /\ disk \in [DirNames -> DirFiles] /\ img \in [ImgReqs -> ImgCalls] /\ tag \in {1, 2}
    /\ spoiled \subseteq DirNames /\ stray \subseteq DirNames

\* Requests that work in one directory have met.
AtWork(q) == q.pc # "idle"
Meet == \A r, x \in ImgReqs : r # x /\ AtWork(img[r]) /\ AtWork(img[x]) /\ img[r].dir = img[x].dir => img[r].met

\* Nothing is in a directory that is not there.
Bare == \A d \in DirNames : ~disk[d].there => disk[d] = NoFiles

\* The layers of the version its config names are all there.
Whole(f) == f.root /\ IF f.config = Built THEN "built" \in f.tree ELSE ToSet(LayersOf(f.config)) \subseteq f.tree

\* What a request that met no other has made of its directory.
Filled(q, f) ==
    /\ q.op = "pull" => /\ q.pc \in {"manifest", "blobs", "config", "token", "layers", "store"} => f.there /\ f.root
                        /\ q.pc \in {"layers", "store"} => f.config = q.v
                        /\ q.pc = "layers" /\ q.i = 2 => LayersOf(q.v)[1] \in f.tree
                        /\ q.pc = "store" => Whole(f)
    /\ q.op = "build" => /\ q.pc \in {"wconfig", "store"} => f.there /\ f.root /\ "built" \in f.tree
                         /\ q.pc = "store" => f.config = Built

\* Which operation a step belongs to, and how far a pull has come.
CallFits(q) ==
    /\ q.pc \in {"idle"} \/ (q.dir \in DirNames /\ q.key \in ImageKeys)
    /\ q.pc \in PullPcs \ {"store"} => q.op = "pull"
    /\ q.pc = "store" => q.op \in {"pull", "build"}
    /\ q.pc \in RemoveImgPcs => q.op = "remove"
    /\ q.pc \in StatusPcs => q.op = "status"
    /\ q.pc \in BuildPcs \ {"store"} => q.op = "build"
    /\ q.op = "pull" /\ q.pc \in {"blobs", "config", "layers", "store"} => q.v \in {1, 2}
    /\ q.pc \in {"mkdir", "token", "manifest"} => q.i = 0
    /\ q.pc = "blobs" => q.i \in {0, 1, 2}
    /\ q.pc = "layers" => q.i \in {1, 2}

\* Somebody takes care of files without an entry.
Cares(q, d) == q.pc \notin {"idle", "told"} /\ q.dir = d
Cared == \A d \in DirNames \ stray : disk[d].there => Owned(d) \/ \E r \in ImgReqs : Cares(img[r], d)

\* What every reachable state satisfies; each step preserves it.
ImageInv ==
    /\ ImgTyped /\ Meet /\ Bare /\ PresentIsComplete /\ Cared
    /\ \A r \in ImgReqs : CallFits(img[r]) /\ (AtWork(img[r]) /\ ~img[r].met => Filled(img[r], disk[img[r].dir]))

\* A set of numbers that is not empty has a least one.
LEMMA LowestIndex ==
    ASSUME NEW S \in SUBSET Nat, S # {}
    PROVE  \E m \in S : \A y \in S : m <= y
<1>1. PICK T : T = {1 .. i : i \in S}
  OBVIOUS
<1>2. T \subseteq FiniteSubsetsOf(Nat) /\ T # {}
  <2>1. \A i \in S : 1 .. i \in SUBSET Nat /\ IsFiniteSet(1 .. i)
    BY FS_Interval
  <2> QED
    BY <1>1, <2>1 DEF FiniteSubsetsOf
<1>3. PICK x \in T : \A y \in T : ~(<<y, x>> \in StrictSubsetOrdering(Nat))
  BY <1>2, FS_StrictSubsetOrderingWellFounded, WFMin
<1>4. PICK m \in S : x = 1 .. m
  BY <1>1
<1>5. ASSUME NEW y \in S PROVE m <= y
  <2>1. 1 .. y \in T /\ 1 .. y \in SUBSET Nat /\ x \in SUBSET Nat
    BY <1>1, <1>4
  <2>2. 1 .. y \subseteq x => 1 .. y = x
    BY <1>3, <2>1 DEF StrictSubsetOrdering
  <2>3. SUFFICES ASSUME y < m PROVE FALSE
    OBVIOUS
  <2>4. 1 .. y \subseteq 1 .. m /\ m \in 1 .. m /\ m \notin 1 .. y
    BY <2>3
  <2> QED
    BY <1>4, <2>2, <2>4
<1> QED
  BY <1>5

\* What a search for a word returns: where it is, or 0 when it is nowhere.
LEMMA FirstIs ==
    ASSUME NEW s \in Seq(STRING), NEW x
    PROVE  /\ First(s, x) \in 0 .. Len(s)
           /\ First(s, x) # 0 => s[First(s, x)] = x
           /\ \A i \in 1 .. Len(s) : s[i] = x => First(s, x) # 0 /\ First(s, x) <= i
<1> DEFINE I == {i \in 1 .. Len(s) : s[i] = x}
<1>1. First(s, x) = IF I # {} THEN Min(I) ELSE 0
  BY DEF First, SelectInSeq
<1>2. Len(s) \in Nat /\ I \in SUBSET Nat
  OBVIOUS
<1>3. ASSUME I # {} PROVE Min(I) \in I /\ \A y \in I : Min(I) <= y
  <2>1. \E m \in I : \A y \in I : m <= y
    BY <1>2, <1>3, LowestIndex
  <2> QED
    BY <2>1 DEF Min
<1>4. CASE I = {}
  BY <1>1, <1>2, <1>4
<1>5. CASE I # {}
  <2>1. First(s, x) = Min(I) /\ Min(I) \in I /\ \A y \in I : Min(I) <= y
    BY <1>1, <1>3, <1>5
  <2> HIDE DEF I
  <2>2. PICK m \in I : First(s, x) = m /\ \A y \in I : m <= y
    BY <2>1
  <2> QED
    BY <1>2, <2>2 DEF I
<1> QED
  BY <1>4, <1>5

\* The same for a search from the end.
LEMMA LastIs ==
    ASSUME NEW s \in Seq(STRING), NEW x
    PROVE  /\ LastAt(s, x) \in 0 .. Len(s)
           /\ LastAt(s, x) # 0 => s[LastAt(s, x)] = x
           /\ \A i \in 1 .. Len(s) : s[i] = x => LastAt(s, x) # 0 /\ LastAt(s, x) >= i
<1> DEFINE I == {i \in 1 .. Len(s) : s[i] = x}
           J == {Len(s) - i : i \in I}
<1>1. LastAt(s, x) = IF I # {} THEN Max(I) ELSE 0
  BY DEF LastAt, SelectLastInSeq
<1>2. Len(s) \in Nat /\ I \in SUBSET Nat /\ \A i \in I : i \in 1 .. Len(s)
  OBVIOUS
<1>3. ASSUME I # {} PROVE Max(I) \in I /\ \A y \in I : Max(I) >= y
  <2>1. J \in SUBSET Nat /\ J # {}
    BY <1>2, <1>3
  <2>2. PICK j \in J : \A y \in J : j <= y
    BY <2>1, LowestIndex
  <2>3. PICK m \in I : j = Len(s) - m
    OBVIOUS
  <2>4. ASSUME NEW i \in I PROVE m >= i
    <3>1. Len(s) - i \in J
      OBVIOUS
    <3>2. Len(s) - m <= Len(s) - i
      BY <2>2, <2>3, <3>1
    <3> QED
      BY <1>2, <3>2
  <2>5. \E z \in I : \A y \in I : z >= y
    BY <2>4
  <2> QED
    BY <2>5 DEF Max
<1> QED
  BY <1>1, <1>2, <1>3

\* A name that is not ambiguous is one key to both parsers.
LEMMA ParsersAgree ==
    ASSUME ImageAssumption, NEW s \in ImageNames, ~Ambiguous(s)
    PROVE  HubImageRef(s) = ParseImageRef(s)
<1>1. s \in Seq(STRING) /\ Len(s) \in Nat
  BY DEF ImageAssumption
<1> DEFINE at == First(s, "@")
           colon == First(s, ":")
           last == LastAt(s, ":")
           end == LastAt(s, "/")
           parse == IF at # 0 THEN at ELSE colon
           hub == IF at # 0 THEN at ELSE IF last > end THEN last ELSE 0
           name == Before(s, parse)
           slash == First(name, "/")
<1>2. at \in 0 .. Len(s) /\ (at # 0 => s[at] = "@")
  BY <1>1, FirstIs
<1>3. colon \in 0 .. Len(s) /\ (colon # 0 => s[colon] = ":") /\ \A i \in 1 .. Len(s) : s[i] = ":" => colon # 0 /\ colon <= i
  BY <1>1, FirstIs
<1>4. last \in 0 .. Len(s) /\ (last # 0 => s[last] = ":") /\ \A i \in 1 .. Len(s) : s[i] = ":" => last # 0 /\ last >= i
  BY <1>1, LastIs
<1>5. end \in 0 .. Len(s) /\ (end # 0 => s[end] = "/")
  BY <1>1, LastIs
<1>6. /\ ~(at = 0 /\ colon # 0 /\ colon < end)
      /\ ~(slash # 0 /\ NormalizeRegistry(Before(name, slash)) = DefaultRegistry /\ First(After(name, slash), "/") = 0)
  BY DEF Ambiguous
<1>7. at = 0 /\ colon # 0 => After(s, last) # <<>> /\ (colon # last => colon < end)
  BY DEF ImageAssumption
<1>8. hub = parse /\ (at = 0 /\ colon # 0 => parse = last)
  <2> HIDE DEF at, colon, last, end, name, slash
  <2>1. CASE at # 0
    BY <2>1
  <2>2. CASE at = 0 /\ colon = 0
    <3>1. last = 0
      BY <1>3, <1>4, <2>2
    <3> QED
      BY <1>5, <2>2, <3>1
  <2>3. CASE at = 0 /\ colon # 0
    <3>1. colon = last /\ colon >= end
      BY <1>3, <1>4, <1>5, <1>6, <1>7, <2>3
    <3>2. colon # end
      BY <1>3, <1>5, <2>3
    <3> QED
      BY <1>3, <1>5, <2>3, <3>1, <3>2
  <2> QED
    BY <2>1, <2>2, <2>3
<1>9. (parse = 0 \/ (s[parse] = ":" /\ After(s, parse) = <<>>)) <=> parse = 0
  <2> HIDE DEF colon, last, end, name, slash
  <2>1. CASE at # 0
    BY <1>2, <2>1
  <2>2. CASE at = 0
    BY <1>7, <1>8, <2>2
  <2> QED
    BY <2>1, <2>2
<1> DEFINE ref == IF parse = 0 THEN <<"latest">> ELSE After(s, parse)
           named == slash # 0 /\ IsRegistryHost(Before(name, slash))
           reg == IF named THEN NormalizeRegistry(Before(name, slash)) ELSE DefaultRegistry
           repo == IF named THEN After(name, slash) ELSE name
           hubrepo == IF named THEN After(name, slash) ELSE IF slash = 0 THEN <<"library", "/">> \o name ELSE name
           pk == IF reg # DefaultRegistry THEN reg \o <<"/">> \o repo
                 ELSE IF First(repo, "/") = 0 THEN <<"library", "/">> \o repo ELSE repo
           hk == IF reg = DefaultRegistry THEN hubrepo ELSE reg \o <<"/">> \o hubrepo
<1>10. ParseImageRef(s) = <<pk, ref>>
  <2>1. ParseImageRef(s) = <<pk, IF parse = 0 \/ (s[parse] = ":" /\ After(s, parse) = <<>>) THEN <<"latest">> ELSE After(s, parse)>>
    BY Zenon DEF ParseImageRef
  <2> QED
    BY <1>9, <2>1
<1>11. HubImageRef(s) = <<hk, ref>>
  <2> DEFINE N(c) == Before(s, c)
             L(c) == First(N(c), "/")
             D(c) == L(c) # 0 /\ IsRegistryHost(Before(N(c), L(c)))
             R(c) == IF D(c) THEN NormalizeRegistry(Before(N(c), L(c))) ELSE DefaultRegistry
             P(c) == IF D(c) THEN After(N(c), L(c)) ELSE IF L(c) = 0 THEN <<"library", "/">> \o N(c) ELSE N(c)
             K(c) == <<IF R(c) = DefaultRegistry THEN P(c) ELSE R(c) \o <<"/">> \o P(c), IF c = 0 THEN <<"latest">> ELSE After(s, c)>>
  <2>1. HubImageRef(s) = K(hub)
    BY Zenon DEF HubImageRef
  <2>2. K(parse) = <<hk, ref>>
    BY Zenon
  <2>3. K(hub) = K(parse)
    <3> HIDE DEF K, hub, parse
    <3> QED
      BY <1>8
  <2> QED
    BY <2>1, <2>2, <2>3, Zenon
<1>12. hk = pk
  <2>1. CASE ~named
    <3>1. reg = DefaultRegistry /\ repo = name /\ (First(repo, "/") = 0 <=> slash = 0)
      BY <2>1
    <3>2. hk = hubrepo /\ pk = IF slash = 0 THEN <<"library", "/">> \o name ELSE name
      BY <3>1
    <3>3. hubrepo = IF slash = 0 THEN <<"library", "/">> \o name ELSE name
      BY <2>1
    <3> QED
      BY <3>2, <3>3
  <2>2. CASE named
    <3>1. repo = After(name, slash) /\ hubrepo = repo /\ slash # 0 /\ reg = NormalizeRegistry(Before(name, slash))
      BY <2>2
    <3>2. reg = DefaultRegistry => First(repo, "/") # 0
      BY <1>6, <3>1
    <3> HIDE DEF reg, repo, hubrepo
    <3> QED
      BY <3>1, <3>2
  <2> QED
    BY <2>1, <2>2
<1> QED
  <2> HIDE DEF hk, pk, ref
  <2> QED
    BY <1>10, <1>11, <1>12

\* A step of one request r in its directory d: what it may do to the entries,
\* the files and the histories so that the invariant stays.
ImageMoves(r, d, q) ==
    /\ img' = [img EXCEPT ![r] = q] /\ q \in ImgCalls /\ CallFits(q)
    /\ AtWork(q) => q.dir = d /\ q.met = img[r].met
    /\ AtWork(q) /\ ~q.met => Filled(q, disk'[d])
    /\ disk' \in [DirNames -> DirFiles] /\ \A e \in DirNames \ {d} : disk'[e] = disk[e]
    /\ ~disk'[d].there => disk'[d] = NoFiles
    /\ DOMAIN ilm' \subseteq ImageKeys
    /\ \A k \in DOMAIN ilm' : ilm'[k] # d => k \in DOMAIN ilm /\ ilm[k] = ilm'[k]
    /\ spoiled' \subseteq DirNames /\ \A e \in spoiled \ {d} : e \in spoiled'
    /\ Owned(d)' /\ d \notin spoiled' => disk'[d].config = 0 \/ Whole(disk'[d])
    /\ stray \subseteq stray' /\ stray' \subseteq DirNames
    /\ \A e \in DirNames \ {d} : Owned(e) => Owned(e)' \/ e \in stray'
    /\ d \in stray' \/ Owned(d)' \/ ~disk'[d].there \/ Cares(q, d)
    /\ tag' = tag

\* Complete of the model is Whole of a directory's files.
LEMMA WholeIsComplete ==
    ASSUME NEW d \in DirNames
    PROVE  (Complete(d) <=> Whole(disk[d])) /\ (Complete(d)' <=> Whole(disk'[d]))
BY DEF Complete, Whole

\* Any step of that shape preserves the invariant.
LEMMA MovesKeep ==
    ASSUME ImageInv, NEW r \in ImgReqs, NEW d \in DirNames, AtWork(img[r]), img[r].dir = d, NEW q, ImageMoves(r, d, q)
    PROVE  ImageInv'
<1>1. img \in [ImgReqs -> ImgCalls] /\ img' = [img EXCEPT ![r] = q] /\ q \in ImgCalls
  BY DEF ImageInv, ImgTyped, ImageMoves
<1>2. img' \in [ImgReqs -> ImgCalls] /\ img'[r] = q /\ \A x \in ImgReqs \ {r} : img'[x] = img[x]
  BY <1>1
<1>3. AtWork(q) => q.dir = d /\ q.met = img[r].met
  BY DEF ImageMoves
<1>4. Meet
  BY DEF ImageInv
<1>5. disk' \in [DirNames -> DirFiles] /\ \A e \in DirNames \ {d} : disk'[e] = disk[e]
  BY DEF ImageMoves
<1>6. \A k \in DOMAIN ilm' : ilm'[k] # d => k \in DOMAIN ilm /\ ilm[k] = ilm'[k]
  BY DEF ImageMoves
<1>7. ImgTyped'
  <2>1. DOMAIN ilm' \subseteq ImageKeys /\ spoiled' \subseteq DirNames /\ stray' \subseteq DirNames /\ tag' = tag
    BY DEF ImageMoves
  <2>2. \A k \in DOMAIN ilm' : ilm'[k] \in DirNames
    BY <1>6 DEF ImageInv, ImgTyped
  <2>3. tag' \in {1, 2}
    BY <2>1 DEF ImageInv, ImgTyped
  <2> QED
    BY <1>2, <1>5, <2>1, <2>2, <2>3 DEF ImgTyped
<1>8. Meet'
  <2> SUFFICES ASSUME NEW y \in ImgReqs, NEW x \in ImgReqs, y # x, AtWork(img'[y]), AtWork(img'[x]), img'[y].dir = img'[x].dir
               PROVE  img'[y].met
    BY DEF Meet
  <2>1. AtWork(img[y]) /\ AtWork(img[x]) /\ img[y].dir = img[x].dir /\ img'[y].met = img[y].met
    BY <1>2, <1>3
  <2> QED
    BY <1>4, <2>1 DEF Meet
<1>9. Bare'
  <2> SUFFICES ASSUME NEW e \in DirNames, ~disk'[e].there PROVE disk'[e] = NoFiles
    BY DEF Bare
  <2>1. CASE e = d
    BY <2>1 DEF ImageMoves
  <2>2. CASE e # d
    BY <1>5, <2>2 DEF ImageInv, Bare
  <2> QED
    BY <2>1, <2>2
<1>10. PresentIsComplete'
  <2> SUFFICES ASSUME NEW k \in DOMAIN ilm', disk'[ilm'[k]].config # 0, ilm'[k] \notin spoiled' PROVE Complete(ilm[k])'
    BY DEF PresentIsComplete, IsImageExist, Stored
  <2>1. ilm'[k] \in DirNames
    BY <1>7 DEF ImgTyped
  <2>2. Whole(disk'[ilm'[k]])
    <3>1. CASE ilm'[k] = d
      <4>1. Owned(d)'
        BY <3>1 DEF Owned
      <4> QED
        BY <3>1, <4>1 DEF ImageMoves
    <3>2. CASE ilm'[k] # d
      <4>1. k \in DOMAIN ilm /\ ilm[k] = ilm'[k] /\ disk'[ilm'[k]] = disk[ilm[k]]
        BY <1>5, <1>6, <2>1, <3>2
      <4>2. ilm[k] \notin spoiled
        BY <3>2, <4>1 DEF ImageMoves
      <4>3. Complete(ilm[k])
        BY <4>1, <4>2 DEF ImageInv, PresentIsComplete, IsImageExist, Stored
      <4> QED
        BY <2>1, <4>1, <4>3, WholeIsComplete
    <3> QED
      BY <3>1, <3>2
  <2> QED
    BY <2>1, <2>2 DEF Complete, Whole
<1>11. Cared'
  <2> SUFFICES ASSUME NEW e \in DirNames \ stray', disk'[e].there PROVE Owned(e)' \/ \E x \in ImgReqs : Cares(img'[x], e)
    BY DEF Cared
  <2>1. CASE e = d
    BY <1>2, <2>1 DEF ImageMoves
  <2>2. CASE e # d
    <3>1. e \in DirNames \ stray /\ disk[e].there
      BY <1>5, <2>2 DEF ImageMoves
    <3>2. CASE Owned(e)
      BY <2>2, <3>2 DEF ImageMoves
    <3>3. CASE ~Owned(e)
      <4>1. PICK x \in ImgReqs : Cares(img[x], e)
        BY <3>1, <3>3 DEF ImageInv, Cared
      <4>2. x # r
        BY <2>2, <4>1 DEF Cares
      <4> QED
        BY <1>2, <4>1, <4>2
    <3> QED
      BY <3>2, <3>3
  <2> QED
    BY <2>1, <2>2
<1>12. ASSUME NEW x \in ImgReqs PROVE CallFits(img'[x]) /\ (AtWork(img'[x]) /\ ~img'[x].met => Filled(img'[x], disk'[img'[x].dir]))
  <2>1. CASE x = r
    BY <1>2, <1>3, <2>1 DEF ImageMoves
  <2>2. CASE x # r
    <3>1. img'[x] = img[x] /\ CallFits(img[x])
      BY <1>2, <2>2 DEF ImageInv
    <3>2. ASSUME AtWork(img[x]), ~img[x].met PROVE Filled(img[x], disk'[img[x].dir])
      <4>1. img[x].dir # d
        BY <1>4, <2>2, <3>2 DEF Meet
      <4>2. img[x].dir \in DirNames
        BY <3>1, <3>2 DEF CallFits, AtWork
      <4>3. Filled(img[x], disk[img[x].dir])
        BY <3>2 DEF ImageInv
      <4> QED
        BY <1>5, <4>1, <4>2, <4>3
    <3> QED
      BY <3>1, <3>2
  <2> QED
    BY <2>1, <2>2
<1> QED
  BY <1>7, <1>8, <1>9, <1>10, <1>11, <1>12 DEF ImageInv

\* What the invariant says of a request at work and of its directory.
LEMMA CallTyped ==
    ASSUME ImageInv, NEW r \in ImgReqs, AtWork(img[r])
    PROVE  /\ img[r] \in ImgCalls /\ img[r].dir \in DirNames /\ img[r].key \in ImageKeys
           /\ CallFits(img[r]) /\ disk[img[r].dir] \in DirFiles
           /\ ~disk[img[r].dir].there => disk[img[r].dir] = NoFiles
           /\ ~img[r].met => Filled(img[r], disk[img[r].dir])
           /\ Owned(img[r].dir) /\ img[r].dir \notin spoiled => disk[img[r].dir].config = 0 \/ Whole(disk[img[r].dir])
<1>1. img[r] \in ImgCalls /\ CallFits(img[r]) /\ (~img[r].met => Filled(img[r], disk[img[r].dir]))
  BY DEF ImageInv, ImgTyped
<1>2. img[r].dir \in DirNames /\ img[r].key \in ImageKeys
  BY <1>1 DEF CallFits, AtWork
<1>3. disk[img[r].dir] \in DirFiles /\ (~disk[img[r].dir].there => disk[img[r].dir] = NoFiles)
  BY <1>2 DEF ImageInv, ImgTyped, Bare
<1>4. ASSUME Owned(img[r].dir), img[r].dir \notin spoiled, disk[img[r].dir].config # 0 PROVE Whole(disk[img[r].dir])
  <2>1. PICK k \in DOMAIN ilm : ilm[k] = img[r].dir
    BY <1>4 DEF Owned
  <2>2. Complete(ilm[k])
    BY <1>4, <2>1 DEF ImageInv, PresentIsComplete, IsImageExist, Stored
  <2> QED
    BY <2>1, <2>2 DEF Complete, Whole
<1> QED
  BY <1>1, <1>2, <1>3, <1>4

\* A step that leaves the entries alone: f is what its directory then holds.
LEMMA FilesMove ==
    ASSUME ImageInv, NEW r \in ImgReqs, AtWork(img[r]), NEW q \in ImgCalls, NEW f \in DirFiles,
           img' = [img EXCEPT ![r] = q], disk' = [disk EXCEPT ![img[r].dir] = f], UNCHANGED <<ilm, tag, stray>>,
           CallFits(q), AtWork(q) => q.dir = img[r].dir /\ q.met = img[r].met, AtWork(q) /\ ~q.met => Filled(q, f),
           ~f.there => f = NoFiles,
           spoiled' \subseteq DirNames, \A e \in spoiled \ {img[r].dir} : e \in spoiled',
           Owned(img[r].dir) /\ img[r].dir \notin spoiled' => f.config = 0 \/ Whole(f),
           Cares(q, img[r].dir) \/ ~f.there \/ Owned(img[r].dir)
    PROVE  ImageInv'
<1>1. PICK d \in DirNames : d = img[r].dir
  BY CallTyped
<1>2. ImgTyped
  BY DEF ImageInv
<1>3. disk' \in [DirNames -> DirFiles] /\ disk'[d] = f /\ \A e \in DirNames \ {d} : disk'[e] = disk[e]
  BY <1>1, <1>2 DEF ImgTyped
<1>4. \A e : Owned(e)' <=> Owned(e)
  BY DEF Owned
<1>5. DOMAIN ilm' \subseteq ImageKeys /\ stray' \subseteq DirNames
  BY <1>2 DEF ImgTyped
<1>6. /\ \A k \in DOMAIN ilm' : ilm'[k] # d => k \in DOMAIN ilm /\ ilm[k] = ilm'[k]
      /\ \A e \in DirNames \ {d} : Owned(e) => Owned(e)' \/ e \in stray'
      /\ Owned(d)' /\ d \notin spoiled' => disk'[d].config = 0 \/ Whole(disk'[d])
      /\ d \in stray' \/ Owned(d)' \/ ~disk'[d].there \/ Cares(q, d)
      /\ stray \subseteq stray'
      /\ ~disk'[d].there => disk'[d] = NoFiles
      /\ AtWork(q) /\ ~q.met => Filled(q, disk'[d])
  <2>1. Owned(d)' <=> Owned(d)
    BY <1>4
  <2>2. \A k \in DOMAIN ilm' : ilm'[k] # d => k \in DOMAIN ilm /\ ilm[k] = ilm'[k]
    OBVIOUS
  <2>3. \A e \in DirNames \ {d} : Owned(e) => Owned(e)' \/ e \in stray'
    BY <1>4
  <2>4. Owned(d)' /\ d \notin spoiled' => f.config = 0 \/ Whole(f)
    BY <1>1, <2>1
  <2>5. Owned(d) \/ ~f.there \/ Cares(q, d)
    BY <1>1
  <2>6. stray \subseteq stray' /\ (~f.there => f = NoFiles) /\ (AtWork(q) /\ ~q.met => Filled(q, f))
    OBVIOUS
  <2> QED
    BY <1>3, <2>1, <2>2, <2>3, <2>4, <2>5, <2>6
<1>7. ImageMoves(r, d, q)
  <2>1. AtWork(q) => q.dir = d /\ q.met = img[r].met
    BY <1>1
  <2>2. spoiled' \subseteq DirNames /\ \A e \in spoiled \ {d} : e \in spoiled'
    BY <1>1
  <2>3. disk' \in [DirNames -> DirFiles] /\ \A e \in DirNames \ {d} : disk'[e] = disk[e]
    BY <1>3
  <2>4. img' = [img EXCEPT ![r] = q] /\ q \in ImgCalls /\ CallFits(q) /\ tag' = tag
    OBVIOUS
  <2> QED
    BY <1>5, <1>6, <2>1, <2>2, <2>3, <2>4, Zenon DEF ImageMoves
<1> QED
  BY <1>1, <1>7, MovesKeep

\* An image has two layers.
LEMMA LayersAre ==
    ASSUME NEW v
    PROVE  /\ Len(LayersOf(v)) = 2 /\ LayersOf(v)[1] \in LayerNames /\ LayersOf(v)[2] \in LayerNames
           /\ ToSet(LayersOf(v)) = {LayersOf(v)[1], LayersOf(v)[2]}
<1>1. CASE v = 1
  BY <1>1 DEF LayersOf, ToSet, LayerNames
<1>2. CASE v # 1
  BY <1>2 DEF LayersOf, ToSet, LayerNames
<1> QED
  BY <1>1, <1>2

\* A pull, step by step.  What a request that met no other has found so far is
\* Filled; where it did meet one, its entry goes on record as spoiled.
LEMMA CreateOutputDirectoryKeeps == ASSUME ImageInv, NEW r \in ImgReqs, CreateOutputDirectory(r) PROVE ImageInv'
<1> DEFINE d == img[r].dir
           q == [img[r] EXCEPT !.pc = "token"]
           f == [disk[d] EXCEPT !.there = TRUE, !.root = TRUE]
<1>1. img[r].pc = "mkdir" /\ AtWork(img[r])
  BY DEF CreateOutputDirectory, AtWork
<1>2. img[r] \in ImgCalls /\ d \in DirNames /\ img[r].key \in ImageKeys /\ CallFits(img[r]) /\ disk[d] \in DirFiles
  BY <1>1, CallTyped
<1>3. img' = [img EXCEPT ![r] = q] /\ disk' = [disk EXCEPT ![d] = f] /\ UNCHANGED <<ilm, tag, stray, spoiled>>
  <2>1. img' = [img EXCEPT ![r] = q]
    BY DEF CreateOutputDirectory, Set
  <2>2. disk' = [disk EXCEPT ![d] = f]
    BY <1>2 DEF CreateOutputDirectory, ImageInv, ImgTyped
  <2> QED
    BY <2>1, <2>2 DEF CreateOutputDirectory
<1>4. f \in DirFiles /\ f.there /\ f.root /\ f.config = disk[d].config /\ f.tree = disk[d].tree
  BY <1>2 DEF DirFiles
<1>5. q \in ImgCalls /\ q.pc = "token" /\ q.op = "pull" /\ q.dir = d /\ q.met = img[r].met /\ q.i = 0 /\ q.key = img[r].key
  BY <1>1, <1>2 DEF ImgCalls, ImgPcs, PullPcs, CallFits
<1>6. CallFits(q) /\ Filled(q, f) /\ Cares(q, d)
  BY <1>2, <1>4, <1>5 DEF CallFits, Filled, Cares, PullPcs, RemoveImgPcs, StatusPcs, BuildPcs
<1>7. Owned(d) /\ d \notin spoiled => f.config = 0 \/ Whole(f)
  BY <1>1, <1>4, CallTyped DEF Whole
<1>8. spoiled \subseteq DirNames
  BY DEF ImageInv, ImgTyped
<1> HIDE DEF q, f
<1> QED
  BY <1>1, <1>3, <1>4, <1>5, <1>6, <1>7, <1>8, FilesMove

\* FetchToken keeps ImageInv.
LEMMA FetchTokenKeeps == ASSUME ImageInv, NEW r \in ImgReqs, FetchToken(r) PROVE ImageInv'
<1> DEFINE d == img[r].dir
           q == [img[r] EXCEPT !.pc = "manifest"]
<1>1. img[r].pc = "token" /\ AtWork(img[r])
  BY DEF FetchToken, AtWork
<1>2. /\ img[r] \in ImgCalls /\ d \in DirNames /\ img[r].key \in ImageKeys /\ CallFits(img[r]) /\ disk[d] \in DirFiles
      /\ ~disk[d].there => disk[d] = NoFiles
      /\ ~img[r].met => Filled(img[r], disk[d])
      /\ Owned(d) /\ d \notin spoiled => disk[d].config = 0 \/ Whole(disk[d])
  BY <1>1, CallTyped
<1>3. img' = [img EXCEPT ![r] = q] /\ disk' = [disk EXCEPT ![d] = disk[d]] /\ UNCHANGED <<ilm, tag, stray, spoiled>>
  BY <1>2 DEF FetchToken, Set, ImageInv, ImgTyped
<1>4. q \in ImgCalls /\ q.pc = "manifest" /\ q.op = "pull" /\ q.dir = d /\ q.met = img[r].met /\ q.i = 0 /\ q.key = img[r].key
  BY <1>1, <1>2 DEF ImgCalls, ImgPcs, PullPcs, CallFits
<1>5. CallFits(q) /\ (~q.met => Filled(q, disk[d])) /\ Cares(q, d)
  BY <1>1, <1>2, <1>4 DEF CallFits, Filled, Cares, PullPcs, RemoveImgPcs, StatusPcs, BuildPcs
<1>6. spoiled \subseteq DirNames
  BY DEF ImageInv, ImgTyped
<1> HIDE DEF q
<1> QED
  BY <1>1, <1>2, <1>3, <1>4, <1>5, <1>6, FilesMove

\* FetchManifest keeps ImageInv.
LEMMA FetchManifestKeeps == ASSUME ImageInv, NEW r \in ImgReqs, FetchManifest(r) PROVE ImageInv'
<1> DEFINE d == img[r].dir
<1>1. img[r].pc = "manifest" /\ AtWork(img[r]) /\ UNCHANGED <<ilm, tag, stray, spoiled>>
  BY DEF FetchManifest, AtWork
<1>2. /\ img[r] \in ImgCalls /\ d \in DirNames /\ img[r].key \in ImageKeys /\ CallFits(img[r]) /\ disk[d] \in DirFiles
      /\ ~disk[d].there => disk[d] = NoFiles
      /\ ~img[r].met => Filled(img[r], disk[d])
      /\ Owned(d) /\ d \notin spoiled => disk[d].config = 0 \/ Whole(disk[d])
  BY <1>1, CallTyped
<1>3. spoiled \subseteq DirNames /\ tag \in {1, 2} /\ disk \in [DirNames -> DirFiles]
  BY DEF ImageInv, ImgTyped
<1>4. CASE disk[d].there
  <2> DEFINE q == [img[r] EXCEPT !.pc = "blobs", !.v = tag]
             f == [disk[d] EXCEPT !.manifest = TRUE]
  <2>1. img' = [img EXCEPT ![r] = q] /\ disk' = [disk EXCEPT ![d] = f]
    BY <1>2, <1>3, <1>4 DEF FetchManifest
  <2>2. /\ q \in ImgCalls /\ q.pc = "blobs" /\ q.op = "pull" /\ q.dir = d /\ q.met = img[r].met /\ q.i = 0 /\ q.v = tag
        /\ q.key = img[r].key
    BY <1>1, <1>2, <1>3 DEF ImgCalls, ImgPcs, PullPcs, CallFits
  <2>3. f \in DirFiles /\ f.there /\ f.root = disk[d].root /\ f.config = disk[d].config /\ f.tree = disk[d].tree
    BY <1>2, <1>4 DEF DirFiles
  <2>4. CallFits(q) /\ (~q.met => Filled(q, f)) /\ Cares(q, d)
    BY <1>1, <1>2, <1>3, <2>2, <2>3 DEF CallFits, Filled, Cares, PullPcs, RemoveImgPcs, StatusPcs, BuildPcs
  <2>5. Owned(d) /\ d \notin spoiled => f.config = 0 \/ Whole(f)
    BY <1>2, <2>3 DEF Whole
  <2> HIDE DEF q, f
  <2> QED
    BY <1>1, <1>2, <1>3, <2>1, <2>2, <2>3, <2>4, <2>5, FilesMove
<1>5. CASE ~disk[d].there
  <2> DEFINE q == [img[r] EXCEPT !.pc = "undo"]
  <2>1. img' = [img EXCEPT ![r] = q] /\ disk' = [disk EXCEPT ![d] = disk[d]]
    BY <1>2, <1>3, <1>5 DEF FetchManifest, Set
  <2>2. q \in ImgCalls /\ q.pc = "undo" /\ q.op = "pull" /\ q.dir = d /\ q.met = img[r].met /\ q.key = img[r].key
    BY <1>1, <1>2 DEF ImgCalls, ImgPcs, PullPcs, CallFits
  <2>3. CallFits(q) /\ (~q.met => Filled(q, disk[d])) /\ Cares(q, d)
    BY <1>1, <1>2, <2>2 DEF CallFits, Filled, Cares, PullPcs, RemoveImgPcs, StatusPcs, BuildPcs
  <2> HIDE DEF q
  <2> QED
    BY <1>1, <1>2, <1>3, <2>1, <2>2, <2>3, FilesMove
<1> QED
  BY <1>4, <1>5

\* DownloadBlob keeps ImageInv.
LEMMA DownloadBlobKeeps == ASSUME ImageInv, NEW r \in ImgReqs, DownloadBlob(r) PROVE ImageInv'
<1> DEFINE d == img[r].dir
           i == img[r].i
           q == [img[r] EXCEPT !.i = IF i = 2 THEN 0 ELSE i + 1, !.pc = IF i = 2 THEN "config" ELSE "blobs"]
           f == [disk[d] EXCEPT !.there = TRUE, !.blobs = disk[d].blobs \cup {Blob(r)}]
<1>1. img[r].pc = "blobs" /\ AtWork(img[r]) /\ UNCHANGED <<ilm, tag, stray, spoiled>>
  BY DEF DownloadBlob, AtWork
<1>2. /\ img[r] \in ImgCalls /\ d \in DirNames /\ img[r].key \in ImageKeys /\ CallFits(img[r]) /\ disk[d] \in DirFiles
      /\ ~disk[d].there => disk[d] = NoFiles
      /\ ~img[r].met => Filled(img[r], disk[d])
      /\ Owned(d) /\ d \notin spoiled => disk[d].config = 0 \/ Whole(disk[d])
  BY <1>1, CallTyped
<1>3. spoiled \subseteq DirNames /\ disk \in [DirNames -> DirFiles]
  BY DEF ImageInv, ImgTyped
<1>4. i \in {0, 1, 2} /\ img[r].v \in {1, 2} /\ img[r].op = "pull"
  BY <1>1, <1>2 DEF CallFits, PullPcs
<1>5. Blob(r) \in ImgBlobs
  <2>1. i = 0 \/ LayersOf(img[r].v)[i] \in LayerNames
    BY <1>4, LayersAre
  <2> QED
    BY <1>4, <2>1 DEF Blob, ImgBlobs
<1>6. img' = [img EXCEPT ![r] = q] /\ disk' = [disk EXCEPT ![d] = f]
  <2>1. Len(LayersOf(img[r].v)) = 2
    BY LayersAre
  <2>2. img' = [img EXCEPT ![r] = q]
    BY <1>1, <2>1 DEF DownloadBlob
  <2>3. disk' = [disk EXCEPT ![d] = f]
    BY <1>2, <1>3 DEF DownloadBlob
  <2> QED
    BY <2>2, <2>3
<1>7. /\ q \in ImgCalls /\ q.pc \in {"blobs", "config"} /\ q.op = "pull" /\ q.dir = d /\ q.met = img[r].met
      /\ q.i \in {0, 1, 2} /\ q.v = img[r].v /\ q.key = img[r].key
  <2>1. CASE i = 2
    BY <1>2, <1>4, <2>1 DEF ImgCalls, ImgPcs, PullPcs
  <2>2. CASE i # 2
    <3>1. (i + 1) \in {1, 2} /\ q = [img[r] EXCEPT !.i = i + 1, !.pc = "blobs"]
      BY <1>4, <2>2
    <3> QED
      BY <1>2, <1>4, <3>1 DEF ImgCalls, ImgPcs, PullPcs
  <2> QED
    BY <2>1, <2>2
<1>8. f \in DirFiles /\ f.there /\ f.root = disk[d].root /\ f.config = disk[d].config /\ f.tree = disk[d].tree
  BY <1>2, <1>5 DEF DirFiles
<1> HIDE DEF q, f
<1>9. CallFits(q) /\ (~q.met => Filled(q, f)) /\ Cares(q, d)
  BY <1>1, <1>2, <1>4, <1>7, <1>8 DEF CallFits, Filled, Cares, PullPcs, RemoveImgPcs, StatusPcs, BuildPcs
<1>10. Owned(d) /\ d \notin spoiled => f.config = 0 \/ Whole(f)
  BY <1>2, <1>8 DEF Whole
<1> QED
  BY <1>1, <1>2, <1>3, <1>6, <1>7, <1>8, <1>9, <1>10, FilesMove

\* Another version's config under an entry puts the directory on record as mixed.
LEMMA WriteConfigKeeps == ASSUME ImageInv, NEW r \in ImgReqs, WriteConfig(r) PROVE ImageInv'
<1> DEFINE d == img[r].dir
           v == img[r].v
<1>1. img[r].pc = "config" /\ AtWork(img[r]) /\ UNCHANGED <<ilm, tag, stray>>
  BY DEF WriteConfig, AtWork
<1>2. /\ img[r] \in ImgCalls /\ d \in DirNames /\ img[r].key \in ImageKeys /\ CallFits(img[r]) /\ disk[d] \in DirFiles
      /\ ~disk[d].there => disk[d] = NoFiles
      /\ ~img[r].met => Filled(img[r], disk[d])
      /\ Owned(d) /\ d \notin spoiled => disk[d].config = 0 \/ Whole(disk[d])
  BY <1>1, CallTyped
<1>3. spoiled \subseteq DirNames /\ disk \in [DirNames -> DirFiles]
  BY DEF ImageInv, ImgTyped
<1>4. v \in {1, 2} /\ img[r].op = "pull"
  BY <1>1, <1>2 DEF CallFits, PullPcs
<1>5. CASE <<"config", v>> \in disk[d].blobs
  <2> DEFINE q == [img[r] EXCEPT !.pc = "layers", !.i = 1]
             f == [disk[d] EXCEPT !.config = v]
  <2>1. img' = [img EXCEPT ![r] = q] /\ disk' = [disk EXCEPT ![d] = f]
    BY <1>2, <1>3, <1>5 DEF WriteConfig
  <2>2. /\ q \in ImgCalls /\ q.pc = "layers" /\ q.op = "pull" /\ q.dir = d /\ q.met = img[r].met /\ q.i = 1 /\ q.v = v
        /\ q.key = img[r].key
    BY <1>2, <1>4 DEF ImgCalls, ImgPcs, PullPcs
  <2>3. f \in DirFiles /\ f.there = disk[d].there /\ f.root = disk[d].root /\ f.config = v /\ f.tree = disk[d].tree
    BY <1>2, <1>4 DEF DirFiles, Built
  <2>4. disk[d].there
    BY <1>2, <1>5 DEF NoFiles
  <2>5. IF disk[d].config = v THEN spoiled' = spoiled ELSE Mix(d, v)
    BY <1>5 DEF WriteConfig
  <2>6. CallFits(q) /\ (~q.met => Filled(q, f)) /\ Cares(q, d)
    BY <1>1, <1>2, <1>4, <2>2, <2>3 DEF CallFits, Filled, Cares, PullPcs, RemoveImgPcs, StatusPcs, BuildPcs
  <2>7. Owned(d) /\ d \notin spoiled' => f.config = 0 \/ Whole(f)
    <3>1. CASE disk[d].config = v
      BY <1>2, <2>3, <2>5, <3>1 DEF Whole
    <3>2. CASE disk[d].config # v
      BY <2>5, <3>2 DEF Mix
    <3> QED
      BY <3>1, <3>2
  <2>8. spoiled' \subseteq DirNames /\ \A e \in spoiled \ {d} : e \in spoiled'
    BY <1>2, <1>3, <2>5 DEF Mix
  <2> HIDE DEF q, f
  <2> QED
    BY <1>1, <1>2, <1>3, <2>1, <2>2, <2>3, <2>4, <2>6, <2>7, <2>8, FilesMove
<1>6. CASE <<"config", v>> \notin disk[d].blobs
  <2> DEFINE q == [img[r] EXCEPT !.pc = "undo"]
  <2>1. img' = [img EXCEPT ![r] = q] /\ disk' = [disk EXCEPT ![d] = disk[d]] /\ spoiled' = spoiled
    BY <1>2, <1>3, <1>6 DEF WriteConfig, Set
  <2>2. q \in ImgCalls /\ q.pc = "undo" /\ q.op = "pull" /\ q.dir = d /\ q.met = img[r].met /\ q.key = img[r].key
    BY <1>2, <1>4 DEF ImgCalls, ImgPcs, PullPcs
  <2>3. CallFits(q) /\ (~q.met => Filled(q, disk[d])) /\ Cares(q, d)
    BY <1>1, <1>2, <2>2 DEF CallFits, Filled, Cares, PullPcs, RemoveImgPcs, StatusPcs, BuildPcs
  <2> HIDE DEF q
  <2> QED
    BY <1>1, <1>2, <1>3, <2>1, <2>2, <2>3, FilesMove
<1> QED
  BY <1>5, <1>6

\* After the last layer the directory is whole.
LEMMA ApplyLayerKeeps == ASSUME ImageInv, NEW r \in ImgReqs, ApplyLayer(r) PROVE ImageInv'
<1> DEFINE d == img[r].dir
           v == img[r].v
           i == img[r].i
           layer == LayersOf(v)[i]
<1>1. img[r].pc = "layers" /\ AtWork(img[r]) /\ UNCHANGED <<ilm, tag, stray, spoiled>>
  BY DEF ApplyLayer, AtWork
<1>2. /\ img[r] \in ImgCalls /\ d \in DirNames /\ img[r].key \in ImageKeys /\ CallFits(img[r]) /\ disk[d] \in DirFiles
      /\ ~disk[d].there => disk[d] = NoFiles
      /\ ~img[r].met => Filled(img[r], disk[d])
      /\ Owned(d) /\ d \notin spoiled => disk[d].config = 0 \/ Whole(disk[d])
  BY <1>1, CallTyped
<1>3. spoiled \subseteq DirNames /\ disk \in [DirNames -> DirFiles]
  BY DEF ImageInv, ImgTyped
<1>4. i \in {1, 2} /\ v \in {1, 2} /\ img[r].op = "pull"
  BY <1>1, <1>2 DEF CallFits, PullPcs
<1>5. CASE <<"layer", layer>> \in disk[d].blobs /\ disk[d].root
  <2> DEFINE q == [img[r] EXCEPT !.i = i + 1, !.pc = IF i = 2 THEN "store" ELSE "layers"]
             f == [disk[d] EXCEPT !.tree = disk[d].tree \cup {layer}]
  <2>1. img' = [img EXCEPT ![r] = q] /\ disk' = [disk EXCEPT ![d] = f]
    <3>1. Len(LayersOf(v)) = 2
      BY LayersAre
    <3>2. img' = [img EXCEPT ![r] = q]
      BY <1>1, <1>5, <3>1 DEF ApplyLayer
    <3>3. disk' = [disk EXCEPT ![d] = f]
      BY <1>2, <1>3, <1>5 DEF ApplyLayer
    <3> QED
      BY <3>2, <3>3
  <2>2. /\ q \in ImgCalls /\ q.pc = (IF i = 2 THEN "store" ELSE "layers") /\ q.op = "pull" /\ q.dir = d /\ q.met = img[r].met
        /\ q.i = i + 1 /\ q.v = v /\ q.key = img[r].key
    <3>1. CASE i = 2
      <4>1. q = [img[r] EXCEPT !.i = 3, !.pc = "store"]
        BY <3>1
      <4> QED
        BY <1>2, <1>4, <3>1, <4>1 DEF ImgCalls, ImgPcs, PullPcs
    <3>2. CASE i = 1
      <4>1. q = [img[r] EXCEPT !.i = 2, !.pc = "layers"]
        BY <3>2
      <4> QED
        BY <1>2, <1>4, <3>2, <4>1 DEF ImgCalls, ImgPcs, PullPcs
    <3> QED
      BY <1>4, <3>1, <3>2
  <2>3. f \in DirFiles /\ f.there = disk[d].there /\ f.root /\ f.config = disk[d].config /\ f.tree = disk[d].tree \cup {layer}
    <3>1. layer \in LayerNames
      BY <1>4, LayersAre
    <3> QED
      BY <1>2, <1>5, <3>1 DEF DirFiles
  <2>4. disk[d].there
    BY <1>2, <1>5 DEF NoFiles
  <2> HIDE DEF q, f
  <2>5. CallFits(q) /\ Cares(q, d)
    <3>1. CASE i = 2
      BY <1>2, <1>4, <2>2, <3>1 DEF CallFits, Cares, PullPcs, RemoveImgPcs, StatusPcs, BuildPcs
    <3>2. CASE i = 1
      BY <1>2, <1>4, <2>2, <3>2 DEF CallFits, Cares, PullPcs, RemoveImgPcs, StatusPcs, BuildPcs
    <3> QED
      BY <1>4, <3>1, <3>2
  <2>6. ~q.met => Filled(q, f)
    <3> SUFFICES ASSUME ~q.met PROVE Filled(q, f)
      OBVIOUS
    <3>1. /\ disk[d].there /\ disk[d].root /\ disk[d].config = v
          /\ i = 2 => LayersOf(v)[1] \in disk[d].tree
      BY <1>1, <1>2, <1>4, <2>2 DEF Filled
    <3>2. CASE i = 1
      BY <1>4, <2>2, <2>3, <2>4, <3>1, <3>2 DEF Filled
    <3>3. CASE i = 2
      <4>1. ToSet(LayersOf(v)) = {LayersOf(v)[1], LayersOf(v)[2]}
        BY LayersAre
      <4>2. ToSet(LayersOf(v)) \subseteq f.tree
        BY <2>3, <3>1, <3>3, <4>1
      <4>3. Whole(f)
        BY <1>4, <2>3, <3>1, <4>2 DEF Whole, Built
      <4>4. q.pc = "store" /\ q.op = "pull" /\ f.config = q.v /\ f.there /\ f.root
        BY <2>2, <2>3, <2>4, <3>1, <3>3
      <4> QED
        BY <4>3, <4>4 DEF Filled
    <3> QED
      BY <1>4, <3>2, <3>3
  <2>7. Owned(d) /\ d \notin spoiled => f.config = 0 \/ Whole(f)
    BY <1>2, <2>3 DEF Whole
  <2> QED
    BY <1>1, <1>2, <1>3, <2>1, <2>2, <2>3, <2>4, <2>5, <2>6, <2>7, FilesMove
<1>6. CASE ~(<<"layer", layer>> \in disk[d].blobs /\ disk[d].root)
  <2> DEFINE q == [img[r] EXCEPT !.pc = "undo"]
  <2>1. img' = [img EXCEPT ![r] = q] /\ disk' = [disk EXCEPT ![d] = disk[d]]
    BY <1>2, <1>3, <1>6 DEF ApplyLayer, Set
  <2>2. q \in ImgCalls /\ q.pc = "undo" /\ q.op = "pull" /\ q.dir = d /\ q.met = img[r].met /\ q.key = img[r].key
    BY <1>2, <1>4 DEF ImgCalls, ImgPcs, PullPcs
  <2>3. CallFits(q) /\ (~q.met => Filled(q, disk[d])) /\ Cares(q, d)
    BY <1>1, <1>2, <2>2 DEF CallFits, Filled, Cares, PullPcs, RemoveImgPcs, StatusPcs, BuildPcs
  <2> HIDE DEF q
  <2> QED
    BY <1>1, <1>2, <1>3, <2>1, <2>2, <2>3, FilesMove
<1> QED
  BY <1>5, <1>6

\* A step that empties its directory; the request then works on or has ended.
LEMMA EmptyMoves ==
    ASSUME ImageInv, NEW r \in ImgReqs, AtWork(img[r]), NEW q \in ImgCalls, img' = [img EXCEPT ![r] = q],
           disk' = [disk EXCEPT ![img[r].dir] = NoFiles], Spoil(img[r].dir), UNCHANGED <<ilm, tag, stray>>,
           CallFits(q), AtWork(q) => q.dir = img[r].dir /\ q.met = img[r].met /\ q.pc \in {"entry", "copy"}
    PROVE  ImageInv'
<1> DEFINE d == img[r].dir
<1>1. d \in DirNames
  BY CallTyped
<1>2. NoFiles \in DirFiles /\ ~NoFiles.there /\ NoFiles.config = 0
  BY DEF NoFiles, DirFiles
<1>3. spoiled' \subseteq DirNames /\ \A e \in spoiled \ {d} : e \in spoiled'
  BY <1>1 DEF Spoil, ImageInv, ImgTyped
<1>4. AtWork(q) => Filled(q, NoFiles)
  BY DEF Filled, NoFiles
<1> QED
  BY <1>1, <1>2, <1>3, <1>4, FilesMove

\* A request that has ended is at work nowhere.
LEMMA Ended ==
    ASSUME NEW got \in {"none", "pulled", "failed", "removed", "told", "lost", "built"}
    PROVE  [ImgIdle EXCEPT !.got = got] \in ImgCalls /\ CallFits([ImgIdle EXCEPT !.got = got])
           /\ ~AtWork([ImgIdle EXCEPT !.got = got])
BY DEF ImgIdle, ImgCalls, ImgPcs, CallFits, AtWork, PullPcs, RemoveImgPcs, StatusPcs, BuildPcs

\* The steps that empty a directory: of a failed pull, a status query, a
\* removal and a build.
LEMMA RemoveOutputDirectoryKeeps == ASSUME ImageInv, NEW r \in ImgReqs, RemoveOutputDirectory(r) PROVE ImageInv'
<1> DEFINE q == [ImgIdle EXCEPT !.got = "failed"]
<1>1. AtWork(img[r]) /\ img' = [img EXCEPT ![r] = q] /\ Spoil(img[r].dir) /\ UNCHANGED <<ilm, tag, stray>>
      /\ disk' = [disk EXCEPT ![img[r].dir] = NoFiles]
  BY DEF RemoveOutputDirectory, AtWork, End
<1>2. q \in ImgCalls /\ CallFits(q) /\ ~AtWork(q)
  BY Ended
<1> HIDE DEF q
<1> QED
  BY <1>1, <1>2, EmptyMoves

\* StatusDropsFiles keeps ImageInv.
LEMMA StatusDropsFilesKeeps == ASSUME ImageInv, NEW r \in ImgReqs, StatusDropsFiles(r) PROVE ImageInv'
<1> DEFINE q == [ImgIdle EXCEPT !.got = "lost"]
<1>1. AtWork(img[r]) /\ img' = [img EXCEPT ![r] = q] /\ Spoil(img[r].dir) /\ UNCHANGED <<ilm, tag, stray>>
      /\ disk' = [disk EXCEPT ![img[r].dir] = NoFiles]
  BY DEF StatusDropsFiles, AtWork, End
<1>2. q \in ImgCalls /\ CallFits(q) /\ ~AtWork(q)
  BY Ended
<1> HIDE DEF q
<1> QED
  BY <1>1, <1>2, EmptyMoves

\* RemoveFiles keeps ImageInv.
LEMMA RemoveFilesKeeps == ASSUME ImageInv, NEW r \in ImgReqs, RemoveFiles(r) PROVE ImageInv'
<1> DEFINE q == [img[r] EXCEPT !.pc = "entry"]
<1>1. img[r].pc = "files" /\ AtWork(img[r]) /\ img' = [img EXCEPT ![r] = q] /\ Spoil(img[r].dir) /\ UNCHANGED <<ilm, tag, stray>>
      /\ disk' = [disk EXCEPT ![img[r].dir] = NoFiles]
  BY DEF RemoveFiles, AtWork, Set
<1>2. img[r] \in ImgCalls /\ img[r].dir \in DirNames /\ img[r].key \in ImageKeys /\ CallFits(img[r])
  BY <1>1, CallTyped
<1>3. q \in ImgCalls /\ q.pc = "entry" /\ q.op = "remove" /\ q.dir = img[r].dir /\ q.met = img[r].met /\ q.key = img[r].key
  BY <1>1, <1>2 DEF ImgCalls, ImgPcs, RemoveImgPcs, CallFits
<1>4. CallFits(q)
  BY <1>2, <1>3 DEF CallFits, PullPcs, RemoveImgPcs, StatusPcs, BuildPcs
<1> HIDE DEF q
<1> QED
  BY <1>1, <1>3, <1>4, EmptyMoves

\* ClearOldBuild keeps ImageInv.
LEMMA ClearOldBuildKeeps == ASSUME ImageInv, NEW r \in ImgReqs, ClearOldBuild(r) PROVE ImageInv'
<1> DEFINE q == [img[r] EXCEPT !.pc = "copy"]
<1>1. img[r].pc = "clear" /\ AtWork(img[r]) /\ img' = [img EXCEPT ![r] = q] /\ Spoil(img[r].dir) /\ UNCHANGED <<ilm, tag, stray>>
      /\ disk' = [disk EXCEPT ![img[r].dir] = NoFiles]
  BY DEF ClearOldBuild, AtWork, Set
<1>2. img[r] \in ImgCalls /\ img[r].dir \in DirNames /\ img[r].key \in ImageKeys /\ CallFits(img[r])
  BY <1>1, CallTyped
<1>3. q \in ImgCalls /\ q.pc = "copy" /\ q.op = "build" /\ q.dir = img[r].dir /\ q.met = img[r].met /\ q.key = img[r].key
  BY <1>1, <1>2 DEF ImgCalls, ImgPcs, BuildPcs, CallFits
<1>4. CallFits(q)
  BY <1>2, <1>3 DEF CallFits, PullPcs, RemoveImgPcs, StatusPcs, BuildPcs
<1> HIDE DEF q
<1> QED
  BY <1>1, <1>3, <1>4, EmptyMoves

\* A build copies and then writes its config.
LEMMA CopyBuiltRootfsKeeps == ASSUME ImageInv, NEW r \in ImgReqs, CopyBuiltRootfs(r) PROVE ImageInv'
<1> DEFINE d == img[r].dir
           q == [img[r] EXCEPT !.pc = "wconfig"]
           f == [disk[d] EXCEPT !.there = TRUE, !.root = TRUE, !.tree = disk[d].tree \cup {"built"}]
<1>1. img[r].pc = "copy" /\ AtWork(img[r]) /\ UNCHANGED <<ilm, tag, stray, spoiled>>
  BY DEF CopyBuiltRootfs, AtWork
<1>2. /\ img[r] \in ImgCalls /\ d \in DirNames /\ img[r].key \in ImageKeys /\ CallFits(img[r]) /\ disk[d] \in DirFiles
      /\ Owned(d) /\ d \notin spoiled => disk[d].config = 0 \/ Whole(disk[d])
  BY <1>1, CallTyped
<1>3. spoiled \subseteq DirNames /\ disk \in [DirNames -> DirFiles]
  BY DEF ImageInv, ImgTyped
<1>4. img' = [img EXCEPT ![r] = q] /\ disk' = [disk EXCEPT ![d] = f]
  <2>1. img' = [img EXCEPT ![r] = q]
    BY DEF CopyBuiltRootfs, Set
  <2>2. disk' = [disk EXCEPT ![d] = f]
    BY <1>2, <1>3 DEF CopyBuiltRootfs
  <2> QED
    BY <2>1, <2>2
<1>5. f \in DirFiles /\ f.there /\ f.root /\ f.config = disk[d].config /\ f.tree = disk[d].tree \cup {"built"}
  BY <1>2 DEF DirFiles
<1>6. q \in ImgCalls /\ q.pc = "wconfig" /\ q.op = "build" /\ q.dir = d /\ q.met = img[r].met /\ q.key = img[r].key
  BY <1>1, <1>2 DEF ImgCalls, ImgPcs, BuildPcs, CallFits
<1> HIDE DEF q, f
<1>7. CallFits(q) /\ Filled(q, f) /\ Cares(q, d)
  BY <1>2, <1>5, <1>6 DEF CallFits, Filled, Cares, PullPcs, RemoveImgPcs, StatusPcs, BuildPcs
<1>8. Owned(d) /\ d \notin spoiled => f.config = 0 \/ Whole(f)
  BY <1>2, <1>5 DEF Whole
<1> QED
  BY <1>1, <1>2, <1>3, <1>4, <1>5, <1>6, <1>7, <1>8, FilesMove

\* WriteBuiltConfig keeps ImageInv.
LEMMA WriteBuiltConfigKeeps == ASSUME ImageInv, NEW r \in ImgReqs, WriteBuiltConfig(r) PROVE ImageInv'
<1> DEFINE d == img[r].dir
<1>1. img[r].pc = "wconfig" /\ AtWork(img[r]) /\ UNCHANGED <<ilm, tag, stray>>
  BY DEF WriteBuiltConfig, AtWork
<1>2. /\ img[r] \in ImgCalls /\ d \in DirNames /\ img[r].key \in ImageKeys /\ CallFits(img[r]) /\ disk[d] \in DirFiles
      /\ ~disk[d].there => disk[d] = NoFiles
      /\ ~img[r].met => Filled(img[r], disk[d])
      /\ Owned(d) /\ d \notin spoiled => disk[d].config = 0 \/ Whole(disk[d])
  BY <1>1, CallTyped
<1>3. spoiled \subseteq DirNames /\ disk \in [DirNames -> DirFiles]
  BY DEF ImageInv, ImgTyped
<1>4. CASE disk[d].there
  <2> DEFINE q == [img[r] EXCEPT !.pc = "store"]
             f == [disk[d] EXCEPT !.config = Built]
  <2>1. img' = [img EXCEPT ![r] = q] /\ disk' = [disk EXCEPT ![d] = f]
    BY <1>2, <1>3, <1>4 DEF WriteBuiltConfig, Set
  <2>2. q \in ImgCalls /\ q.pc = "store" /\ q.op = "build" /\ q.dir = d /\ q.met = img[r].met /\ q.key = img[r].key
    BY <1>1, <1>2 DEF ImgCalls, ImgPcs, BuildPcs, CallFits
  <2>3. f \in DirFiles /\ f.there /\ f.root = disk[d].root /\ f.config = Built /\ f.tree = disk[d].tree
    BY <1>2, <1>4 DEF DirFiles
  <2>4. Mix(d, Built)
    BY <1>4 DEF WriteBuiltConfig
  <2> HIDE DEF q, f
  <2>5. CallFits(q) /\ (~q.met => Filled(q, f)) /\ Cares(q, d)
    BY <1>1, <1>2, <2>2, <2>3 DEF CallFits, Filled, Cares, PullPcs, RemoveImgPcs, StatusPcs, BuildPcs
  <2>6. Owned(d) => d \in spoiled'
    BY <2>4 DEF Mix
  <2>7. spoiled' \subseteq DirNames /\ \A e \in spoiled \ {d} : e \in spoiled'
    BY <1>2, <1>3, <2>4 DEF Mix
  <2> QED
    BY <1>1, <1>2, <1>3, <2>1, <2>2, <2>3, <2>5, <2>6, <2>7, FilesMove
<1>5. CASE ~disk[d].there
  <2> DEFINE q == [ImgIdle EXCEPT !.got = "failed"]
  <2>1. img' = [img EXCEPT ![r] = q] /\ disk' = [disk EXCEPT ![d] = disk[d]] /\ spoiled' = spoiled
    BY <1>2, <1>3, <1>5 DEF WriteBuiltConfig, End
  <2>2. q \in ImgCalls /\ CallFits(q) /\ ~AtWork(q)
    BY Ended
  <2> HIDE DEF q
  <2> QED
    BY <1>1, <1>2, <1>3, <1>5, <2>1, <2>2, FilesMove
<1> QED
  BY <1>4, <1>5

\* A step that leaves the files alone and may store or remove an entry.
LEMMA EntriesMove ==
    ASSUME ImageInv, NEW r \in ImgReqs, AtWork(img[r]), NEW q \in ImgCalls, NEW d \in DirNames, img[r].dir = d,
           img' = [img EXCEPT ![r] = q], UNCHANGED <<disk, tag>>,
           CallFits(q), AtWork(q) => q.dir = d /\ q.met = img[r].met, AtWork(q) /\ ~q.met => Filled(q, disk[d]),
           DOMAIN ilm' \subseteq ImageKeys,
           \A k \in DOMAIN ilm' : ilm'[k] # d => k \in DOMAIN ilm /\ ilm[k] = ilm'[k],
           \A k \in DOMAIN ilm : ilm[k] # d => (k \in DOMAIN ilm' /\ ilm'[k] = ilm[k]) \/ ilm[k] \in stray',
           spoiled' \subseteq DirNames, \A e \in spoiled \ {d} : e \in spoiled',
           Owned(d)' /\ d \notin spoiled' => disk[d].config = 0 \/ Whole(disk[d]),
           stray \subseteq stray', stray' \subseteq DirNames,
           d \in stray' \/ Owned(d)' \/ ~disk[d].there \/ Cares(q, d)
    PROVE  ImageInv'
<1>1. disk' \in [DirNames -> DirFiles] /\ disk' = disk
  BY DEF ImageInv, ImgTyped
<1>2. ~disk[d].there => disk[d] = NoFiles
  BY CallTyped
<1>3. ASSUME NEW e \in DirNames \ {d}, Owned(e) PROVE Owned(e)' \/ e \in stray'
  <2>1. PICK k \in DOMAIN ilm : ilm[k] = e
    BY <1>3 DEF Owned
  <2>2. (k \in DOMAIN ilm' /\ ilm'[k] = e) \/ e \in stray'
    BY <2>1
  <2> QED
    BY <2>2 DEF Owned
<1>4. ImageMoves(r, d, q)
  BY <1>1, <1>2, <1>3 DEF ImageMoves
<1> QED
  BY <1>4, MovesKeep

\* What a removal does to the entries: only the request's own goes, and the
\* directory it named, when it is another one, goes on record as stray.
LEMMA EntryGone ==
    ASSUME ImageInv, NEW r \in ImgReqs, AtWork(img[r]), NEW d \in DirNames, img[r].dir = d,
           IF Stored(img[r].key) THEN RemoveImage(img[r].key) ELSE UNCHANGED ilm, stray \cup Abandoned(r) \subseteq stray'
    PROVE  /\ DOMAIN ilm' \subseteq ImageKeys /\ Abandoned(r) \subseteq DirNames
           /\ \A k \in DOMAIN ilm' : k \in DOMAIN ilm \ {img[r].key} /\ ilm[k] = ilm'[k]
           /\ \A k \in DOMAIN ilm : ilm[k] # d => (k \in DOMAIN ilm' /\ ilm'[k] = ilm[k]) \/ ilm[k] \in stray'
<1>1. DOMAIN ilm \subseteq ImageKeys /\ \A k \in DOMAIN ilm : ilm[k] \in DirNames
  BY DEF ImageInv, ImgTyped
<1>2. CASE Stored(img[r].key)
  <2>1. ilm' = [x \in DOMAIN ilm \ {img[r].key} |-> ilm[x]]
    BY <1>2 DEF RemoveImage
  <2>2. Abandoned(r) = {ilm[img[r].key]} \ {d} /\ img[r].key \in DOMAIN ilm
    BY <1>2 DEF Abandoned, Stored
  <2> QED
    BY <1>1, <2>1, <2>2
<1>3. CASE ~Stored(img[r].key)
  BY <1>1, <1>3 DEF Abandoned, Stored
<1> QED
  BY <1>2, <1>3

\* The steps that remove an entry: of a removal, a status query and a build.
LEMMA RemoveEntryKeeps == ASSUME ImageInv, NEW r \in ImgReqs, RemoveEntry(r) PROVE ImageInv'
<1>1. AtWork(img[r]) /\ UNCHANGED <<disk, tag>>
  BY DEF RemoveEntry, AtWork
<1>2. PICK d \in DirNames : img[r].dir = d
  BY <1>1, CallTyped
<1>3. Owned(d) /\ d \notin spoiled => disk[d].config = 0 \/ Whole(disk[d])
  BY <1>1, <1>2, CallTyped
<1>4. PICK q : /\ q = [ImgIdle EXCEPT !.got = IF Stored(img[r].key) THEN "removed" ELSE "failed"]
               /\ q \in ImgCalls /\ CallFits(q) /\ ~AtWork(q)
  BY Ended
<1>5. img' = [img EXCEPT ![r] = q]
  BY <1>4 DEF RemoveEntry, End
<1>6. stray' = stray \cup Abandoned(r) \cup (IF disk[d].there THEN {d} ELSE {})
  BY <1>2 DEF RemoveEntry
<1>7. /\ DOMAIN ilm' \subseteq ImageKeys /\ Abandoned(r) \subseteq DirNames
      /\ \A k \in DOMAIN ilm' : k \in DOMAIN ilm \ {img[r].key} /\ ilm[k] = ilm'[k]
      /\ \A k \in DOMAIN ilm : ilm[k] # d => (k \in DOMAIN ilm' /\ ilm'[k] = ilm[k]) \/ ilm[k] \in stray'
  <2>1. IF Stored(img[r].key) THEN RemoveImage(img[r].key) ELSE UNCHANGED ilm
    BY DEF RemoveEntry
  <2>2. stray \cup Abandoned(r) \subseteq stray'
    BY <1>6
  <2> QED
    BY <1>1, <1>2, <2>1, <2>2, EntryGone
<1>8. spoiled' = IF disk[d].there \/ \E k \in DOMAIN ilm \ {img[r].key} : ilm[k] = d THEN spoiled ELSE spoiled \ {d}
  BY <1>2 DEF RemoveEntry
<1>9. ASSUME Owned(d)', d \notin spoiled' PROVE disk[d].config = 0 \/ Whole(disk[d])
  <2>1. PICK k \in DOMAIN ilm' : ilm'[k] = d
    BY <1>9 DEF Owned
  <2>2. k \in DOMAIN ilm \ {img[r].key} /\ ilm[k] = d
    BY <1>7, <2>1
  <2>3. Owned(d) /\ spoiled' = spoiled
    BY <1>8, <2>2 DEF Owned
  <2> QED
    BY <1>3, <1>9, <2>3
<1>10. spoiled \subseteq DirNames /\ stray \subseteq DirNames
  BY DEF ImageInv, ImgTyped
<1>11. stray' \subseteq DirNames /\ stray \subseteq stray' /\ (disk[d].there => d \in stray')
  BY <1>6, <1>7, <1>10
<1>12. spoiled' \subseteq DirNames /\ \A e \in spoiled \ {d} : e \in spoiled'
  BY <1>8, <1>10
<1> QED
  BY <1>1, <1>2, <1>4, <1>5, <1>7, <1>9, <1>11, <1>12, EntriesMove

\* A removal that fails half way keeps ImageInv: the directory goes on record
\* as emptied under its entry or, without one, as stray.
LEMMA RemovalFailsKeeps == ASSUME ImageInv, NEW r \in ImgReqs, RemovalFails(r) PROVE ImageInv'
<1>1. img[r].pc \in {"files", "undo", "dropfiles", "clear"} /\ AtWork(img[r]) /\ UNCHANGED <<ilm, tag>>
  BY DEF RemovalFails, AtWork
<1>2. PICK d \in DirNames : img[r].dir = d
  BY <1>1, CallTyped
<1>3. img[r] \in ImgCalls /\ img[r].key \in ImageKeys /\ CallFits(img[r]) /\ disk[d] \in DirFiles /\ disk[d].there
  BY <1>1, <1>2, CallTyped DEF RemovalFails
<1>4. spoiled \subseteq DirNames /\ stray \subseteq DirNames /\ disk \in [DirNames -> DirFiles] /\ DOMAIN ilm \subseteq ImageKeys
  BY DEF ImageInv, ImgTyped
<1>5. PICK f : f \in DirFiles /\ f.there /\ disk' = [disk EXCEPT ![d] = f]
  <2>1. PICK f \in Halves(disk[d]) : disk' = [disk EXCEPT ![d] = f]
    BY <1>2 DEF RemovalFails
  <2>2. PICK c \in {0, disk[d].config}, m \in {FALSE, disk[d].manifest}, b \in {{}, disk[d].blobs}, t \in {{}, disk[d].tree} :
           f = [disk[d] EXCEPT !.config = c, !.manifest = m, !.blobs = b, !.tree = t]
    BY <2>1 DEF Halves
  <2>3. f \in DirFiles /\ f.there
    BY <1>3, <2>2 DEF DirFiles
  <2> QED
    BY <2>1, <2>3
<1>6. PICK q : /\ img' = [img EXCEPT ![r] = q] /\ q \in ImgCalls /\ CallFits(q)
               /\ AtWork(q) => q.dir = d /\ q.met = img[r].met /\ Filled(q, f)
               /\ img[r].pc = "clear" => Cares(q, d)
  <2>1. CASE img[r].pc = "clear"
    <3> DEFINE q == [img[r] EXCEPT !.pc = "copy"]
    <3>1. img' = [img EXCEPT ![r] = q]
      BY <2>1 DEF RemovalFails, Set
    <3>2. q \in ImgCalls /\ q.pc = "copy" /\ q.op = "build" /\ q.dir = d /\ q.met = img[r].met /\ q.key = img[r].key
      BY <1>2, <1>3, <2>1 DEF ImgCalls, ImgPcs, BuildPcs, CallFits
    <3> HIDE DEF q
    <3>3. CallFits(q) /\ Filled(q, f) /\ Cares(q, d)
      BY <1>3, <3>2 DEF CallFits, Filled, Cares, PullPcs, RemoveImgPcs, StatusPcs, BuildPcs
    <3> QED
      BY <3>1, <3>2, <3>3
  <2>2. CASE img[r].pc # "clear"
    <3>1. PICK got \in {"lost", "failed"} : img' = [img EXCEPT ![r] = [ImgIdle EXCEPT !.got = got]]
      BY <2>2 DEF RemovalFails, End
    <3> QED
      BY <2>2, <3>1, Ended
  <2> QED
    BY <2>1, <2>2
<1>7. /\ spoiled' = IF Owned(d) THEN spoiled \cup {d} ELSE spoiled
      /\ stray' = IF Owned(d) \/ img[r].pc = "clear" THEN stray ELSE stray \cup {d}
  BY <1>2 DEF RemovalFails
<1>8. \A e : Owned(e)' <=> Owned(e)
  BY <1>1 DEF Owned
<1>9. disk' \in [DirNames -> DirFiles] /\ disk'[d] = f /\ \A e \in DirNames \ {d} : disk'[e] = disk[e]
  BY <1>4, <1>5
<1>10. ImageMoves(r, d, q)
  <2>1. /\ spoiled' \subseteq DirNames /\ (\A e \in spoiled \ {d} : e \in spoiled') /\ (Owned(d) => d \in spoiled')
        /\ stray \subseteq stray' /\ stray' \subseteq DirNames /\ (d \in stray' \/ Owned(d) \/ img[r].pc = "clear")
    BY <1>4, <1>7
  <2> QED
    BY <1>1, <1>4, <1>5, <1>6, <1>8, <1>9, <2>1 DEF ImageMoves
<1> QED
  BY <1>1, <1>2, <1>10, MovesKeep

\* EntryStays keeps ImageInv.
LEMMA EntryStaysKeeps == ASSUME ImageInv, NEW r \in ImgReqs, EntryStays(r) PROVE ImageInv'
<1>1. img[r].pc \in {"entry", "drop", "check"} /\ AtWork(img[r]) /\ UNCHANGED <<ilm, disk, tag, spoiled>>
  BY DEF EntryStays, AtWork
<1>2. PICK d \in DirNames : img[r].dir = d
  BY <1>1, CallTyped
<1>3. /\ img[r] \in ImgCalls /\ img[r].key \in ImageKeys /\ CallFits(img[r]) /\ disk[d] \in DirFiles
      /\ Owned(d) /\ d \notin spoiled => disk[d].config = 0 \/ Whole(disk[d])
  BY <1>1, <1>2, CallTyped
<1>4. spoiled \subseteq DirNames /\ stray \subseteq DirNames /\ DOMAIN ilm \subseteq ImageKeys
  BY DEF ImageInv, ImgTyped
<1>5. PICK q : /\ img' = [img EXCEPT ![r] = q] /\ q \in ImgCalls /\ CallFits(q)
               /\ AtWork(q) => q.dir = d /\ q.met = img[r].met /\ Filled(q, disk[d])
               /\ img[r].pc = "drop" => Cares(q, d)
  <2>1. CASE img[r].pc = "drop"
    <3> DEFINE q == [img[r] EXCEPT !.pc = "dropfiles"]
    <3>1. img' = [img EXCEPT ![r] = q]
      BY <2>1 DEF EntryStays, Set
    <3>2. q \in ImgCalls /\ q.pc = "dropfiles" /\ q.op = "status" /\ q.dir = d /\ q.met = img[r].met /\ q.key = img[r].key
      BY <1>2, <1>3, <2>1 DEF ImgCalls, ImgPcs, StatusPcs, CallFits
    <3> HIDE DEF q
    <3>3. CallFits(q) /\ Filled(q, disk[d]) /\ Cares(q, d)
      BY <1>3, <3>2 DEF CallFits, Filled, Cares, PullPcs, RemoveImgPcs, StatusPcs, BuildPcs
    <3> QED
      BY <3>1, <3>2, <3>3
  <2>2. CASE img[r].pc # "drop"
    <3>1. img' = [img EXCEPT ![r] = [ImgIdle EXCEPT !.got = "failed"]]
      BY <2>2 DEF EntryStays, End
    <3> QED
      BY <2>2, <3>1, Ended
  <2> QED
    BY <2>1, <2>2
<1>6. stray' = IF img[r].pc # "drop" /\ disk[d].there /\ ~Owned(d) THEN stray \cup {d} ELSE stray
  BY <1>2 DEF EntryStays
<1>7. Owned(d)' <=> Owned(d)
  BY <1>1 DEF Owned
<1>8. stray \subseteq stray' /\ stray' \subseteq DirNames /\ (d \in stray' \/ Owned(d) \/ ~disk[d].there \/ img[r].pc = "drop")
  BY <1>4, <1>6
<1> QED
  BY <1>1, <1>2, <1>3, <1>4, <1>5, <1>7, <1>8, EntriesMove

\* StatusDropsEntry keeps ImageInv.
LEMMA StatusDropsEntryKeeps == ASSUME ImageInv, NEW r \in ImgReqs, StatusDropsEntry(r) PROVE ImageInv'
<1>1. img[r].pc = "drop" /\ AtWork(img[r]) /\ UNCHANGED <<disk, tag, spoiled>>
  BY DEF StatusDropsEntry, AtWork
<1>2. PICK d \in DirNames : img[r].dir = d
  BY <1>1, CallTyped
<1>3. /\ img[r] \in ImgCalls /\ img[r].key \in ImageKeys /\ CallFits(img[r])
      /\ Owned(d) /\ d \notin spoiled => disk[d].config = 0 \/ Whole(disk[d])
  BY <1>1, <1>2, CallTyped
<1> DEFINE q == [img[r] EXCEPT !.pc = "dropfiles"]
<1>4. img' = [img EXCEPT ![r] = q] /\ stray' = stray \cup Abandoned(r)
  BY DEF StatusDropsEntry, Set
<1>5. q \in ImgCalls /\ q.pc = "dropfiles" /\ q.op = "status" /\ q.dir = d /\ q.met = img[r].met /\ q.key = img[r].key
  BY <1>1, <1>2, <1>3 DEF ImgCalls, ImgPcs, StatusPcs, CallFits
<1>6. CallFits(q) /\ Filled(q, disk[d]) /\ Cares(q, d)
  BY <1>2, <1>3, <1>5 DEF CallFits, Filled, Cares, PullPcs, RemoveImgPcs, StatusPcs, BuildPcs
<1> HIDE DEF q
<1>7. /\ DOMAIN ilm' \subseteq ImageKeys /\ Abandoned(r) \subseteq DirNames
      /\ \A k \in DOMAIN ilm' : k \in DOMAIN ilm \ {img[r].key} /\ ilm[k] = ilm'[k]
      /\ \A k \in DOMAIN ilm : ilm[k] # d => (k \in DOMAIN ilm' /\ ilm'[k] = ilm[k]) \/ ilm[k] \in stray'
  <2>1. IF Stored(img[r].key) THEN RemoveImage(img[r].key) ELSE UNCHANGED ilm
    BY DEF StatusDropsEntry
  <2>2. stray \cup Abandoned(r) \subseteq stray'
    BY <1>4
  <2> QED
    BY <1>1, <1>2, <2>1, <2>2, EntryGone
<1>8. Owned(d)' => Owned(d)
  BY <1>7 DEF Owned
<1>9. spoiled \subseteq DirNames /\ stray \subseteq DirNames
  BY DEF ImageInv, ImgTyped
<1>10. stray' \subseteq DirNames /\ stray \subseteq stray'
  BY <1>4, <1>7, <1>9
<1> QED
  BY <1>1, <1>2, <1>3, <1>4, <1>5, <1>6, <1>7, <1>8, <1>9, <1>10, EntriesMove

\* RemoveOldBuild keeps ImageInv.
LEMMA RemoveOldBuildKeeps == ASSUME ImageInv, NEW r \in ImgReqs, RemoveOldBuild(r) PROVE ImageInv'
<1>1. img[r].pc = "check" /\ AtWork(img[r]) /\ UNCHANGED <<disk, tag, spoiled>>
  BY DEF RemoveOldBuild, AtWork
<1>2. PICK d \in DirNames : img[r].dir = d
  BY <1>1, CallTyped
<1>3. /\ img[r] \in ImgCalls /\ img[r].key \in ImageKeys /\ CallFits(img[r])
      /\ Owned(d) /\ d \notin spoiled => disk[d].config = 0 \/ Whole(disk[d])
  BY <1>1, <1>2, CallTyped
<1>4. spoiled \subseteq DirNames /\ stray \subseteq DirNames /\ disk \in [DirNames -> DirFiles]
  BY DEF ImageInv, ImgTyped
<1>5. CASE IsImageExist(img[r].key)
  <2> DEFINE q == [img[r] EXCEPT !.pc = "clear"]
  <2>1. img' = [img EXCEPT ![r] = q] /\ stray' = stray \cup Abandoned(r) /\ RemoveImage(img[r].key)
    BY <1>5 DEF RemoveOldBuild, Set
  <2>2. q \in ImgCalls /\ q.pc = "clear" /\ q.op = "build" /\ q.dir = d /\ q.met = img[r].met /\ q.key = img[r].key
    BY <1>1, <1>2, <1>3 DEF ImgCalls, ImgPcs, BuildPcs, CallFits
  <2>3. CallFits(q) /\ Filled(q, disk[d]) /\ Cares(q, d)
    BY <1>2, <1>3, <2>2 DEF CallFits, Filled, Cares, PullPcs, RemoveImgPcs, StatusPcs, BuildPcs
  <2> HIDE DEF q
  <2>4. /\ DOMAIN ilm' \subseteq ImageKeys /\ Abandoned(r) \subseteq DirNames
        /\ \A k \in DOMAIN ilm' : k \in DOMAIN ilm \ {img[r].key} /\ ilm[k] = ilm'[k]
        /\ \A k \in DOMAIN ilm : ilm[k] # d => (k \in DOMAIN ilm' /\ ilm'[k] = ilm[k]) \/ ilm[k] \in stray'
    <3>1. Stored(img[r].key)
      BY <1>5 DEF IsImageExist
    <3>2. stray \cup Abandoned(r) \subseteq stray'
      BY <2>1
    <3> QED
      BY <1>1, <1>2, <2>1, <3>1, <3>2, EntryGone
  <2>5. Owned(d)' => Owned(d)
    BY <2>4 DEF Owned
  <2>6. stray' \subseteq DirNames /\ stray \subseteq stray'
    BY <1>4, <2>1, <2>4
  <2> QED
    BY <1>1, <1>2, <1>3, <1>4, <2>1, <2>2, <2>3, <2>4, <2>5, <2>6, EntriesMove
<1>6. CASE ~IsImageExist(img[r].key)
  <2> DEFINE q == [img[r] EXCEPT !.pc = "copy"]
  <2>1. img' = [img EXCEPT ![r] = q] /\ UNCHANGED <<ilm, stray, spoiled, tag>> /\ disk' = [disk EXCEPT ![d] = disk[d]]
    BY <1>1, <1>4, <1>6 DEF RemoveOldBuild, Set
  <2>2. q \in ImgCalls /\ q.pc = "copy" /\ q.op = "build" /\ q.dir = d /\ q.met = img[r].met /\ q.key = img[r].key
    BY <1>1, <1>2, <1>3 DEF ImgCalls, ImgPcs, BuildPcs, CallFits
  <2>3. CallFits(q) /\ Filled(q, disk[d]) /\ Cares(q, d)
    BY <1>2, <1>3, <2>2 DEF CallFits, Filled, Cares, PullPcs, RemoveImgPcs, StatusPcs, BuildPcs
  <2>4. disk[d] \in DirFiles /\ (~disk[d].there => disk[d] = NoFiles)
    BY <1>1, <1>2, CallTyped
  <2> HIDE DEF q
  <2> QED
    BY <1>1, <1>2, <1>3, <1>4, <2>1, <2>2, <2>3, <2>4, FilesMove
<1> QED
  BY <1>5, <1>6

\* Storing an entry: a request that met no other has filled its directory.
LEMMA StoreKeeps ==
    ASSUME ImageInv, NEW r \in ImgReqs, img[r].pc = "store", StoreImage(img[r].key, img[r].dir), Settled(r),
           stray' = stray \cup Abandoned(r), NEW q \in ImgCalls, CallFits(q), ~AtWork(q), img' = [img EXCEPT ![r] = q],
           UNCHANGED <<disk, tag>>
    PROVE  ImageInv'
<1>1. AtWork(img[r])
  BY DEF AtWork
<1>2. PICK d \in DirNames : img[r].dir = d
  BY <1>1, CallTyped
<1>3. PICK k \in ImageKeys : img[r].key = k
  BY <1>1, CallTyped
<1>4. CallFits(img[r]) /\ (~img[r].met => Filled(img[r], disk[d]))
  BY <1>1, <1>2, CallTyped
<1>5. /\ DOMAIN ilm \subseteq ImageKeys /\ \A x \in DOMAIN ilm : ilm[x] \in DirNames
      /\ spoiled \subseteq DirNames /\ stray \subseteq DirNames
  BY DEF ImageInv, ImgTyped
<1>6. ilm' = [x \in DOMAIN ilm \cup {k} |-> IF x = k THEN d ELSE ilm[x]]
  BY <1>2, <1>3 DEF StoreImage
<1>7. Abandoned(r) = IF k \in DOMAIN ilm THEN {ilm[k]} \ {d} ELSE {}
  BY <1>2, <1>3 DEF Abandoned, Stored
<1>8. stray' \subseteq DirNames /\ stray \subseteq stray'
  BY <1>5, <1>7
<1>9. /\ DOMAIN ilm' = DOMAIN ilm \cup {k} /\ ilm'[k] = d
      /\ \A x \in DOMAIN ilm \ {k} : ilm'[x] = ilm[x]
  BY <1>6
<1>10. Owned(d)'
  BY <1>9 DEF Owned
<1>11. spoiled' = IF img[r].met THEN spoiled \cup {d} ELSE spoiled \ {d}
  BY <1>2 DEF Settled
<1>12. ~img[r].met => Whole(disk[d])
  BY <1>4 DEF CallFits, Filled, Whole
<1>13. /\ DOMAIN ilm' \subseteq ImageKeys
       /\ \A x \in DOMAIN ilm' : ilm'[x] # d => x \in DOMAIN ilm /\ ilm[x] = ilm'[x]
       /\ \A x \in DOMAIN ilm : ilm[x] # d => (x \in DOMAIN ilm' /\ ilm'[x] = ilm[x]) \/ ilm[x] \in stray'
  BY <1>3, <1>5, <1>7, <1>9
<1>14. spoiled' \subseteq DirNames /\ (\A e \in spoiled \ {d} : e \in spoiled') /\ (d \notin spoiled' => Whole(disk[d]))
  BY <1>5, <1>11, <1>12
<1> QED
  BY <1>1, <1>2, <1>8, <1>10, <1>13, <1>14, EntriesMove

\* Both stores are that step.
LEMMA StorePulledKeeps == ASSUME ImageInv, NEW r \in ImgReqs, StorePulled(r) PROVE ImageInv'
<1> DEFINE q == [ImgIdle EXCEPT !.got = "pulled"]
<1>1. q \in ImgCalls /\ CallFits(q) /\ ~AtWork(q)
  BY Ended
<1>2. img' = [img EXCEPT ![r] = q]
  BY DEF StorePulled, End
<1> HIDE DEF q
<1> QED
  BY <1>1, <1>2, StoreKeeps DEF StorePulled

\* StoreBuilt keeps ImageInv.
LEMMA StoreBuiltKeeps == ASSUME ImageInv, NEW r \in ImgReqs, StoreBuilt(r) PROVE ImageInv'
<1> DEFINE q == [ImgIdle EXCEPT !.got = "built"]
<1>1. q \in ImgCalls /\ CallFits(q) /\ ~AtWork(q)
  BY Ended
<1>2. img' = [img EXCEPT ![r] = q]
  BY DEF StoreBuilt, End
<1> HIDE DEF q
<1> QED
  BY <1>1, <1>2, StoreKeeps DEF StoreBuilt

\* A pull that fails undoes or ends; a build that fails leaves its files.
LEMMA PullFailsKeeps == ASSUME ImageInv, NEW r \in ImgReqs, PullFails(r) PROVE ImageInv'
<1>1. /\ img[r].op = "pull" /\ img[r].pc \in {"mkdir", "token", "manifest", "blobs", "config", "layers", "store"}
      /\ AtWork(img[r]) /\ UNCHANGED <<ilm, disk, tag, spoiled>>
  BY DEF PullFails, AtWork
<1>2. PICK d \in DirNames : img[r].dir = d
  BY <1>1, CallTyped
<1>3. /\ img[r] \in ImgCalls /\ img[r].key \in ImageKeys /\ CallFits(img[r]) /\ disk[d] \in DirFiles
      /\ ~disk[d].there => disk[d] = NoFiles
      /\ Owned(d) /\ d \notin spoiled => disk[d].config = 0 \/ Whole(disk[d])
  BY <1>1, <1>2, CallTyped
<1>4. /\ spoiled \subseteq DirNames /\ stray \subseteq DirNames /\ disk \in [DirNames -> DirFiles] /\ DOMAIN ilm \subseteq ImageKeys
  BY DEF ImageInv, ImgTyped
<1>5. CASE img[r].pc \in {"mkdir", "store"}
  <2> DEFINE q == [ImgIdle EXCEPT !.got = "failed"]
  <2>1. q \in ImgCalls /\ CallFits(q) /\ ~AtWork(q)
    BY Ended
  <2>2. img' = [img EXCEPT ![r] = q] /\ stray' = IF img[r].pc = "store" \/ disk[d].there THEN stray \cup {d} ELSE stray
    BY <1>2, <1>5 DEF PullFails, End
  <2> HIDE DEF q
  <2>3. Owned(d)' <=> Owned(d)
    BY <1>1 DEF Owned
  <2>4. stray \subseteq stray' /\ stray' \subseteq DirNames /\ (disk[d].there => d \in stray')
    BY <1>4, <2>2
  <2> QED
    BY <1>1, <1>2, <1>3, <1>4, <2>1, <2>2, <2>3, <2>4, EntriesMove
<1>6. CASE img[r].pc \notin {"mkdir", "store"}
  <2> DEFINE q == [img[r] EXCEPT !.pc = "undo"]
  <2>1. img' = [img EXCEPT ![r] = q] /\ disk' = [disk EXCEPT ![d] = disk[d]] /\ UNCHANGED stray
    BY <1>1, <1>4, <1>6 DEF PullFails, Set
  <2>2. q \in ImgCalls /\ q.pc = "undo" /\ q.op = "pull" /\ q.dir = d /\ q.met = img[r].met /\ q.key = img[r].key
    BY <1>1, <1>2, <1>3 DEF ImgCalls, ImgPcs, PullPcs
  <2>3. CallFits(q) /\ Filled(q, disk[d]) /\ Cares(q, d)
    BY <1>2, <1>3, <2>2 DEF CallFits, Filled, Cares, PullPcs, RemoveImgPcs, StatusPcs, BuildPcs
  <2> HIDE DEF q
  <2> QED
    BY <1>1, <1>2, <1>3, <1>4, <2>1, <2>2, <2>3, FilesMove
<1> QED
  BY <1>5, <1>6

\* StoreBuiltFails keeps ImageInv.
LEMMA StoreBuiltFailsKeeps == ASSUME ImageInv, NEW r \in ImgReqs, StoreBuiltFails(r) PROVE ImageInv'
<1>1. AtWork(img[r]) /\ UNCHANGED <<ilm, disk, tag>>
  BY DEF StoreBuiltFails, AtWork
<1>2. PICK d \in DirNames : img[r].dir = d
  BY <1>1, CallTyped
<1>3. Owned(d) /\ d \notin spoiled => disk[d].config = 0 \/ Whole(disk[d])
  BY <1>1, <1>2, CallTyped
<1>4. spoiled \subseteq DirNames /\ stray \subseteq DirNames /\ DOMAIN ilm \subseteq ImageKeys
  BY DEF ImageInv, ImgTyped
<1> DEFINE q == [ImgIdle EXCEPT !.got = "failed"]
<1>5. q \in ImgCalls /\ CallFits(q) /\ ~AtWork(q)
  BY Ended
<1>6. /\ img' = [img EXCEPT ![r] = q] /\ stray' = stray \cup {d}
      /\ spoiled' = IF Owned(d) THEN spoiled \cup {d} ELSE spoiled
  BY <1>2 DEF StoreBuiltFails, End
<1> HIDE DEF q
<1>7. Owned(d)' <=> Owned(d)
  BY <1>1 DEF Owned
<1>8. /\ stray \subseteq stray' /\ stray' \subseteq DirNames /\ d \in stray'
      /\ spoiled' \subseteq DirNames /\ (\A e \in spoiled \ {d} : e \in spoiled') /\ (d \notin spoiled' => d \notin spoiled)
  BY <1>4, <1>6
<1> QED
  BY <1>1, <1>2, <1>3, <1>4, <1>5, <1>6, <1>7, <1>8, EntriesMove

\* The steps that change neither files nor entries.
LEMMA StatusToldKeeps == ASSUME ImageInv, NEW r \in ImgReqs, StatusTold(r) PROVE ImageInv'
<1>1. AtWork(img[r]) /\ img[r].pc = "told" /\ UNCHANGED <<ilm, disk, tag, spoiled, stray>>
  BY DEF StatusTold, AtWork
<1> DEFINE q == [ImgIdle EXCEPT !.got = "told"]
<1>2. q \in ImgCalls /\ CallFits(q) /\ ~AtWork(q)
  BY Ended
<1>3. img' = [img EXCEPT ![r] = q]
  BY DEF StatusTold, End
<1> HIDE DEF q
<1>4. ImgTyped /\ Meet /\ Bare /\ PresentIsComplete /\ Cared
  BY DEF ImageInv
<1>5. img' \in [ImgReqs -> ImgCalls] /\ img'[r] = q /\ \A x \in ImgReqs \ {r} : img'[x] = img[x]
  BY <1>2, <1>3, <1>4 DEF ImgTyped
<1>6. ImgTyped'
  BY <1>1, <1>4, <1>5 DEF ImgTyped
<1>7. Meet'
  BY <1>2, <1>4, <1>5 DEF Meet
<1>8. Bare' /\ PresentIsComplete'
  BY <1>1, <1>4 DEF Bare, PresentIsComplete, IsImageExist, Stored, Complete
<1>9. Cared'
  <2> SUFFICES ASSUME NEW e \in DirNames \ stray, disk[e].there, ~Owned(e) PROVE \E x \in ImgReqs : Cares(img'[x], e)
    BY <1>1 DEF Cared, Owned
  <2>1. PICK x \in ImgReqs : Cares(img[x], e)
    BY <1>4 DEF Cared
  <2>2. x # r
    BY <1>1, <2>1 DEF Cares
  <2> QED
    BY <1>5, <2>1, <2>2
<1>10. \A x \in ImgReqs : CallFits(img'[x]) /\ (AtWork(img'[x]) /\ ~img'[x].met => Filled(img'[x], disk'[img'[x].dir]))
  BY <1>1, <1>2, <1>5 DEF ImageInv
<1> QED
  BY <1>6, <1>7, <1>8, <1>9, <1>10 DEF ImageInv

\* TagMoves keeps ImageInv.
LEMMA TagMovesKeeps == ASSUME ImageInv, TagMoves PROVE ImageInv'
<1>1. UNCHANGED <<ilm, disk, img, spoiled, stray>> /\ tag' \in {1, 2}
  BY DEF TagMoves
<1> QED
  BY <1>1 DEF ImageInv, ImgTyped, Meet, Bare, PresentIsComplete, IsImageExist, Stored, Complete, Cared, Owned, Cares, AtWork

\* A request that begins: it and the ones it meets are marked.
LEMMA BeginKeeps ==
    ASSUME ImageInv, NEW r \in ImgReqs, NEW op \in {"pull", "remove", "status", "build"}, NEW pc \in {"mkdir", "files", "told", "drop", "check"},
           pc = "mkdir" <=> op = "pull", pc = "files" <=> op = "remove", pc = "check" <=> op = "build",
           NEW key \in ImageKeys, NEW d \in DirNames, BeginImg(r, op, pc, key, d)
    PROVE  ImageInv'
<1>1. UNCHANGED <<ilm, disk, tag, spoiled, stray>> /\ img[r].pc = "idle"
  BY DEF BeginImg, MayBegin
<1> DEFINE others == {x \in ImgReqs : img[x].pc # "idle" /\ img[x].dir = d}
           q == [ImgIdle EXCEPT !.op = op, !.pc = pc, !.key = key, !.dir = d, !.met = others # {}]
           p(x) == [img[x] EXCEPT !.met = img[x].met \/ x \in others]
<1>2. img' = [x \in ImgReqs |-> IF x = r THEN q ELSE p(x)]
  BY Zenon DEF BeginImg
<1>3. ImgTyped /\ Meet /\ Bare /\ PresentIsComplete /\ Cared /\ \A x \in ImgReqs : CallFits(img[x])
  BY DEF ImageInv
<1>4. /\ q \in ImgCalls /\ q.op = op /\ q.pc = pc /\ q.key = key /\ q.dir = d /\ (q.met <=> others # {}) /\ q.i = 0
  BY DEF ImgIdle, ImgCalls, ImgPcs, PullPcs, RemoveImgPcs, StatusPcs, BuildPcs
<1>5. CallFits(q) /\ Filled(q, disk[d])
  BY <1>4 DEF CallFits, Filled, PullPcs, RemoveImgPcs, StatusPcs, BuildPcs
<1>6. ASSUME NEW x \in ImgReqs
      PROVE  /\ p(x) \in ImgCalls /\ (p(x).met <=> img[x].met \/ x \in others) /\ p(x).pc = img[x].pc /\ p(x).op = img[x].op
             /\ p(x).dir = img[x].dir /\ p(x).key = img[x].key /\ p(x).v = img[x].v /\ p(x).i = img[x].i
  BY <1>3 DEF ImgTyped, ImgCalls
<1>7. /\ img'[r] = q /\ \A x \in ImgReqs \ {r} : img'[x] = p(x)
      /\ img' \in [ImgReqs -> ImgCalls]
  BY <1>2, <1>4, <1>6
<1> HIDE DEF q, p
<1>8. ImgTyped'
  BY <1>1, <1>3, <1>7 DEF ImgTyped
<1>9. Meet'
  <2> SUFFICES ASSUME NEW y \in ImgReqs, NEW x \in ImgReqs, y # x, AtWork(img'[y]), AtWork(img'[x]), img'[y].dir = img'[x].dir
               PROVE  img'[y].met
    BY DEF Meet
  <2>1. CASE y = r
    <3>1. x \in others
      BY <1>4, <1>6, <1>7, <2>1 DEF AtWork
    <3> QED
      BY <1>4, <1>7, <2>1, <3>1
  <2>2. CASE x = r
    <3>1. y \in others
      BY <1>4, <1>6, <1>7, <2>2 DEF AtWork
    <3> QED
      BY <1>6, <1>7, <2>2, <3>1
  <2>3. CASE y # r /\ x # r
    <3>1. AtWork(img[y]) /\ AtWork(img[x]) /\ img[y].dir = img[x].dir
      BY <1>6, <1>7, <2>3 DEF AtWork
    <3>2. img[y].met
      BY <1>3, <3>1 DEF Meet
    <3> QED
      BY <1>6, <1>7, <2>3, <3>2
  <2> QED
    BY <2>1, <2>2, <2>3
<1>10. Bare' /\ PresentIsComplete'
  BY <1>1, <1>3 DEF Bare, PresentIsComplete, IsImageExist, Stored, Complete
<1>11. Cared'
  <2> SUFFICES ASSUME NEW e \in DirNames \ stray, disk[e].there, ~Owned(e) PROVE \E x \in ImgReqs : Cares(img'[x], e)
    BY <1>1 DEF Cared, Owned
  <2>1. PICK x \in ImgReqs : Cares(img[x], e)
    BY <1>3 DEF Cared
  <2>2. x # r
    BY <1>1, <2>1 DEF Cares
  <2> QED
    BY <1>6, <1>7, <2>1, <2>2 DEF Cares
<1>12. ASSUME NEW x \in ImgReqs
       PROVE  CallFits(img'[x]) /\ (AtWork(img'[x]) /\ ~img'[x].met => Filled(img'[x], disk'[img'[x].dir]))
  <2>1. CASE x = r
    BY <1>1, <1>4, <1>5, <1>7, <2>1
  <2>2. CASE x # r
    <3>1. CallFits(p(x))
      BY <1>3, <1>6 DEF CallFits
    <3>2. ASSUME AtWork(p(x)), ~p(x).met PROVE Filled(p(x), disk[p(x).dir])
      <4>1. Filled(img[x], disk[img[x].dir])
        BY <1>6, <3>2 DEF ImageInv, AtWork
      <4> QED
        BY <1>6, <4>1 DEF Filled
    <3> QED
      BY <1>1, <1>7, <2>2, <3>1, <3>2
  <2> QED
    BY <2>1, <2>2
<1> QED
  BY <1>8, <1>9, <1>10, <1>11, <1>12 DEF ImageInv

\* The keys and directories a request begins with.
LEMMA KeysAndDirs ==
    /\ \A s \in ImageNames \cup BuildNames : ParseImageRef(s) \in ImageKeys
    /\ \A s \in ImageNames : HubImageRef(s) \in ImageKeys /\ HubImageRef(s) \in DirNames
    /\ \A s \in BuildNames : BuildDir(s) \in DirNames
BY Zenon DEF ImageKeys, DirNames

\* Initially nothing is stored and nobody works.
LEMMA ImageInitHolds == ASSUME ImageInit PROVE ImageInv
<1>1. ImgIdle \in ImgCalls /\ ~AtWork(ImgIdle) /\ CallFits(ImgIdle)
  BY DEF ImgIdle, ImgCalls, ImgPcs, AtWork, CallFits, PullPcs, RemoveImgPcs, StatusPcs, BuildPcs
<1>2. NoFiles \in DirFiles /\ ~NoFiles.there
  BY DEF NoFiles, DirFiles
<1>3. DOMAIN ilm = {}
  BY DEF ImageInit
<1>4. ImgTyped
  BY <1>1, <1>2, <1>3 DEF ImageInit, ImgTyped
<1>5. Meet /\ Bare
  BY <1>1 DEF ImageInit, Meet, Bare
<1>6. PresentIsComplete
  BY <1>3 DEF PresentIsComplete
<1>7. Cared
  BY <1>2 DEF ImageInit, Cared
<1> QED
  BY <1>1, <1>4, <1>5, <1>6, <1>7 DEF ImageInit, ImageInv

\* Every step preserves the invariant: one case per kind of action.
LEMMA ImageStepKeeps == ASSUME ImageInv, [ImageNext]_imgVars PROVE ImageInv'
<1>1. CASE UNCHANGED imgVars
  BY <1>1 DEF imgVars, ImageInv, ImgTyped, Meet, Bare, PresentIsComplete, IsImageExist, Stored, Complete, Cared, Owned, Cares, AtWork
<1>2. CASE TagMoves
  BY <1>2, TagMovesKeeps
<1>3. ASSUME NEW r \in ImgReqs, NEW s \in ImageNames, BeginPull(r, s) PROVE ImageInv'
  <2>1. PICK k \in ImageKeys : k = HubImageRef(s) /\ k \in DirNames
    BY KeysAndDirs
  <2>2. BeginImg(r, "pull", "mkdir", k, k)
    BY <1>3, <2>1 DEF BeginPull
  <2> QED
    BY <2>1, <2>2, BeginKeeps
<1>4. ASSUME NEW r \in ImgReqs, NEW s \in ImageNames \cup BuildNames, BeginRemove(r, s) \/ GetImageStatus(r, s) PROVE ImageInv'
  <2>1. PICK k \in ImageKeys : k = ParseImageRef(s)
    BY KeysAndDirs
  <2>2. k \in DOMAIN ilm
    BY <1>4, <2>1 DEF BeginRemove, GetImageStatus, Stored
  <2>3. PICK d \in DirNames : d = ilm[k]
    BY <2>2 DEF ImageInv, ImgTyped
  <2>4. CASE BeginRemove(r, s)
    <3>1. BeginImg(r, "remove", "files", k, d)
      BY <2>1, <2>3, <2>4 DEF BeginRemove
    <3> QED
      BY <3>1, BeginKeeps
  <2>5. CASE GetImageStatus(r, s)
    <3>1. BeginImg(r, "status", "told", k, d) \/ BeginImg(r, "status", "drop", k, d)
      BY <2>1, <2>3, <2>5 DEF GetImageStatus
    <3> QED
      BY <3>1, BeginKeeps
  <2> QED
    BY <1>4, <2>4, <2>5
<1>5. ASSUME NEW r \in ImgReqs, NEW s \in BuildNames, BeginStoreBuilt(r, s) PROVE ImageInv'
  <2>1. PICK k \in ImageKeys, d \in DirNames : k = ParseImageRef(s) /\ d = BuildDir(s)
    BY KeysAndDirs
  <2>2. BeginImg(r, "build", "check", k, d)
    BY <1>5, <2>1 DEF BeginStoreBuilt
  <2> QED
    BY <2>1, <2>2, BeginKeeps
<1>6. ASSUME NEW r \in ImgReqs, PullStep(r) PROVE ImageInv'
  BY <1>6, CreateOutputDirectoryKeeps, FetchTokenKeeps, FetchManifestKeeps, DownloadBlobKeeps, WriteConfigKeeps, ApplyLayerKeeps,
     StorePulledKeeps, PullFailsKeeps, RemoveOutputDirectoryKeeps DEF PullStep
<1>7. ASSUME NEW r \in ImgReqs, \/ RemoveFiles(r) \/ RemoveEntry(r) \/ RemovalFails(r) \/ EntryStays(r)
                                \/ StatusTold(r) \/ StatusDropsEntry(r) \/ StatusDropsFiles(r)
      PROVE  ImageInv'
  BY <1>7, RemoveFilesKeeps, RemoveEntryKeeps, RemovalFailsKeeps, EntryStaysKeeps, StatusToldKeeps, StatusDropsEntryKeeps, StatusDropsFilesKeeps
<1>8. ASSUME NEW r \in ImgReqs, \/ RemoveOldBuild(r) \/ ClearOldBuild(r) \/ CopyBuiltRootfs(r) \/ WriteBuiltConfig(r)
                                \/ StoreBuilt(r) \/ StoreBuiltFails(r)
      PROVE  ImageInv'
  BY <1>8, RemoveOldBuildKeeps, ClearOldBuildKeeps, CopyBuiltRootfsKeeps, WriteBuiltConfigKeeps, StoreBuiltKeeps, StoreBuiltFailsKeeps
<1> QED
  BY <1>1, <1>2, <1>3, <1>4, <1>5, <1>6, <1>7, <1>8 DEF ImageNext

\* The invariant gives the properties.
LEMMA ImageInvIsSound == ASSUME ImageAssumption, ImageInv PROVE ImageSound
<1>1. ImageTypeOK
  <2>1. \A d \in DirNames : disk[d] \in DirFiles
    BY DEF ImageInv, ImgTyped
  <2>2. \A f \in DirFiles : f.config \in {0, 1, 2, Built} /\ f.tree \subseteq {"base", "app1", "app2", "built"}
    BY DEF DirFiles, LayerNames
  <2> QED
    BY <2>1, <2>2 DEF ImageInv, ImgTyped, ImageTypeOK
<1>2. FoundByName
  <2> SUFFICES ASSUME NEW pair \in KeyPairs PROVE pair[1] = pair[2]
    BY DEF FoundByName
  <2>1. PICK s \in {x \in ImageNames : ~Ambiguous(x)} : pair = <<HubImageRef(s), ParseImageRef(s)>>
    BY Zenon DEF KeyPairs
  <2>2. HubImageRef(s) = ParseImageRef(s)
    BY <2>1, ParsersAgree
  <2>3. PICK k : HubImageRef(s) = k
    OBVIOUS
  <2> QED
    BY <2>1, <2>2, <2>3
<1>3. NoStrayFiles
  BY DEF NoStrayFiles, ImageInv, Cared, Cares
<1> QED
  BY <1>1, <1>2, <1>3 DEF ImageSound, ImageInv

\* However pulls, removals, status queries and builds overlap and fail, for
\* names a registry accepts and of which no two get directories one inside the
\* other (ImageAssumption): an image the service takes for present has all of
\* its layers unless its directory is on record as mixed, emptied or half
\* emptied under its entry; an image is found by the name it was pulled by when
\* the two parsers of names read it alike; and files without an entry are some
\* request's work or on record as stray.
THEOREM ImagesStaySound == ImageSpec => []ImageSound
<1>1. ImageInit => ImageInv
  BY ImageInitHolds
<1>2. ImageInv /\ [ImageNext]_imgVars => ImageInv'
  BY ImageStepKeeps
<1>3. ImageInv => ImageSound
  BY ImageAssumption, ImageInvIsSound
<1> QED
  BY <1>1, <1>2, <1>3, PTL DEF ImageSpec
-----------------------------------------------------------------------------
(* ImageBuild *)
Over == {"closing", "done", "failing", "failed"}
RunPcs == {"alloc", "gateway", "dirs", "cgroup", "entry", "create", "start", "wait", "delete", "upper", "rollback"}
\* What a RUN that was given up may still outlive: its rollback and the build.
Beaten == bpc \in {"failing", "failed"} \/ (bpc = "rollback" /\ ~run.applied)

\* Where the build stands.
BuildState ==
    /\ prog \in Programs /\ pos \in 1 .. Len(prog) + 1
    /\ bpc \in {"ins"} \cup Over \cup RunPcs
    /\ bpc \in RunPcs => pos \in 1 .. Len(prog) /\ prog[pos].op = "RUN"
    /\ bpc \in RunPcs \ {"rollback"} => st.script = prog[pos].arg
    /\ bpc \in {"closing", "done"} => pos = Len(prog) + 1
    /\ st = [root |-> st.root, alias |-> st.alias, env |-> st.env, cmd |-> st.cmd, user |-> st.user, script |-> st.script, workdir |-> st.workdir]

RunRecord ==
    run \in [addr : BOOLEAN, dir : BOOLEAN, cgroup : BOOLEAN, csm : {"none", "creating", "created", "running", "stopped"},
             code : {-1, 0, 1}, final : BOOLEAN, proc : {"none", "waiting", "running", "exited"}, own : {0, 1},
             rt : {"none", "creating", "created", "running", "stopped"}, rtcode : {0, 1}, applied : BOOLEAN]

\* Between two RUNs nothing is left of them but what could not be undone.
RunUndone ==
    bpc \in Over \cup {"ins", "alloc"} =>
        /\ (run.addr => "addressLeft" \in hist) /\ (run.dir => "dirLeft" \in hist) /\ run.csm = "none"
        /\ run.cgroup => {"gaveUp", "halfCreated"} \cap hist # {}

\* How far the container of a RUN is at each step of it.
RunPlace ==
    /\ run.applied => bpc = "rollback" /\ run.csm = "stopped"
    /\ bpc \in {"gateway", "dirs", "cgroup", "entry", "create"} =>
           run.csm \in {"none", "creating"} /\ run.proc = "none" /\ run.addr /\ ~run.final /\ run.code = 0
    /\ bpc = "start" => run.csm = "created" /\ run.proc = "waiting" /\ run.addr /\ ~run.final /\ run.code = 0
    /\ bpc = "wait" => run.addr /\ \/ run.csm = "running" /\ run.proc \in {"running", "exited"} /\ ~run.final
                                   \/ run.csm = "stopped" /\ run.proc = "exited"
    /\ bpc \in {"delete", "upper"} => run.csm = "stopped"
    /\ bpc = "wait" /\ ~run.final => run.code = 0
    /\ bpc = "wait" /\ run.final => "misread" \in hist \/ run.code \in {-1, run.own}
    /\ run.proc \in {"waiting", "running"} => bpc \in {"start", "wait"} \/ ({"gaveUp", "halfCreated"} \cap hist # {} /\ Beaten)

\* The monitor owes an exit status only to a RUN that waits for it or is beaten.
MonitorPlace ==
    /\ mon \in {"idle", "resolve"}
    /\ mon = "resolve" => (bpc = "wait" /\ run.csm = "stopped" /\ ~run.final) \/ (Beaten /\ run.csm \in {"stopped", "none"})

\* A build does not go on after a command that failed.
ExitsSeen == 1 \in exits => "misread" \in hist \/ Beaten \/ (bpc = "wait" /\ run.proc = "exited" /\ run.own = 1)

NoFromBefore(b, p) == \A j \in 1 .. p - 1 : b[j].op # "FROM"
EarlyCopy(b) == \E i \in DOMAIN b : b[i].op \in {"COPY", "WORKDIR"} /\ NoFromBefore(b, i)

\* Temporary trees: each made by one instruction before this one and, unless
\* its making failed, registered for removal.
TreesKnown ==
    /\ NoRoot \in DOMAIN roots /\ NoRoot \notin cleanup /\ DOMAIN roots \subseteq 0 .. pos
    /\ bpc \in {"ins"} \cup RunPcs => pos \notin DOMAIN roots
    /\ bpc \notin {"done", "failed"} => st.root \in DOMAIN roots /\ cleanup \subseteq DOMAIN roots /\ \A i \in DOMAIN stages : stages[i].root \in DOMAIN roots
    /\ bpc \in {"done", "failed"} => DOMAIN roots \cap cleanup = {}
    /\ stages \in Seq(Range(stages))
    /\ "rootfsLeft" \in hist \/ DOMAIN roots \subseteq cleanup \cup {NoRoot}
    /\ roots[NoRoot] # {} => EarlyCopy(prog)
    /\ st.root = NoRoot => NoFromBefore(prog, pos)

\* Instruction f opens the stage that the instructions before p have made of
\* these files and these variables.
MadeOf(b, f, p, tree, env) ==
    /\ f \in 1 .. p - 1 /\ b[f].op = "FROM" /\ \A j \in f + 1 .. p - 1 : b[j].op # "FROM"
    /\ tree = {b[i].arg : i \in {j \in f .. p - 1 : b[j].op \in {"RUN", "COPY", "WORKDIR"}}} \cup FilesOf(b[f].arg)
    /\ env \in Seq(Range(env)) /\ \A n, k \in DOMAIN env : env[n][1] = env[k][1] => n = k
    /\ \A i \in f .. p - 1 : b[i].op = "ENV" /\ (\A j \in i + 1 .. p - 1 : b[j].op = "ENV" => b[j].arg # b[i].arg)
          => \E n \in DOMAIN env : env[n] = <<b[i].arg, b[i].val>>
Made(b, p, tree, env) == \E f \in 1 .. p - 1 : MadeOf(b, f, p, tree, env)

\* The instructions that have had their effect are those before this one.
Reached == IF run.applied THEN pos + 1 ELSE pos
StageMade == st.root # NoRoot /\ bpc \notin Over => Made(prog, Reached, roots[st.root], st.env)
ImageMade == bpc \in {"closing", "done"} => Made(prog, pos, image.files, image.env)

BuildInv == BuildState /\ RunRecord /\ RunUndone /\ RunPlace /\ MonitorPlace /\ ExitsSeen /\ TreesKnown /\ StageMade /\ ImageMade

\* A build file is a sequence.
LEMMA ProgramIsSeq == ASSUME BuildAssumption, NEW b \in Programs PROVE DOMAIN b = 1 .. Len(b) /\ Len(b) \in Nat
<1>1. b \in Seq(Range(b))
  BY DEF BuildAssumption
<1> QED
  BY <1>1

\* SetEnvVar gives one variable its value and keeps the others.
LEMMA SetEnvVarSets ==
  ASSUME NEW env, env \in Seq(Range(env)), NEW k, NEW v, \A n, m \in DOMAIN env : env[n][1] = env[m][1] => n = m
  PROVE  LET e == SetEnvVar(env, k, v)
         IN /\ e \in Seq(Range(e))
            /\ \A n, m \in DOMAIN e : e[n][1] = e[m][1] => n = m
            /\ \E n \in DOMAIN e : e[n] = <<k, v>>
            /\ \A n \in DOMAIN env : env[n][1] # k => n \in DOMAIN e /\ e[n] = env[n]
<1> DEFINE Test(p) == p[1] = k
           i == SelectInSeq(env, Test)
           e == SetEnvVar(env, k, v)
<1>1. DOMAIN env = 1 .. Len(env) /\ Len(env) \in Nat
  OBVIOUS
<1>2. CASE \E n \in DOMAIN env : env[n][1] = k
  <2>1. PICK n \in DOMAIN env : env[n][1] = k
    BY <1>2
  <2>2. \A m \in DOMAIN env : env[m][1] = k => m = n
    BY <2>1
  <2>3. {m \in 1 .. Len(env) : Test(env[m])} = {n}
    BY <1>1, <2>1, <2>2
  <2>4. i = n
    BY <2>3, <1>1, <2>1 DEF SelectInSeq, Min
  <2>5. e = [env EXCEPT ![n] = <<k, v>>]
    <3>1. n # 0
      BY <2>1, <1>1
    <3>2. e = IF i # 0 THEN [env EXCEPT ![i] = <<k, v>>] ELSE Append(env, <<k, v>>)
      BY Zenon DEF SetEnvVar
    <3> QED
      BY <3>1, <3>2, <2>4, Zenon
  <2>6. DOMAIN e = 1 .. Len(env) /\ e[n] = <<k, v>> /\ \A m \in DOMAIN env \ {n} : e[m] = env[m]
    BY <2>5, <1>1, <2>1
  <2>7. e \in Seq(Range(e))
    <3>1. e = [m \in 1 .. Len(env) |-> e[m]]
      BY <2>5, <1>1
    <3>2. \A m \in 1 .. Len(env) : e[m] \in Range(e)
      BY <2>6 DEF Range
    <3> HIDE DEF e
    <3> QED
      BY <3>1, <3>2, <1>1
  <2>8. e[n][1] = k
    BY <2>6
  <2>9. \A m, p \in DOMAIN e : e[m][1] = e[p][1] => m = p
    BY <2>8, <2>6, <1>1, <2>2
  <2> QED
    BY <2>7, <2>9, <2>6, <2>1, <1>1 DEF e
<1>3. CASE ~\E n \in DOMAIN env : env[n][1] = k
  <2>1. {m \in 1 .. Len(env) : Test(env[m])} = {}
    BY <1>1, <1>3
  <2>2. i = 0
    BY <2>1 DEF SelectInSeq
  <2>3. e = Append(env, <<k, v>>)
    BY <2>2 DEF SetEnvVar
  <2>4. DOMAIN e = 1 .. Len(env) + 1 /\ e[Len(env) + 1] = <<k, v>> /\ \A m \in DOMAIN env : e[m] = env[m]
    BY <2>3, <1>1
  <2>5. e \in Seq(Range(e))
    BY <2>4, <2>3, <1>1 DEF Range
  <2>6. e[Len(env) + 1][1] = k
    BY <2>4
  <2>7. \A m, p \in DOMAIN e : e[m][1] = e[p][1] => m = p
    BY <2>6, <2>4, <1>1, <1>3
  <2> QED
    BY <2>5, <2>7, <2>4, <1>1 DEF e
<1> QED
  BY <1>2, <1>3

\* An instruction that makes no file and sets no variable.
LEMMA MadeSkips ==
  ASSUME NEW b, NEW f, NEW p \in Nat, NEW tree, NEW env, MadeOf(b, f, p, tree, env), b[p].op \notin {"FROM", "RUN", "COPY", "WORKDIR", "ENV"}
  PROVE  MadeOf(b, f, p + 1, tree, env)
<1>1. f \in 1 .. p - 1 /\ f .. p = (f .. p - 1) \cup {p} /\ f + 1 .. p = (f + 1 .. p - 1) \cup {p} /\ (p + 1) - 1 = p
  BY DEF MadeOf
<1>2. {j \in f .. p : b[j].op \in {"RUN", "COPY", "WORKDIR"}} = {j \in f .. p - 1 : b[j].op \in {"RUN", "COPY", "WORKDIR"}}
  BY <1>1
<1>3. \A i \in f .. p : b[i].op = "ENV" /\ (\A j \in i + 1 .. p : b[j].op = "ENV" => b[j].arg # b[i].arg)
         => i \in f .. p - 1 /\ \A j \in i + 1 .. p - 1 : b[j].op = "ENV" => b[j].arg # b[i].arg
  BY <1>1
<1> QED
  BY <1>1, <1>2, <1>3 DEF MadeOf

\* RUN and COPY bring a file.
LEMMA MadeBrings ==
  ASSUME NEW b, NEW f, NEW p \in Nat, NEW tree, NEW env, MadeOf(b, f, p, tree, env), b[p].op \in {"RUN", "COPY", "WORKDIR"}
  PROVE  MadeOf(b, f, p + 1, tree \cup {b[p].arg}, env)
<1>1. f \in 1 .. p - 1 /\ f .. p = (f .. p - 1) \cup {p} /\ f + 1 .. p = (f + 1 .. p - 1) \cup {p} /\ (p + 1) - 1 = p
  BY DEF MadeOf
<1>2. {j \in f .. p : b[j].op \in {"RUN", "COPY", "WORKDIR"}} = {j \in f .. p - 1 : b[j].op \in {"RUN", "COPY", "WORKDIR"}} \cup {p}
  BY <1>1
<1>3. {b[i].arg : i \in {j \in f .. p : b[j].op \in {"RUN", "COPY", "WORKDIR"}}}
      = {b[i].arg : i \in {j \in f .. p - 1 : b[j].op \in {"RUN", "COPY", "WORKDIR"}}} \cup {b[p].arg}
  BY <1>2
<1>4. \A i \in f .. p : b[i].op = "ENV" /\ (\A j \in i + 1 .. p : b[j].op = "ENV" => b[j].arg # b[i].arg)
         => i \in f .. p - 1 /\ \A j \in i + 1 .. p - 1 : b[j].op = "ENV" => b[j].arg # b[i].arg
  BY <1>1
<1> QED
  BY <1>1, <1>3, <1>4 DEF MadeOf

\* ENV sets a variable.
LEMMA MadeSets ==
  ASSUME NEW b, NEW f, NEW p \in Nat, NEW tree, NEW env, MadeOf(b, f, p, tree, env), b[p].op = "ENV"
  PROVE  MadeOf(b, f, p + 1, tree, SetEnvVar(env, b[p].arg, b[p].val))
<1> DEFINE e == SetEnvVar(env, b[p].arg, b[p].val)
<1>1. f \in 1 .. p - 1 /\ f .. p = (f .. p - 1) \cup {p} /\ f + 1 .. p = (f + 1 .. p - 1) \cup {p} /\ (p + 1) - 1 = p
  BY DEF MadeOf
<1>2. {j \in f .. p : b[j].op \in {"RUN", "COPY", "WORKDIR"}} = {j \in f .. p - 1 : b[j].op \in {"RUN", "COPY", "WORKDIR"}}
  BY <1>1
<1>3. /\ e \in Seq(Range(e))
      /\ \A n, m \in DOMAIN e : e[n][1] = e[m][1] => n = m
      /\ \E n \in DOMAIN e : e[n] = <<b[p].arg, b[p].val>>
      /\ \A n \in DOMAIN env : env[n][1] # b[p].arg => n \in DOMAIN e /\ e[n] = env[n]
  <2>1. env \in Seq(Range(env)) /\ \A n, m \in DOMAIN env : env[n][1] = env[m][1] => n = m
    BY DEF MadeOf
  <2> QED
    BY <2>1, SetEnvVarSets
<1> HIDE DEF e
<1>4. ASSUME NEW i \in f .. p, b[i].op = "ENV", \A j \in i + 1 .. p : b[j].op = "ENV" => b[j].arg # b[i].arg
      PROVE  \E n \in DOMAIN e : e[n] = <<b[i].arg, b[i].val>>
  <2>1. CASE i = p
    BY <2>1, <1>3
  <2>2. CASE i # p
    <3>1. i \in f .. p - 1 /\ i + 1 .. p - 1 \subseteq i + 1 .. p /\ p \in i + 1 .. p
      BY <1>1, <2>2
    <3>2. PICK n \in DOMAIN env : env[n] = <<b[i].arg, b[i].val>>
      BY <3>1, <1>4 DEF MadeOf
    <3>3. env[n][1] # b[p].arg
      BY <3>1, <3>2, <1>4
    <3> QED
      BY <1>3, <3>2, <3>3
  <2> QED
    BY <2>1, <2>2
<1>5. f \in 1 .. p /\ b[f].op = "FROM" /\ \A j \in f + 1 .. p : b[j].op # "FROM"
  BY <1>1 DEF MadeOf
<1>6. tree = {b[i].arg : i \in {j \in f .. p - 1 : b[j].op \in {"RUN", "COPY", "WORKDIR"}}} \cup FilesOf(b[f].arg)
  BY DEF MadeOf
<1>7. tree = {b[i].arg : i \in {j \in f .. p : b[j].op \in {"RUN", "COPY", "WORKDIR"}}} \cup FilesOf(b[f].arg)
  BY <1>6, <1>2
<1>8. MadeOf(b, f, p + 1, tree, e)
  BY <1>1, <1>3, <1>4, <1>5, <1>7 DEF MadeOf
<1> QED
  BY <1>8 DEF e

\* FROM opens a stage of its image's files, and of no variable set yet.
LEMMA MadeOpens ==
  ASSUME NEW b, NEW p \in Nat \ {0}, NEW env, b[p].op = "FROM", env \in Seq(Range(env)), Len(env) < 2
  PROVE  MadeOf(b, p, p + 1, FilesOf(b[p].arg), env)
<1>1. (p + 1) - 1 = p /\ p .. p = {p} /\ p + 1 .. p = {} /\ p \in 1 .. p
  OBVIOUS
<1>2. {j \in p .. p : b[j].op \in {"RUN", "COPY", "WORKDIR"}} = {}
  BY <1>1
<1>3. \A i \in p .. p : b[i].op # "ENV"
  BY <1>1
<1>4. \A n, k \in DOMAIN env : n = k
  OBVIOUS
<1> QED
  BY <1>1, <1>2, <1>3, <1>4 DEF MadeOf

\* The invariant holds before the first instruction.
LEMMA BuildInitHolds == ASSUME BuildAssumption, BuildInit PROVE BuildInv
<1>1. prog \in Programs /\ DOMAIN prog = 1 .. Len(prog) /\ Len(prog) \in Nat
  BY ProgramIsSeq DEF BuildInit
<1>2. st = NewBuildState /\ run = NoRun /\ bpc = "ins" /\ pos = 1 /\ mon = "idle" /\ exits = {} /\ stages = <<>> /\ cleanup = {} /\ DOMAIN roots = {0} /\ roots[0] = {}
  BY DEF BuildInit, NoRoot
<1>3. BuildState
  BY <1>1, <1>2 DEF BuildState, NewBuildState, RunPcs, Over
<1>4. RunRecord /\ RunUndone /\ RunPlace /\ MonitorPlace /\ ExitsSeen
  BY <1>2 DEF RunRecord, RunUndone, RunPlace, MonitorPlace, ExitsSeen, NoRun
<1>5. TreesKnown
  BY <1>2 DEF TreesKnown, NewBuildState, NoRoot, NoFromBefore, Range
<1>6. StageMade /\ ImageMade
  BY <1>2 DEF StageMade, ImageMade, NewBuildState
<1> QED
  BY <1>3, <1>4, <1>5, <1>6 DEF BuildInv

\* A whole build file: the stage that stands is the last one.
LEMMA MadeWhole ==
  ASSUME BuildAssumption, BuildInv, bpc = "done"
  PROVE  BuiltAsWritten
<1>1. prog \in Programs /\ DOMAIN prog = 1 .. Len(prog) /\ Len(prog) \in Nat /\ pos = Len(prog) + 1
  BY ProgramIsSeq DEF BuildInv, BuildState
<1>2. PICK f \in 1 .. pos - 1 : MadeOf(prog, f, pos, image.files, image.env)
  BY DEF BuildInv, ImageMade, Made
<1>3. pos - 1 = Len(prog) /\ f \in DOMAIN prog
  BY <1>1
<1>4. LastFrom = f
  <2>1. prog[f].op = "FROM" /\ \A j \in f + 1 .. Len(prog) : prog[j].op # "FROM"
    BY <1>2, <1>3 DEF MadeOf
  <2>2. \A i \in DOMAIN prog : prog[i].op = "FROM" /\ (\A j \in i + 1 .. Len(prog) : prog[j].op # "FROM") => i = f
    <3> SUFFICES ASSUME NEW i \in DOMAIN prog, prog[i].op = "FROM", \A j \in i + 1 .. Len(prog) : prog[j].op # "FROM" PROVE i = f
      OBVIOUS
    <3>1. ~(i < f) /\ ~(f < i)
      BY <2>1, <1>1, <1>3
    <3> QED
      BY <3>1, <1>1, <1>3
  <2> QED
    BY <2>1, <2>2, <1>3 DEF LastFrom
<1>5. \A op : Asked(op) = {j \in f .. Len(prog) : prog[j].op \in op}
  BY <1>4 DEF Asked
<1>6. image.files = {prog[i].arg : i \in Asked({"RUN", "COPY", "WORKDIR"})} \cup FilesOf(prog[LastFrom].arg)
  <2>1. image.files = {prog[i].arg : i \in {j \in f .. Len(prog) : prog[j].op \in {"RUN", "COPY", "WORKDIR"}}} \cup FilesOf(prog[f].arg)
    BY <1>2, <1>3 DEF MadeOf
  <2> QED
    BY <2>1, <1>4, <1>5
<1>7. ASSUME NEW i \in Asked({"ENV"}), \A j \in Asked({"ENV"}) : j > i => prog[j].arg # prog[i].arg
      PROVE  \E n \in DOMAIN image.env : image.env[n] = <<prog[i].arg, prog[i].val>>
                                         /\ \A k \in DOMAIN image.env \ {n} : image.env[k][1] # prog[i].arg
  <2>1. i \in f .. Len(prog) /\ prog[i].op = "ENV"
    BY <1>5
  <2>2. \A j \in i + 1 .. Len(prog) : prog[j].op = "ENV" => prog[j].arg # prog[i].arg
    <3> SUFFICES ASSUME NEW j \in i + 1 .. Len(prog), prog[j].op = "ENV" PROVE prog[j].arg # prog[i].arg
      OBVIOUS
    <3>1. j \in f .. Len(prog) /\ j > i
      BY <2>1, <1>1, <1>3
    <3> QED
      BY <3>1, <1>5, <1>7
  <2>3. PICK n \in DOMAIN image.env : image.env[n] = <<prog[i].arg, prog[i].val>>
    BY <2>1, <2>2, <1>2, <1>3 DEF MadeOf
  <2>4. image.env[n][1] = prog[i].arg
    BY <2>3
  <2>5. \A k \in DOMAIN image.env : image.env[k][1] = image.env[n][1] => k = n
    BY <1>2 DEF MadeOf
  <2>6. \A k \in DOMAIN image.env \ {n} : image.env[k][1] # prog[i].arg
    BY <2>4, <2>5
  <2> QED
    BY <2>3, <2>6
<1>8. 1 \in exits => "misread" \in hist
  BY DEF BuildInv, ExitsSeen, Beaten
<1> QED
  BY <1>6, <1>7, <1>8 DEF BuiltAsWritten

\* The invariant gives the properties.
LEMMA BuildInvIsSound == ASSUME BuildAssumption, BuildInv PROVE BuildSound
<1>1. BuildTypeOK
  <2>1. bpc \in {"done", "failed"} \/ {st.root} \cup cleanup \cup {stages[i].root : i \in DOMAIN stages} \subseteq DOMAIN roots
    BY DEF BuildInv, TreesKnown
  <2> QED
    BY <2>1 DEF BuildInv, BuildState, TreesKnown, RunRecord, BuildTypeOK
<1>2. BuildLeavesNothing
  <2> SUFFICES ASSUME bpc \in {"done", "failed"}
      PROVE  /\ DOMAIN roots # {NoRoot} => "rootfsLeft" \in hist
             /\ roots[NoRoot] # {} => \E i \in DOMAIN prog : prog[i].op \in {"COPY", "WORKDIR"} /\ ~Preceded(i, "FROM")
    BY DEF BuildInv, RunUndone, Over, BuildLeavesNothing
  <2> QED
    BY DEF BuildInv, TreesKnown, EarlyCopy, NoFromBefore, Preceded
<1>3. RunKeepsAddress
  BY DEF BuildInv, RunPlace, RunKeepsAddress
<1>4. BuiltAsWritten
  BY MadeWhole DEF BuiltAsWritten
<1> QED
  BY <1>1, <1>2, <1>3, <1>4 DEF BuildSound

\* A step inside of a RUN that touches neither the build nor its trees.
LEMMA RunMoves ==
  ASSUME BuildInv, bpc \in RunPcs \ {"rollback"}, bpc' \in RunPcs, Keeps, roots' = roots, hist \subseteq hist', ~run.applied, ~run'.applied
  PROVE  BuildState' /\ TreesKnown' /\ StageMade' /\ ImageMade'
<1>1. BuildState'
  BY DEF BuildInv, BuildState, Keeps, RunPcs, Over
<1>2. TreesKnown'
  BY DEF BuildInv, TreesKnown, Keeps, RunPcs
<1>3. StageMade'
  BY DEF BuildInv, StageMade, Keeps, Reached, RunPcs, Over
<1>4. ImageMade'
  BY DEF ImageMade, RunPcs
<1> QED
  BY <1>1, <1>2, <1>3, <1>4

\* Outside the rollback no container's undoing is pending.
LEMMA NotApplied == ASSUME BuildInv, bpc # "rollback" PROVE ~run.applied
  BY DEF BuildInv, RunPlace

\* RunFails keeps BuildInv.
LEMMA RunFailsKeeps == ASSUME BuildInv, NEW pc \in RunPcs \ {"wait", "rollback"}, RunFails(pc) PROVE BuildInv'
<1>1. bpc = pc /\ bpc' = "rollback" /\ ~run.applied /\ Keeps /\ UNCHANGED <<roots, mon, exits>> /\ run' \in LeftBy(pc)
  BY NotApplied DEF RunFails, Goes, RunPcs
<1>2. PICK added : hist' = hist \cup added /\ (pc = "start" => added = {"gaveUp"}) /\ (pc = "create" /\ run' # run => added = {"halfCreated"})
  BY DEF RunFails
<1>3. RunRecord' /\ ~run'.applied /\ (run'.csm = run.csm \/ (pc = "create" /\ run'.csm \in {"creating", "created"}))
      /\ (run'.proc = run.proc \/ (pc \in {"create", "start"} /\ run' # run))
  <2>1. CASE pc = "create" /\ run' # run
    <3>1. PICK s \in {"creating", "created"} : run' = [run EXCEPT !.csm = s, !.rt = s, !.proc = "waiting"]
      BY <1>1, <2>1 DEF LeftBy
    <3> QED
      BY <1>1, <2>1, <3>1 DEF BuildInv, RunRecord
  <2>2. CASE pc = "start" /\ run' # run
    <3>1. PICK s \in {"created", "running"} : run' = [run EXCEPT !.proc = "running", !.rt = s]
      BY <1>1, <2>2 DEF LeftBy
    <3> QED
      BY <1>1, <2>2, <3>1 DEF BuildInv, RunRecord
  <2>3. CASE run' = run \/ run' = [run EXCEPT !.dir = TRUE]
    BY <1>1, <2>3 DEF BuildInv, RunRecord
  <2> QED
    BY <1>1, <2>1, <2>2, <2>3 DEF LeftBy
<1>4. \A x : x \in hist => x \in hist'
  BY <1>2
<1>6. RunUndone' /\ RunPlace' /\ MonitorPlace' /\ ExitsSeen'
  <2>1. RunUndone'
    BY <1>1 DEF RunUndone, Over
  <2>2. Beaten'
    BY <1>1, <1>3 DEF Beaten
  <2>3. run'.proc \in {"waiting", "running"} => {"gaveUp", "halfCreated"} \cap hist' # {}
    BY <1>1, <1>2, <1>3 DEF BuildInv, RunPlace, Beaten, RunPcs
  <2>4. RunPlace'
    BY <1>1, <1>3, <2>2, <2>3 DEF RunPlace
  <2>5. MonitorPlace'
    BY <1>1, <1>3, <2>2 DEF BuildInv, MonitorPlace, Beaten
  <2> QED
    BY <2>1, <2>2, <2>4, <2>5 DEF ExitsSeen
<1> QED
  BY <1>1, <1>3, <1>4, <1>6, RunMoves DEF BuildInv, RunPcs

\* Allocate keeps BuildInv.
LEMMA AllocateKeeps == ASSUME BuildInv, AllocateBuildAddress PROVE BuildInv'
<1>1. bpc \in {"alloc", "gateway"} /\ bpc' \in {"gateway", "dirs"} /\ Keeps /\ UNCHANGED <<roots, mon, exits, hist>> /\ ~run.applied
  BY NotApplied DEF AllocateBuildAddress, Goes
<1>2. run' = run \/ run' = [NoRun EXCEPT !.addr = TRUE]
  BY DEF AllocateBuildAddress
<1>3. RunRecord' /\ ~run'.applied
  BY <1>1, <1>2 DEF BuildInv, RunRecord, NoRun
<1>4. RunUndone' /\ RunPlace' /\ MonitorPlace' /\ ExitsSeen'
  <2>1. CASE bpc = "alloc" /\ run' = [NoRun EXCEPT !.addr = TRUE] /\ bpc' = "gateway"
    BY <1>1, <2>1 DEF BuildInv, NoRun, RunUndone, RunPlace, MonitorPlace, ExitsSeen, Beaten, Over
  <2>2. CASE bpc = "gateway" /\ run' = run /\ bpc' = "dirs"
    BY <1>1, <2>2 DEF BuildInv, RunUndone, RunPlace, MonitorPlace, ExitsSeen, Beaten, Over
  <2> QED
    BY <2>1, <2>2 DEF AllocateBuildAddress, Goes
<1> QED
  BY <1>1, <1>3, <1>4, RunMoves DEF BuildInv, RunPcs

\* Making the RUN's directories, cgroup and entry keeps BuildInv.
LEMMA SetupKeeps == ASSUME BuildInv, SetupBuild \/ StoreBuildEntry PROVE BuildInv'
<1>1. /\ bpc \in {"dirs", "cgroup", "entry"} /\ bpc' \in {"cgroup", "entry", "create"}
      /\ Keeps /\ UNCHANGED <<roots, mon, exits, hist>> /\ ~run.applied
  BY NotApplied DEF SetupBuild, StoreBuildEntry, Goes
<1>2. run' = [run EXCEPT !.dir = TRUE] \/ run' = [run EXCEPT !.cgroup = TRUE] \/ run' = [run EXCEPT !.csm = "creating"]
  BY DEF SetupBuild, StoreBuildEntry
<1>3. RunRecord' /\ ~run'.applied
  BY <1>1, <1>2 DEF BuildInv, RunRecord
<1>4. run'.csm \in {run.csm, "creating"} /\ run'.proc = run.proc /\ run'.addr = run.addr /\ run'.final = run.final /\ run'.code = run.code
  BY <1>2 DEF BuildInv, RunRecord
<1>5. RunUndone' /\ RunPlace' /\ MonitorPlace' /\ ExitsSeen'
  BY <1>1, <1>3, <1>4 DEF BuildInv, RunUndone, RunPlace, MonitorPlace, ExitsSeen, Beaten, Over
<1> QED
  BY <1>1, <1>3, <1>5, RunMoves DEF BuildInv, RunPcs

\* Creating and starting the RUN's container keeps BuildInv.
LEMMA StartKeeps == ASSUME BuildInv, StartBuildContainer PROVE BuildInv'
<1>1. bpc \in {"create", "start"} /\ bpc' \in {"start", "wait"} /\ Keeps /\ UNCHANGED <<roots, mon, exits, hist>> /\ ~run.applied
  BY NotApplied DEF StartBuildContainer, Goes
<1>2. \/ bpc = "create" /\ bpc' = "start" /\ run' = [run EXCEPT !.csm = "created", !.proc = "waiting", !.rt = "created"]
      \/ bpc = "start" /\ bpc' = "wait" /\ run' = [run EXCEPT !.csm = "running", !.proc = "running", !.rt = "running"]
  BY DEF StartBuildContainer, Goes
<1>3. RunRecord' /\ ~run'.applied
  BY <1>1, <1>2 DEF BuildInv, RunRecord
<1>4. /\ run'.addr = run.addr /\ run'.final = run.final /\ run'.code = run.code
      /\ bpc' = "start" => run'.csm = "created" /\ run'.proc = "waiting"
      /\ bpc' = "wait" => run'.csm = "running" /\ run'.proc = "running"
  BY <1>2 DEF BuildInv, RunRecord
<1>5. RunUndone' /\ RunPlace' /\ MonitorPlace' /\ ExitsSeen'
  BY <1>1, <1>3, <1>4 DEF BuildInv, RunUndone, RunPlace, MonitorPlace, ExitsSeen, Beaten, Over
<1> QED
  BY <1>1, <1>3, <1>5, RunMoves DEF BuildInv, RunPcs

\* Waiting for the container to stop keeps BuildInv: a status that ends the wait well is the process's own, or was misread.
LEMMA WaitKeeps == ASSUME BuildInv, WaitBuildContainerStopped PROVE BuildInv'
<1>1. bpc = "wait" /\ bpc' \in {"delete", "rollback"} /\ Keeps /\ UNCHANGED <<run, roots, mon, exits>> /\ ~run.applied
  BY NotApplied DEF WaitBuildContainerStopped
<1>2. hist' = hist \/ hist' = hist \cup {"gaveUp"}
  BY DEF WaitBuildContainerStopped
<1>3. RunRecord'
  BY <1>1 DEF BuildInv, RunRecord
<1>4. ASSUME bpc' = "delete" PROVE RunUndone' /\ RunPlace' /\ MonitorPlace' /\ ExitsSeen'
  <2>1. run.csm = "stopped" /\ run.code = 0 /\ run.final /\ hist' = hist
    BY <1>4 DEF WaitBuildContainerStopped, IsBuildExitStatusFinal
  <2>2. run.proc = "exited" /\ mon = "idle" /\ (1 \in exits => "misread" \in hist)
    BY <1>1, <2>1 DEF BuildInv, RunPlace, MonitorPlace, ExitsSeen, Beaten
  <2>3. RunUndone'
    BY <1>4 DEF RunUndone, Over
  <2>4. RunPlace'
    BY <1>1, <1>4, <2>1, <2>2 DEF RunPlace
  <2>5. MonitorPlace' /\ ExitsSeen'
    BY <1>1, <2>1, <2>2 DEF MonitorPlace, ExitsSeen
  <2> QED
    BY <2>3, <2>4, <2>5
<1>5. ASSUME bpc' = "rollback" PROVE RunUndone' /\ RunPlace' /\ MonitorPlace' /\ ExitsSeen'
  <2>1. run.proc \in {"waiting", "running"} => {"gaveUp", "halfCreated"} \cap hist' # {}
    <3>1. CASE run.csm = "stopped"
      BY <1>1, <3>1 DEF BuildInv, RunPlace
    <3>2. CASE run.csm # "stopped"
      BY <1>1, <1>5, <3>2 DEF WaitBuildContainerStopped, IsBuildExitStatusFinal
    <3> QED
      BY <3>1, <3>2
  <2>2. Beaten'
    BY <1>1, <1>5 DEF Beaten
  <2>3. RunUndone'
    BY <1>5 DEF RunUndone, Over
  <2>4. RunPlace'
    BY <1>1, <1>5, <2>1, <2>2 DEF RunPlace
  <2>5. run.csm \in {"stopped", "none"} \/ mon # "resolve"
    BY <1>1 DEF BuildInv, MonitorPlace
  <2>6. MonitorPlace' /\ ExitsSeen'
    BY <1>1, <2>2, <2>5 DEF BuildInv, MonitorPlace, ExitsSeen
  <2> QED
    BY <2>3, <2>4, <2>6
<1>6. RunUndone' /\ RunPlace' /\ MonitorPlace' /\ ExitsSeen'
  BY <1>1, <1>4, <1>5
<1>7. hist \subseteq hist'
  BY <1>2
<1> QED
  BY <1>1, <1>3, <1>6, <1>7, RunMoves DEF BuildInv, RunPcs

\* What a process, its shim and the monitor do leaves the build alone.
LEMMA ApartKeeps ==
  ASSUME BuildInv, Apart, run'.applied = run.applied, hist \subseteq hist'
  PROVE  BuildState' /\ TreesKnown' /\ StageMade' /\ ImageMade'
<1>1. BuildState'
  BY DEF BuildInv, BuildState, Apart
<1>2. TreesKnown'
  BY DEF BuildInv, TreesKnown, Apart
<1>3. StageMade'
  BY DEF BuildInv, StageMade, Apart, Reached
<1>4. ImageMade'
  BY DEF BuildInv, ImageMade, Apart
<1> QED
  BY <1>1, <1>2, <1>3, <1>4

\* ProcExits keeps BuildInv.
LEMMA ProcExitsKeeps == ASSUME BuildInv, NEW c \in {0, 1}, ProcExits(c) PROVE BuildInv'
<1>1. run.proc = "running" /\ run' = [run EXCEPT !.proc = "exited", !.own = c] /\ exits' = exits \cup {c} /\ Apart /\ UNCHANGED <<mon, hist>>
  BY DEF ProcExits
<1>2. /\ RunRecord' /\ run'.proc = "exited" /\ run'.own = c /\ run'.csm = run.csm /\ run'.addr = run.addr /\ run'.dir = run.dir
      /\ run'.cgroup = run.cgroup /\ run'.final = run.final /\ run'.code = run.code /\ run'.applied = run.applied
  BY <1>1 DEF BuildInv, RunRecord
<1>3. bpc = "wait" \/ ({"gaveUp", "halfCreated"} \cap hist # {} /\ Beaten)
  BY <1>1 DEF BuildInv, RunPlace
<1>4. bpc = "wait" => run.csm = "running" /\ ~run.final
  BY <1>1 DEF BuildInv, RunPlace
<1>5. bpc' = bpc /\ (Beaten => Beaten')
  BY <1>1, <1>2 DEF Apart, Beaten
<1>6. RunUndone' /\ MonitorPlace'
  BY <1>1, <1>2, <1>5 DEF BuildInv, RunUndone, MonitorPlace
<1>7. RunPlace'
  BY <1>1, <1>2, <1>3, <1>4, <1>5 DEF BuildInv, RunPlace
<1>8. ExitsSeen'
  <2>1. CASE c = 1
    BY <2>1, <1>2, <1>3, <1>5 DEF ExitsSeen
  <2>2. CASE c = 0
    <3>1. 1 \in exits => "misread" \in hist \/ Beaten
      BY <1>1 DEF BuildInv, ExitsSeen
    <3> QED
      BY <2>2, <3>1, <1>1, <1>5 DEF ExitsSeen
  <2> QED
    BY <2>1, <2>2
<1> QED
  BY <1>1, <1>2, <1>6, <1>7, <1>8, ApartKeeps DEF BuildInv

\* ShimReports keeps BuildInv.
LEMMA ShimReportsKeeps == ASSUME BuildInv, ShimReports PROVE BuildInv'
<1>1. run' = [run EXCEPT !.rt = run'.rt, !.rtcode = run'.rtcode] /\ Apart /\ UNCHANGED <<mon, hist, exits>>
      /\ run'.rt \in {"none", "creating", "created", "running", "stopped"} /\ run'.rtcode \in {0, 1}
  BY DEF ShimReports, BuildInv, RunRecord
<1>2. /\ RunRecord' /\ run'.proc = run.proc /\ run'.own = run.own /\ run'.csm = run.csm /\ run'.addr = run.addr /\ run'.dir = run.dir
      /\ run'.cgroup = run.cgroup /\ run'.final = run.final /\ run'.code = run.code /\ run'.applied = run.applied
  BY <1>1 DEF BuildInv, RunRecord
<1>3. RunUndone' /\ MonitorPlace' /\ RunPlace' /\ ExitsSeen'
  BY <1>1, <1>2 DEF BuildInv, RunUndone, MonitorPlace, RunPlace, ExitsSeen, Beaten, Apart
<1> QED
  BY <1>1, <1>2, <1>3, ApartKeeps DEF BuildInv

\* MonitorSees keeps BuildInv.
LEMMA MonitorSeesKeeps == ASSUME BuildInv, MonitorSees PROVE BuildInv'
<1>1. mon = "idle" /\ run.csm = "running" /\ run.proc \in {"exited", "none"} /\ run' = [run EXCEPT !.csm = "stopped"] /\ mon' = "resolve"
      /\ Apart /\ UNCHANGED <<exits, hist>>
  BY DEF MonitorSees
<1>2. /\ RunRecord' /\ run'.proc = run.proc /\ run'.own = run.own /\ run'.csm = "stopped" /\ run'.addr = run.addr /\ run'.dir = run.dir
      /\ run'.cgroup = run.cgroup /\ run'.final = run.final /\ run'.code = run.code /\ run'.applied = run.applied
  BY <1>1 DEF BuildInv, RunRecord
<1>3. bpc = "wait" \/ (bpc = "rollback" /\ ~run.applied)
  BY <1>1 DEF BuildInv, BuildState, RunUndone, RunPlace, RunPcs, Over
<1>4. RunUndone' /\ MonitorPlace' /\ RunPlace' /\ ExitsSeen'
  BY <1>1, <1>2, <1>3 DEF BuildInv, RunUndone, MonitorPlace, RunPlace, ExitsSeen, Beaten, Apart, Over
<1> QED
  BY <1>1, <1>2, <1>4, ApartKeeps DEF BuildInv

\* MonitorResolves keeps BuildInv.
LEMMA MonitorResolvesKeeps == ASSUME BuildInv, MonitorResolves PROVE BuildInv'
<1>1. mon = "resolve" /\ mon' = "idle" /\ Apart /\ UNCHANGED exits /\ hist \subseteq hist'
  BY DEF MonitorResolves
<1>2. \/ run' = run /\ hist' = hist /\ run.csm = "none"
      \/ /\ run' = [run EXCEPT !.code = run'.code, !.final = TRUE] /\ run'.code \in {-1, 0, 1} /\ run.csm # "none"
         /\ run'.code = -1 \/ run'.code = run.own \/ "misread" \in hist'
  BY DEF MonitorResolves, BuildInv, RunRecord
<1>3. /\ RunRecord' /\ run'.proc = run.proc /\ run'.own = run.own /\ run'.csm = run.csm /\ run'.addr = run.addr /\ run'.dir = run.dir
      /\ run'.cgroup = run.cgroup /\ run'.applied = run.applied
  BY <1>2 DEF BuildInv, RunRecord
<1>4. (bpc = "wait" /\ run.csm = "stopped" /\ ~run.final) \/ (Beaten /\ run.csm \in {"stopped", "none"})
  BY <1>1 DEF BuildInv, MonitorPlace
<1>5. bpc' = bpc /\ (Beaten => Beaten')
  BY <1>1, <1>3 DEF Apart, Beaten
<1>6. RunUndone' /\ MonitorPlace' /\ ExitsSeen'
  BY <1>1, <1>3, <1>5 DEF BuildInv, RunUndone, MonitorPlace, ExitsSeen
<1>7. RunPlace'
  <2>1. CASE bpc = "wait" /\ run.csm = "stopped" /\ ~run.final
    <3>1. run'.final /\ (run'.code = -1 \/ run'.code = run.own \/ "misread" \in hist')
      BY <2>1, <1>2 DEF BuildInv, RunRecord
    <3> QED
      BY <2>1, <3>1, <1>1, <1>3, <1>5 DEF BuildInv, RunPlace
  <2>2. CASE Beaten /\ run.csm \in {"stopped", "none"}
    BY <2>2, <1>1, <1>3, <1>5 DEF BuildInv, RunPlace, Beaten
  <2> QED
    BY <2>1, <2>2, <1>4
<1> QED
  BY <1>1, <1>3, <1>6, <1>7, ApartKeeps DEF BuildInv

\* Deleting the container and keeping its upper layer keeps BuildInv.
LEMMA DeleteKeeps == ASSUME BuildInv, DeleteBuildContainer PROVE BuildInv'
<1>0. ~run.applied
  BY NotApplied DEF DeleteBuildContainer, Goes
<1>1. CASE bpc = "delete"
  <2>1. bpc' = "upper" /\ run' = [run EXCEPT !.rt = "none", !.proc = "none"] /\ Keeps /\ UNCHANGED <<roots, mon, exits, hist>>
    BY <1>1 DEF DeleteBuildContainer, Goes
  <2>2. RunRecord' /\ ~run'.applied /\ run'.csm = run.csm /\ run'.proc = "none"
    BY <1>0, <2>1 DEF BuildInv, RunRecord
  <2>3. RunUndone' /\ RunPlace' /\ MonitorPlace' /\ ExitsSeen'
    BY <1>1, <2>1, <2>2 DEF BuildInv, RunUndone, RunPlace, MonitorPlace, ExitsSeen, Beaten, Over
  <2> QED
    BY <1>0, <1>1, <2>1, <2>2, <2>3, RunMoves DEF BuildInv, RunPcs
<1>2. CASE bpc = "upper"
  <2>1. bpc' = "rollback" /\ roots' = [roots EXCEPT ![st.root] = roots[st.root] \cup Written] /\ run' = [run EXCEPT !.applied = TRUE]
        /\ Keeps /\ UNCHANGED <<mon, exits, hist>>
    BY <1>2 DEF DeleteBuildContainer, Goes
  <2>2. RunRecord' /\ run'.applied /\ run'.csm = run.csm /\ run'.proc = run.proc
    BY <2>1 DEF BuildInv, RunRecord
  <2>3. RunUndone' /\ RunPlace' /\ MonitorPlace' /\ ExitsSeen'
    BY <1>2, <2>1, <2>2 DEF BuildInv, RunUndone, RunPlace, MonitorPlace, ExitsSeen, Beaten, Over
  <2>4. pos \in 1 .. Len(prog) /\ prog[pos].op = "RUN" /\ st.script = prog[pos].arg /\ st.root \in DOMAIN roots /\ pos \in Nat
    <3>1. Len(prog) \in Nat
      BY BuildAssumption, ProgramIsSeq DEF BuildInv, BuildState
    <3> QED
      BY <1>2, <3>1 DEF BuildInv, BuildState, TreesKnown, RunPcs
  <2>5. /\ DOMAIN roots' = DOMAIN roots /\ roots'[NoRoot] = roots[NoRoot]
        /\ st.root # NoRoot => roots'[st.root] = roots[st.root] \cup {prog[pos].arg}
    BY <2>1, <2>4 DEF BuildInv, TreesKnown, Written
  <2>6. BuildState'
    BY <1>2, <2>1 DEF BuildInv, BuildState, Keeps, RunPcs, Over
  <2>7. TreesKnown'
    BY <1>2, <2>1, <2>5 DEF BuildInv, TreesKnown, Keeps, RunPcs
  <2>8. StageMade'
    <3> SUFFICES ASSUME st.root # NoRoot PROVE StageMade'
      BY <2>1 DEF StageMade, Keeps
    <3>1. PICK f \in 1 .. pos - 1 : MadeOf(prog, f, pos, roots[st.root], st.env)
      BY <1>0, <1>2, <2>4 DEF BuildInv, StageMade, Reached, Made, Over
    <3>2. MadeOf(prog, f, pos + 1, roots[st.root] \cup {prog[pos].arg}, st.env)
      BY <3>1, <2>4, MadeBrings
    <3>5. Made(prog, pos + 1, roots[st.root] \cup {prog[pos].arg}, st.env)
      BY <3>2, <2>4 DEF Made
    <3>6. roots'[st.root] = roots[st.root] \cup {prog[pos].arg}
      BY <2>5
    <3>3. Made(prog, pos + 1, roots'[st.root], st.env)
      BY <3>5, <3>6
    <3>4. Reached' = pos + 1
      BY <2>1, <2>2 DEF Reached, Keeps
    <3> QED
      BY <3>3, <3>4, <2>1 DEF StageMade, Keeps
  <2>9. ImageMade'
    BY <2>1 DEF ImageMade
  <2> QED
    BY <2>2, <2>3, <2>6, <2>7, <2>8, <2>9 DEF BuildInv
<1> QED
  BY <1>1, <1>2 DEF DeleteBuildContainer, Goes

\* Undoing what the RUN made keeps BuildInv.
LEMMA RollbackKeeps == ASSUME BuildAssumption, BuildInv, RollbackBuild PROVE BuildInv'
<1>1. bpc = "rollback" /\ UNCHANGED <<prog, stages, roots, cleanup, mon, image, bfaults, exits, hist>> /\ st' = [st EXCEPT !.script = Nothing]
  BY DEF RollbackBuild
<1>2. IF run.applied THEN pos' = pos + 1 /\ bpc' = "ins" ELSE pos' = pos /\ bpc' = "failing"
  BY DEF RollbackBuild, Advance, Fails
<1>3. /\ RunRecord' /\ (run'.addr => "addressLeft" \in hist) /\ (run'.dir => "dirLeft" \in hist) /\ run'.csm = "none"
      /\ (run'.cgroup => {"gaveUp", "halfCreated"} \cap hist # {})
      /\ ~run'.applied /\ run'.proc = run.proc /\ run'.final = run.final /\ run'.code = run.code /\ run'.own = run.own
  <2>1. PICK a, d : a = (IF "addressLeft" \in hist THEN run.addr ELSE FALSE) /\ d = (IF "dirLeft" \in hist THEN run.dir ELSE FALSE)
    OBVIOUS
  <2>2. PICK r : r = IF "dirLeft" \in hist THEN run.rt ELSE "none"
    OBVIOUS
  <2>3. PICK left : /\ left \in BOOLEAN /\ (left => {"gaveUp", "halfCreated"} \cap hist # {})
                    /\ run' = [run EXCEPT !.addr = a, !.dir = d, !.cgroup = left, !.csm = "none", !.rt = r, !.applied = FALSE]
    <3>1. PICK l \in {CgroupLeft} \cup (IF "halfCreated" \in hist THEN {FALSE} ELSE {}) :
             run' = [run EXCEPT !.addr = a, !.dir = d, !.cgroup = l, !.csm = "none", !.rt = r, !.applied = FALSE]
      BY <2>1, <2>2, Zenon DEF RollbackBuild
    <3>2. CgroupLeft \in BOOLEAN /\ (CgroupLeft => {"gaveUp", "halfCreated"} \cap hist # {})
      BY <1>1 DEF BuildInv, RunRecord, RunPlace, CgroupLeft
    <3>3. l \in BOOLEAN /\ (l => {"gaveUp", "halfCreated"} \cap hist # {})
      BY <3>1, <3>2
    <3> QED
      BY <3>1, <3>3, Zenon
  <2>6. a \in BOOLEAN /\ d \in BOOLEAN /\ (a => "addressLeft" \in hist) /\ (d => "dirLeft" \in hist)
    BY <2>1 DEF BuildInv, RunRecord
  <2>4. r \in {"none", "creating", "created", "running", "stopped"}
    BY <2>2 DEF BuildInv, RunRecord
  <2>5. /\ run'.addr = a /\ run'.dir = d /\ run'.cgroup = left /\ run'.csm = "none" /\ run'.rt = r /\ run'.rtcode = run.rtcode
        /\ ~run'.applied /\ run'.proc = run.proc /\ run'.final = run.final /\ run'.code = run.code /\ run'.own = run.own
    BY <2>3 DEF BuildInv, RunRecord
  <2>7. RunRecord'
    <3>1. run' = [addr |-> a, dir |-> d, cgroup |-> left, csm |-> "none", code |-> run.code, final |-> run.final, proc |-> run.proc,
                  own |-> run.own, rt |-> r, rtcode |-> run.rtcode, applied |-> FALSE]
      BY <2>3 DEF BuildInv, RunRecord
    <3> QED
      BY <2>3, <2>4, <2>6, <3>1 DEF BuildInv, RunRecord
  <2> QED
    BY <2>3, <2>5, <2>6, <2>7
<1>4. Len(prog) \in Nat /\ pos \in 1 .. Len(prog) /\ prog[pos].op = "RUN"
  BY <1>1, ProgramIsSeq DEF BuildInv, BuildState, RunPcs
<1>5. st'.root = st.root /\ st'.env = st.env /\ st' = [root |-> st'.root, alias |-> st'.alias, env |-> st'.env, cmd |-> st'.cmd, user |-> st'.user, script |-> st'.script, workdir |-> st'.workdir]
  BY <1>1 DEF BuildInv, BuildState
<1>6. BuildState'
  BY <1>1, <1>2, <1>4, <1>5 DEF BuildInv, BuildState, Over, RunPcs
<1>7. RunUndone' /\ RunPlace' /\ MonitorPlace' /\ ExitsSeen'
  BY <1>1, <1>2, <1>3 DEF BuildInv, RunUndone, RunPlace, MonitorPlace, ExitsSeen, Beaten
<1>8. TreesKnown'
  <2>1. pos \notin DOMAIN roots /\ DOMAIN roots \subseteq 0 .. pos' /\ pos' \notin DOMAIN roots
    BY <1>1, <1>2, <1>4 DEF BuildInv, TreesKnown, RunPcs
  <2>2. st.root = NoRoot => NoFromBefore(prog, pos')
    <3> SUFFICES ASSUME st.root = NoRoot, NEW j \in 1 .. pos' - 1 PROVE prog[j].op # "FROM"
      BY DEF NoFromBefore
    <3>1. j = pos \/ j \in 1 .. pos - 1
      BY <1>2, <1>4
    <3> QED
      BY <1>4, <3>1 DEF BuildInv, TreesKnown, NoFromBefore
  <2> QED
    BY <2>1, <2>2, <1>1, <1>2, <1>4, <1>5 DEF BuildInv, TreesKnown, RunPcs
<1>9. StageMade'
  <2>1. run.applied => pos' = Reached /\ Reached' = pos'
    BY <1>2, <1>3 DEF Reached
  <2> QED
    BY <2>1, <1>1, <1>2, <1>4, <1>5 DEF BuildInv, StageMade, Over
<1>10. ImageMade'
  BY <1>2 DEF ImageMade
<1> QED
  BY <1>3, <1>6, <1>7, <1>8, <1>9, <1>10 DEF BuildInv

\* An instruction leaves what is known of RUNs alone.
LEMMA InsKeepsRuns ==
  ASSUME BuildInv, bpc = "ins", bpc' \in {"ins", "failing", "closing", "alloc"}, NoContainerChange, hist \subseteq hist'
  PROVE  RunRecord' /\ RunUndone' /\ RunPlace' /\ MonitorPlace' /\ ExitsSeen' /\ Reached = pos /\ Reached' = pos'
<1>1. UNCHANGED <<run, mon, exits>> /\ ~run.applied
  BY NotApplied DEF NoContainerChange
<1>2. RunRecord' /\ Reached = pos /\ Reached' = pos'
  BY <1>1 DEF BuildInv, RunRecord, Reached
<1>3. mon = "idle" /\ run.csm = "none" /\ run.proc \notin {"waiting", "running"} /\ (1 \in exits => "misread" \in hist)
  BY DEF BuildInv, RunUndone, RunPlace, MonitorPlace, ExitsSeen, Beaten
<1>4. RunUndone'
  BY <1>1 DEF BuildInv, RunUndone
<1>5. RunPlace'
  BY <1>1, <1>3 DEF RunPlace
<1>6. MonitorPlace' /\ ExitsSeen'
  BY <1>1, <1>3 DEF MonitorPlace, ExitsSeen
<1> QED
  BY <1>2, <1>4, <1>5, <1>6

\* Naming one more stage keeps every stage's root within the known ones.
LEMMA StagesGrow ==
  ASSUME NEW past, NEW new, NEW x, NEW D, past \in Seq(Range(past)), \A i \in DOMAIN past : past[i].root \in D, x.root \in D, new = Append(past, x)
  PROVE  new \in Seq(Range(new)) /\ \A i \in DOMAIN new : new[i].root \in D
<1>1. DOMAIN new = 1 .. Len(past) + 1 /\ new[Len(past) + 1] = x /\ \A i \in 1 .. Len(past) : new[i] = past[i]
  OBVIOUS
<1>4. new \in Seq(Range(new))
  BY <1>1 DEF Range
<1> QED
  BY <1>1, <1>4

\* An instruction that fails and leaves at most a tree of its own.
LEMMA InsFails ==
  ASSUME BuildAssumption, BuildInv, bpc = "ins", Fails, NoContainerChange, UNCHANGED <<prog, st, cleanup, image>>, hist \subseteq hist',
         roots' = roots \/ (roots' = MkdirTemp({}) /\ "rootfsLeft" \in hist'),
         stages' = stages \/ stages' = Append(stages, [name |-> st.alias, root |-> st.root])
  PROVE  BuildInv'
<1>1. bpc' = "failing" /\ pos' = pos /\ Len(prog) \in Nat /\ pos \in 1 .. Len(prog) + 1
  BY ProgramIsSeq DEF Fails, BuildInv, BuildState
<1>2. RunRecord' /\ RunUndone' /\ RunPlace' /\ MonitorPlace' /\ ExitsSeen'
  BY <1>1, InsKeepsRuns
<1>3. BuildState'
  BY <1>1 DEF BuildInv, BuildState, Over, RunPcs
<1>4. NoRoot \in DOMAIN roots' /\ roots'[NoRoot] = roots[NoRoot] /\ DOMAIN roots \subseteq DOMAIN roots' /\ DOMAIN roots' \subseteq DOMAIN roots \cup {pos}
      /\ ("rootfsLeft" \in hist' \/ roots' = roots)
  BY <1>1 DEF BuildInv, TreesKnown, MkdirTemp, NoRoot
<1>5. stages' \in Seq(Range(stages')) /\ \A i \in DOMAIN stages' : stages'[i].root \in DOMAIN roots'
  <2>1. /\ stages \in Seq(Range(stages)) /\ (\A i \in DOMAIN stages : stages[i].root \in DOMAIN roots') /\ st.root \in DOMAIN roots'
    BY <1>4 DEF BuildInv, TreesKnown
  <2>2. CASE stages' = Append(stages, [name |-> st.alias, root |-> st.root])
    <3>1. PICK x : x = [name |-> st.alias, root |-> st.root]
      OBVIOUS
    <3>2. x.root = st.root /\ stages' = Append(stages, x)
      BY <3>1, <2>2
    <3> QED
      BY <2>1, <3>2, StagesGrow
  <2> QED
    BY <2>1, <2>2
<1>6. TreesKnown'
  <2>1. DOMAIN roots' \subseteq 0 .. pos'
    BY <1>1, <1>4 DEF BuildInv, TreesKnown
  <2>2. st'.root \in DOMAIN roots' /\ cleanup' \subseteq DOMAIN roots' /\ NoRoot \notin cleanup'
    BY <1>4 DEF BuildInv, TreesKnown
  <2>3. "rootfsLeft" \in hist' \/ DOMAIN roots' \subseteq cleanup' \cup {NoRoot}
    BY <1>4 DEF BuildInv, TreesKnown
  <2>4. (roots'[NoRoot] # {} => EarlyCopy(prog')) /\ (st'.root = NoRoot => NoFromBefore(prog', pos'))
    BY <1>1, <1>4 DEF BuildInv, TreesKnown
  <2> QED
    BY <1>1, <1>4, <1>5, <2>1, <2>2, <2>3, <2>4 DEF TreesKnown, RunPcs
<1>7. StageMade' /\ ImageMade'
  BY <1>1 DEF StageMade, ImageMade, Over
<1> QED
  BY <1>2, <1>3, <1>6, <1>7 DEF BuildInv

\* What is known at an instruction.
LEMMA AtInstruction ==
  ASSUME BuildAssumption, BuildInv, bpc = "ins", pos <= Len(prog)
  PROVE  /\ Len(prog) \in Nat /\ pos \in 1 .. Len(prog) /\ pos \in Nat \ {0} /\ pos \in DOMAIN prog
         /\ NoRoot \in DOMAIN roots /\ st.root \in DOMAIN roots /\ DOMAIN roots \subseteq 0 .. pos /\ pos \notin DOMAIN roots /\ pos # NoRoot
         /\ st.root # NoRoot => Made(prog, pos, roots[st.root], st.env)
<1>1. prog \in Programs /\ Len(prog) \in Nat /\ pos \in 1 .. Len(prog) /\ DOMAIN prog = 1 .. Len(prog)
  BY ProgramIsSeq DEF BuildInv, BuildState
<1>2. Reached = pos
  BY NotApplied DEF Reached
<1> QED
  BY <1>1, <1>2 DEF BuildInv, TreesKnown, StageMade, Over, NoRoot

\* An instruction that goes on with the same trees registered.
LEMMA InsAdvances ==
  ASSUME BuildAssumption, BuildInv, bpc = "ins", pos <= Len(prog), Advance, NoContainerChange, UNCHANGED <<prog, stages, cleanup, image, hist>>,
         prog[pos].op # "FROM", NEW env, NEW tree,
         st' = [root |-> st.root, alias |-> st'.alias, env |-> env, cmd |-> st'.cmd, user |-> st'.user, script |-> st'.script, workdir |-> st'.workdir],
         DOMAIN roots' = DOMAIN roots, roots'[st.root] = tree, st.root # NoRoot => roots'[NoRoot] = roots[NoRoot],
         st.root = NoRoot /\ tree # {} => EarlyCopy(prog),
         st.root # NoRoot => Made(prog, pos + 1, tree, env)
  PROVE  BuildInv'
<1>1. bpc' = "ins" /\ pos' = pos + 1
  BY DEF Advance
<1>2. /\ Len(prog) \in Nat /\ pos \in 1 .. Len(prog) /\ pos \in Nat \ {0} /\ pos \in DOMAIN prog
      /\ NoRoot \in DOMAIN roots /\ st.root \in DOMAIN roots /\ DOMAIN roots \subseteq 0 .. pos /\ pos \notin DOMAIN roots
  BY AtInstruction
<1>3. RunRecord' /\ RunUndone' /\ RunPlace' /\ MonitorPlace' /\ ExitsSeen' /\ Reached' = pos'
  BY <1>1, InsKeepsRuns
<1>4. st'.root = st.root /\ st'.env = env
  OBVIOUS
<1>5. BuildState'
  BY <1>1, <1>2, <1>4 DEF BuildInv, BuildState, Over, RunPcs
<1>6. TreesKnown'
  <2>1. DOMAIN roots' \subseteq 0 .. pos' /\ pos' \notin DOMAIN roots'
    BY <1>1, <1>2
  <2>2. roots'[NoRoot] # {} => EarlyCopy(prog)
    BY <1>2 DEF BuildInv, TreesKnown
  <2>3. st'.root = NoRoot => NoFromBefore(prog, pos')
    <3> SUFFICES ASSUME st.root = NoRoot, NEW j \in 1 .. pos' - 1 PROVE prog[j].op # "FROM"
      BY <1>4 DEF NoFromBefore
    <3>1. j = pos \/ j \in 1 .. pos - 1
      BY <1>1, <1>2
    <3> QED
      BY <3>1 DEF BuildInv, TreesKnown, NoFromBefore
  <2> QED
    BY <1>1, <1>2, <1>4, <2>1, <2>2, <2>3 DEF BuildInv, TreesKnown, RunPcs
<1>7. StageMade' /\ ImageMade'
  BY <1>1, <1>3, <1>4 DEF StageMade, ImageMade
<1> QED
  BY <1>3, <1>5, <1>6, <1>7 DEF BuildInv

\* An instruction that changes only the configuration keeps BuildInv.
LEMMA SimpleKeeps == ASSUME BuildAssumption, BuildInv, ApplySimple PROVE BuildInv'
<1>1. bpc = "ins" /\ pos <= Len(prog) /\ Ins = prog[pos] /\ NoContainerChange /\ UNCHANGED <<prog, stages, roots, cleanup, image, bfaults, hist>>
  BY DEF ApplySimple, AtIns, Ins
<1>2. CASE Fails /\ UNCHANGED st
  BY <1>1, <1>2, InsFails
<1>3. CASE Advance
  <2>1. prog[pos].op \in {"ENV", "CMD", "USER", "LABEL"}
    BY <1>1, <1>3 DEF ApplySimple, AtIns
  <2>2. /\ pos \in Nat \ {0} /\ st.root \in DOMAIN roots
        /\ st.root # NoRoot => Made(prog, pos, roots[st.root], st.env)
        /\ st.root = NoRoot /\ roots[NoRoot] # {} => EarlyCopy(prog)
    BY <1>1, AtInstruction DEF BuildInv, TreesKnown
  <2>3. st = [root |-> st.root, alias |-> st.alias, env |-> st.env, cmd |-> st.cmd, user |-> st.user, script |-> st.script, workdir |-> st.workdir]
    BY DEF BuildInv, BuildState
  <2>4. CASE prog[pos].op = "ENV"
    <3>1. PICK e : e = SetEnvVar(st.env, prog[pos].arg, prog[pos].val)
      OBVIOUS
    <3>2. st' = [st EXCEPT !.env = e]
      BY <1>1, <1>3, <2>4, <3>1 DEF ApplySimple, AtIns, Advance, Fails
    <3>3. st' = [root |-> st.root, alias |-> st'.alias, env |-> e, cmd |-> st'.cmd, user |-> st'.user, script |-> st'.script, workdir |-> st'.workdir]
      BY <2>3, <3>2
    <3>4. st.root # NoRoot => Made(prog, pos + 1, roots[st.root], e)
      <4> SUFFICES ASSUME st.root # NoRoot PROVE Made(prog, pos + 1, roots[st.root], e)
        OBVIOUS
      <4>1. PICK f \in 1 .. pos - 1 : MadeOf(prog, f, pos, roots[st.root], st.env)
        BY <2>2 DEF Made
      <4>2. MadeOf(prog, f, pos + 1, roots[st.root], e)
        BY <4>1, <2>2, <2>4, <3>1, MadeSets
      <4> QED
        BY <4>1, <4>2, <2>2 DEF Made
    <3> QED
      BY <1>1, <1>3, <2>2, <2>4, <3>3, <3>4, InsAdvances
  <2>5. CASE prog[pos].op # "ENV"
    <3>1. st' = [st EXCEPT !.cmd = Ins.arg] \/ st' = [st EXCEPT !.user = Ins.arg] \/ st' = st
      BY <1>1, <1>3, <2>5 DEF ApplySimple, AtIns, Advance, Fails, Configured
    <3>2. st' = [root |-> st.root, alias |-> st'.alias, env |-> st.env, cmd |-> st'.cmd, user |-> st'.user, script |-> st'.script, workdir |-> st'.workdir]
      BY <2>3, <3>1
    <3>3. st.root # NoRoot => Made(prog, pos + 1, roots[st.root], st.env)
      <4> SUFFICES ASSUME st.root # NoRoot PROVE Made(prog, pos + 1, roots[st.root], st.env)
        OBVIOUS
      <4>1. PICK f \in 1 .. pos - 1 : MadeOf(prog, f, pos, roots[st.root], st.env)
        BY <2>2 DEF Made
      <4>2. MadeOf(prog, f, pos + 1, roots[st.root], st.env)
        BY <4>1, <2>1, <2>2, <2>5, MadeSkips
      <4> QED
        BY <4>1, <4>2, <2>2 DEF Made
    <3> QED
      BY <1>1, <1>3, <2>1, <2>2, <2>5, <3>2, <3>3, InsAdvances
  <2> QED
    BY <2>4, <2>5
<1> QED
  BY <1>2, <1>3 DEF ApplySimple

\* A COPY, from the context or a stage, keeps BuildInv.
LEMMA CopyKeeps == ASSUME BuildAssumption, BuildInv, ApplyCopy PROVE BuildInv'
<1>1. bpc = "ins" /\ pos <= Len(prog) /\ prog[pos].op = "COPY" /\ Ins = prog[pos] /\ NoContainerChange /\ UNCHANGED <<prog, st, stages, cleanup, image>>
  BY DEF ApplyCopy, AtIns, Ins
<1>2. CASE Fails /\ (UNCHANGED <<roots, hist>> \/ (roots' = MkdirTemp({}) /\ hist' = hist \cup {"rootfsLeft"}))
  BY <1>1, <1>2, InsFails
<1>3. CASE Advance /\ roots' = [roots EXCEPT ![st.root] = roots[st.root] \cup {Ins.arg}] /\ UNCHANGED hist
  <2>1. /\ pos \in Nat \ {0} /\ pos \in DOMAIN prog /\ st.root \in DOMAIN roots /\ NoRoot \in DOMAIN roots
        /\ st.root # NoRoot => Made(prog, pos, roots[st.root], st.env)
    BY <1>1, AtInstruction
  <2>2. st = [root |-> st.root, alias |-> st.alias, env |-> st.env, cmd |-> st.cmd, user |-> st.user, script |-> st.script, workdir |-> st.workdir]
    BY DEF BuildInv, BuildState
  <2>3. PICK tree : tree = roots[st.root] \cup {prog[pos].arg}
    OBVIOUS
  <2>4. DOMAIN roots' = DOMAIN roots /\ roots'[st.root] = tree /\ (st.root # NoRoot => roots'[NoRoot] = roots[NoRoot])
    BY <1>1, <1>3, <2>1, <2>3
  <2>5. st.root = NoRoot => EarlyCopy(prog)
    BY <1>1, <2>1 DEF BuildInv, TreesKnown, EarlyCopy
  <2>6. st.root # NoRoot => Made(prog, pos + 1, tree, st.env)
    <3> SUFFICES ASSUME st.root # NoRoot PROVE Made(prog, pos + 1, tree, st.env)
      OBVIOUS
    <3>1. PICK f \in 1 .. pos - 1 : MadeOf(prog, f, pos, roots[st.root], st.env)
      BY <2>1 DEF Made
    <3>2. MadeOf(prog, f, pos + 1, tree, st.env)
      BY <3>1, <1>1, <2>1, <2>3, MadeBrings
    <3> QED
      BY <3>1, <3>2, <2>1 DEF Made
  <2>7. st' = [root |-> st.root, alias |-> st'.alias, env |-> st.env, cmd |-> st'.cmd, user |-> st'.user, script |-> st'.script, workdir |-> st'.workdir]
    BY <1>1, <2>2
  <2> QED
    BY <1>1, <1>3, <2>4, <2>5, <2>6, <2>7, InsAdvances
<1> QED
  BY <1>2, <1>3 DEF ApplyCopy

\* A WORKDIR, which makes a directory, keeps BuildInv.
LEMMA WorkdirKeeps == ASSUME BuildAssumption, BuildInv, ApplyWorkdir PROVE BuildInv'
<1>1. bpc = "ins" /\ pos <= Len(prog) /\ prog[pos].op = "WORKDIR" /\ Ins = prog[pos] /\ NoContainerChange /\ UNCHANGED <<prog, stages, cleanup, image, hist>>
  BY DEF ApplyWorkdir, AtIns, Ins
<1>2. CASE Fails /\ UNCHANGED <<st, roots>>
  BY <1>1, <1>2, InsFails
<1>3. CASE Advance /\ roots' = [roots EXCEPT ![st.root] = roots[st.root] \cup {Ins.arg}] /\ st' = [st EXCEPT !.workdir = Ins.arg]
  <2>1. /\ pos \in Nat \ {0} /\ pos \in DOMAIN prog /\ st.root \in DOMAIN roots /\ NoRoot \in DOMAIN roots
        /\ st.root # NoRoot => Made(prog, pos, roots[st.root], st.env)
    BY <1>1, AtInstruction
  <2>2. st = [root |-> st.root, alias |-> st.alias, env |-> st.env, cmd |-> st.cmd, user |-> st.user, script |-> st.script, workdir |-> st.workdir]
    BY DEF BuildInv, BuildState
  <2>3. PICK tree : tree = roots[st.root] \cup {prog[pos].arg}
    OBVIOUS
  <2>4. DOMAIN roots' = DOMAIN roots /\ roots'[st.root] = tree /\ (st.root # NoRoot => roots'[NoRoot] = roots[NoRoot])
    BY <1>1, <1>3, <2>1, <2>3
  <2>5. st.root = NoRoot => EarlyCopy(prog)
    BY <1>1, <2>1 DEF BuildInv, TreesKnown, EarlyCopy
  <2>6. st.root # NoRoot => Made(prog, pos + 1, tree, st.env)
    <3> SUFFICES ASSUME st.root # NoRoot PROVE Made(prog, pos + 1, tree, st.env)
      OBVIOUS
    <3>1. PICK f \in 1 .. pos - 1 : MadeOf(prog, f, pos, roots[st.root], st.env)
      BY <2>1 DEF Made
    <3>2. MadeOf(prog, f, pos + 1, tree, st.env)
      BY <3>1, <1>1, <2>1, <2>3, MadeBrings
    <3> QED
      BY <3>1, <3>2, <2>1 DEF Made
  <2>7. st' = [root |-> st.root, alias |-> st'.alias, env |-> st.env, cmd |-> st'.cmd, user |-> st'.user, script |-> st'.script, workdir |-> st'.workdir]
    BY <1>3, <2>2
  <2> QED
    BY <1>1, <1>3, <2>4, <2>5, <2>6, <2>7, InsAdvances
<1> QED
  BY <1>2, <1>3 DEF ApplyWorkdir

\* ApplyRun keeps the invariant: the RUN it begins has nothing yet.
LEMMA RunBegins == ASSUME BuildAssumption, BuildInv, ApplyRun PROVE BuildInv'
<1>1. bpc = "ins" /\ pos <= Len(prog) /\ prog[pos].op = "RUN" /\ Ins = prog[pos] /\ NoContainerChange
      /\ UNCHANGED <<prog, stages, roots, cleanup, image, hist>>
  BY DEF ApplyRun, AtIns, Ins
<1>2. CASE Fails /\ UNCHANGED st
  BY <1>1, <1>2, InsFails
<1>3. CASE bpc' = "alloc" /\ st' = [st EXCEPT !.script = Ins.arg] /\ UNCHANGED pos
  <2>1. pos \in 1 .. Len(prog) /\ Len(prog) \in Nat
    BY <1>1, AtInstruction
  <2>2. st'.root = st.root /\ st'.env = st.env /\ st'.script = prog[pos].arg
        /\ st' = [root |-> st'.root, alias |-> st'.alias, env |-> st'.env, cmd |-> st'.cmd, user |-> st'.user, script |-> st'.script, workdir |-> st'.workdir]
    BY <1>1, <1>3 DEF BuildInv, BuildState
  <2>3. RunRecord' /\ RunUndone' /\ RunPlace' /\ MonitorPlace' /\ ExitsSeen' /\ Reached = pos /\ Reached' = pos'
    BY <1>1, <1>3, InsKeepsRuns
  <2>4. BuildState'
    BY <1>1, <1>3, <2>1, <2>2 DEF BuildInv, BuildState, Over, RunPcs
  <2>5. TreesKnown'
    BY <1>1, <1>3, <2>2 DEF BuildInv, TreesKnown
  <2>6. StageMade' /\ ImageMade'
    BY <1>1, <1>3, <2>2, <2>3 DEF BuildInv, StageMade, ImageMade, Over
  <2> QED
    BY <2>3, <2>4, <2>5, <2>6 DEF BuildInv
<1> QED
  BY <1>2, <1>3 DEF ApplyRun

\* Unsupported keeps BuildInv.
LEMMA UnsupportedKeeps == ASSUME BuildAssumption, BuildInv, Unsupported PROVE BuildInv'
  BY InsFails DEF Unsupported

\* A FROM, which opens a stage, keeps BuildInv.
LEMMA FromKeeps == ASSUME BuildAssumption, BuildInv, ApplyFrom PROVE BuildInv'
<1>1. bpc = "ins" /\ pos <= Len(prog) /\ prog[pos].op = "FROM" /\ Ins = prog[pos] /\ NoContainerChange /\ UNCHANGED <<prog, image>>
  BY DEF ApplyFrom, AtIns, Ins
<1>2. stages' = stages \/ stages' = Append(stages, [name |-> st.alias, root |-> st.root])
  BY DEF ApplyFrom
<1>3. CASE Fails /\ UNCHANGED <<st, cleanup>> /\ (UNCHANGED <<roots, hist>> \/ (roots' = MkdirTemp({}) /\ hist' = hist \cup {"rootfsLeft"}))
  BY <1>1, <1>2, <1>3, InsFails
<1>4. CASE roots' = MkdirTemp(FilesOf(Ins.arg)) /\ st' = StateFrom(Ins.arg, Ins.alias) /\ cleanup' = cleanup \cup {pos} /\ Advance /\ UNCHANGED <<bfaults, hist>>
  <2>1. /\ Len(prog) \in Nat /\ pos \in 1 .. Len(prog) /\ pos \in Nat \ {0} /\ pos # NoRoot
        /\ NoRoot \in DOMAIN roots /\ st.root \in DOMAIN roots /\ DOMAIN roots \subseteq 0 .. pos /\ pos \notin DOMAIN roots
    BY <1>1, AtInstruction
  <2>2. bpc' = "ins" /\ pos' = pos + 1
    BY <1>4 DEF Advance
  <2>3. PICK env : env = IF Ins.arg = "scratch" THEN <<>> ELSE <<<<"E", "image">>>>
    OBVIOUS
  <2>4. st'.root = pos /\ st'.env = env
        /\ st' = [root |-> st'.root, alias |-> st'.alias, env |-> st'.env, cmd |-> st'.cmd, user |-> st'.user, script |-> st'.script, workdir |-> st'.workdir]
    BY <1>4, <2>3 DEF StateFrom, NewBuildState
  <2>5. env \in Seq(Range(env)) /\ Len(env) < 2
    <3>1. CASE env = <<>>
      BY <3>1
    <3>2. CASE env = <<<<"E", "image">>>>
      <4>1. DOMAIN env = 1 .. 1 /\ Len(env) = 1
        BY <3>2
      <4> QED
        BY <4>1, <3>2 DEF Range
    <3> QED
      BY <3>1, <3>2, <2>3
  <2>6. DOMAIN roots' = DOMAIN roots \cup {pos} /\ roots'[pos] = FilesOf(prog[pos].arg) /\ \A d \in DOMAIN roots : roots'[d] = roots[d]
    BY <1>1, <1>4, <2>1 DEF MkdirTemp
  <2>7. RunRecord' /\ RunUndone' /\ RunPlace' /\ MonitorPlace' /\ ExitsSeen' /\ Reached' = pos'
    BY <1>1, <1>4, <2>2, InsKeepsRuns
  <2>8. BuildState'
    BY <1>1, <2>1, <2>2, <2>4 DEF BuildInv, BuildState, Over, RunPcs
  <2>9. stages' \in Seq(Range(stages')) /\ \A i \in DOMAIN stages' : stages'[i].root \in DOMAIN roots'
    <3>1. stages \in Seq(Range(stages)) /\ (\A i \in DOMAIN stages : stages[i].root \in DOMAIN roots') /\ st.root \in DOMAIN roots'
      BY <1>1, <2>1, <2>6 DEF BuildInv, TreesKnown
    <3>2. PICK x : x = [name |-> st.alias, root |-> st.root]
      OBVIOUS
    <3>3. x.root = st.root
      BY <3>2
    <3>4. stages' = stages \/ stages' = Append(stages, x)
      BY <1>2, <3>2
    <3> QED
      BY <3>1, <3>3, <3>4, StagesGrow
  <2>10. TreesKnown'
    <3>1. DOMAIN roots' \subseteq 0 .. pos' /\ pos' \notin DOMAIN roots'
      BY <2>1, <2>2, <2>6
    <3>2. NoRoot \in DOMAIN roots' /\ NoRoot \notin cleanup' /\ st'.root # NoRoot /\ st'.root \in DOMAIN roots' /\ cleanup' \subseteq DOMAIN roots'
      BY <1>1, <1>4, <2>1, <2>4, <2>6 DEF BuildInv, TreesKnown
    <3>3. "rootfsLeft" \in hist' \/ DOMAIN roots' \subseteq cleanup' \cup {NoRoot}
      BY <1>4, <2>6 DEF BuildInv, TreesKnown
    <3>4. roots'[NoRoot] # {} => EarlyCopy(prog')
      BY <1>1, <2>1, <2>6 DEF BuildInv, TreesKnown
    <3> QED
      BY <2>2, <2>9, <3>1, <3>2, <3>3, <3>4 DEF TreesKnown
  <2>11. StageMade'
    <3>1. MadeOf(prog, pos, pos + 1, FilesOf(prog[pos].arg), env)
      BY <1>1, <2>1, <2>5, MadeOpens
    <3>2. Made(prog, pos + 1, FilesOf(prog[pos].arg), env)
      BY <3>1, <2>1 DEF Made
    <3> QED
      BY <3>2, <1>1, <2>2, <2>4, <2>6, <2>7 DEF StageMade
  <2>12. ImageMade'
    BY <2>2 DEF ImageMade
  <2> QED
    BY <2>7, <2>8, <2>10, <2>11, <2>12 DEF BuildInv
<1> QED
  BY <1>3, <1>4 DEF ApplyFrom

\* StoreBuild keeps BuildInv.
LEMMA StoreBuildKeeps == ASSUME BuildAssumption, BuildInv, StoreBuild PROVE BuildInv'
<1>1. bpc = "ins" /\ pos > Len(prog) /\ NoContainerChange /\ UNCHANGED <<prog, pos, st, stages, roots, cleanup, hist>>
  BY DEF StoreBuild
<1>2. Len(prog) \in Nat /\ pos \in 1 .. Len(prog) + 1 /\ pos = Len(prog) + 1
  BY <1>1, ProgramIsSeq DEF BuildInv, BuildState
<1>3. CASE bpc' = "failing" /\ UNCHANGED image
  BY <1>1, <1>3, InsFails DEF Fails
<1>4. CASE st.root # NoRoot /\ bpc' = "closing" /\ image' = [files |-> roots[st.root], env |-> st.env, cmd |-> st.cmd, user |-> st.user, workdir |-> st.workdir]
  <2>1. RunRecord' /\ RunUndone' /\ RunPlace' /\ MonitorPlace' /\ ExitsSeen' /\ Reached = pos
    BY <1>1, <1>4, InsKeepsRuns
  <2>2. BuildState'
    BY <1>1, <1>2, <1>4 DEF BuildInv, BuildState, Over, RunPcs
  <2>3. TreesKnown'
    BY <1>1, <1>4 DEF BuildInv, TreesKnown, RunPcs
  <2>4. StageMade'
    BY <1>4 DEF StageMade, Over
  <2>5. Made(prog, pos, roots[st.root], st.env)
    BY <1>1, <1>4, <2>1 DEF BuildInv, StageMade, Over
  <2>6. image'.files = roots[st.root] /\ image'.env = st.env
    BY <1>4
  <2>7. ImageMade'
    BY <1>1, <2>5, <2>6 DEF ImageMade
  <2> QED
    BY <2>1, <2>2, <2>3, <2>4, <2>7 DEF BuildInv
<1> QED
  BY <1>3, <1>4 DEF StoreBuild

\* Removing the temporary trees keeps BuildInv.
LEMMA CleanupKeeps == ASSUME BuildAssumption, BuildInv, CleanupRootfs PROVE BuildInv'
<1>1. bpc \in {"failing", "closing"} /\ bpc' = (IF bpc = "closing" THEN "done" ELSE "failed")
      /\ UNCHANGED <<run, mon, exits, prog, pos, st, stages, cleanup, image, bfaults, hist>>
  BY DEF CleanupRootfs, NoContainerChange
<1>2. DOMAIN roots' = DOMAIN roots \ cleanup /\ \A d \in DOMAIN roots \ cleanup : roots'[d] = roots[d]
  BY DEF CleanupRootfs
<1>3. BuildState'
  BY <1>1 DEF BuildInv, BuildState, Over, RunPcs
<1>4. RunRecord' /\ RunUndone' /\ Reached' = Reached
  BY <1>1 DEF BuildInv, RunRecord, RunUndone, Over, Reached
<1>5. RunPlace' /\ MonitorPlace' /\ ExitsSeen'
  <2>1. bpc = "failing" => bpc' = "failed" /\ Beaten /\ Beaten'
    BY <1>1 DEF Beaten
  <2>2. bpc = "closing" => bpc' = "done" /\ ~Beaten
    BY <1>1 DEF Beaten
  <2>3. RunPlace'
    BY <1>1, <2>1, <2>2 DEF BuildInv, RunPlace
  <2>4. MonitorPlace' /\ ExitsSeen'
    BY <1>1, <2>1, <2>2 DEF BuildInv, MonitorPlace, ExitsSeen
  <2> QED
    BY <2>3, <2>4
<1>6. TreesKnown'
  <2>1. NoRoot \in DOMAIN roots' /\ roots'[NoRoot] = roots[NoRoot] /\ DOMAIN roots' \subseteq DOMAIN roots
    BY <1>2 DEF BuildInv, TreesKnown
  <2> QED
    BY <1>1, <1>2, <2>1 DEF BuildInv, TreesKnown, RunPcs
<1>7. StageMade' /\ ImageMade'
  BY <1>1 DEF BuildInv, StageMade, ImageMade, Over
<1> QED
  BY <1>3, <1>4, <1>5, <1>6, <1>7 DEF BuildInv

\* BuildStep keeps BuildInv.
LEMMA BuildStepKeeps == ASSUME BuildAssumption, BuildInv, [BuildNext]_buildVars PROVE BuildInv'
<1>1. CASE UNCHANGED buildVars
  BY <1>1 DEF buildVars, BuildInv, BuildState, RunRecord, RunUndone, RunPlace, MonitorPlace, ExitsSeen, TreesKnown, StageMade, ImageMade, Reached, Beaten
<1>2. CASE ApplyFrom \/ ApplySimple \/ ApplyWorkdir \/ ApplyCopy \/ ApplyRun \/ Unsupported
  BY <1>2, FromKeeps, SimpleKeeps, WorkdirKeeps, CopyKeeps, RunBegins, UnsupportedKeeps
<1>3. CASE AllocateBuildAddress \/ SetupBuild \/ StoreBuildEntry \/ StartBuildContainer
  BY <1>3, AllocateKeeps, SetupKeeps, StartKeeps
<1>4. CASE WaitBuildContainerStopped \/ DeleteBuildContainer \/ RollbackBuild \/ StoreBuild \/ CleanupRootfs
  BY <1>4, WaitKeeps, DeleteKeeps, RollbackKeeps, StoreBuildKeeps, CleanupKeeps
<1>5. CASE \E pc \in {"alloc", "gateway", "dirs", "cgroup", "entry", "create", "start", "delete", "upper"} : RunFails(pc)
  BY <1>5, RunFailsKeeps DEF RunPcs
<1>6. CASE (\E c \in {0, 1} : ProcExits(c)) \/ ShimReports \/ MonitorSees \/ MonitorResolves
  BY <1>6, ProcExitsKeeps, ShimReportsKeeps, MonitorSeesKeeps, MonitorResolvesKeeps
<1> QED
  BY <1>1, <1>2, <1>3, <1>4, <1>5, <1>6 DEF BuildNext, BuildStep

\* Whatever a build file says and whichever steps fail, a build that is over
\* has left nothing behind but what the steps that fail before they register
\* it leave and the cgroup of a process that a RUN left running; the process of
\* a RUN keeps its address unless that RUN was given up or its create failed
\* half way; and a stored image is what the last stage of the build file says:
\* no command of it failed unless the monitor misread its exit code.
THEOREM BuildsStaySound == BuildSpec => []BuildSound
<1>1. BuildInit => BuildInv
  BY BuildAssumption, BuildInitHolds
<1>2. BuildInv /\ [BuildNext]_buildVars => BuildInv'
  BY BuildAssumption, BuildStepKeeps
<1>3. BuildInv => BuildSound
  BY BuildAssumption, BuildInvIsSound
<1> QED
  BY <1>1, <1>2, <1>3, PTL DEF BuildSpec
=============================================================================
