---------------------------- MODULE PolicyProofs ----------------------------
(***************************************************************************)
(* Proofs about PolicyService, for any policies, pods, request threads and  *)
(* bounds: through overlapping commits, reverts and crashes the store stays *)
(* readable, a removal mark is not lost, and after an undisturbed commit    *)
(* the chains are what the store says.                                      *)
(***************************************************************************)
EXTENDS PolicyService, FiniteSetTheorems, TLAPS

-----------------------------------------------------------------------------
(***************************************************************************)
(* The threads                                                              *)
(***************************************************************************)
PolicyPcs == {"idle", "mode", "fix", "fixw", "pre", "ipt", "list", "each", "mark", "open", "copy",
              "rev2", "revopen", "revcopy", "rev3", "rec", "cmp", "rep", "ids", "undo", "setnp"}
Commands == [op : {"F", "A", "I"}, ch : Chains, tok : FixedRows]
Lists == UNION {[S -> Statuses] : S \in SUBSET Ids}
Files == Stores \cup {Broken, Absent}
PolicyThreads ==
    [pc : PolicyPcs, boot : BOOLEAN, mode : Modes \cup {""}, cmds : Seq(Seq(Commands)),
     chain : {"EW", "OBS", "ENF"}, todo : Lists, cur : Ids \cup {0}, want : BOOLEAN,
     commit : BOOLEAN, clean : BOOLEAN, buf : Files, dst : Names \cup {"gone"}]

\* The stages of BuildPredefinedPolicy
Stage(enforce, k) ==
    IF k = 1 THEN CreateChain ELSE IF k = 2 THEN InsertForward ELSE IF k = 3 THEN BuildRootChain(enforce)
    ELSE IF k = 4 THEN BuildEWChain ELSE IF enforce THEN BuildNSEnforceChain ELSE BuildNSObserveChain
Stages(cmds, enforce) ==
    Len(cmds) \in 1..5 /\ \A i \in 1..Len(cmds) : cmds[i] = Stage(enforce, 5 - Len(cmds) + i)

\* What a thread x knows from its own steps; m says if its work was crossed.
ThreadOK(t, x, m) ==
    /\ x.pc = "mode" => x.mode \in {"observe_next", "enforce_next"}
    /\ x.pc = "fixw" => x.mode \in Modes
    /\ x.pc = "ipt" => \E e \in BOOLEAN : Stages(x.cmds, e)
    /\ x.pc \in CopyPcs => x.buf # Absent /\ (x.buf = Broken \/ x.dst # "running" => m)
    /\ x.boot => t = Ctl /\ x.pc \in {"setnp", "open", "copy", "pre", "ipt", "list", "each", "mark"}
    /\ x.pc = "setnp" => x.boot
    /\ x.pc = "mark" => x.cur \in Ids
ThreadsOK == \A t \in Threads : ThreadOK(t, th[t], crossed)

\* A bootstrap has the daemon for itself.
Alone ==
    \A t \in Threads : th[t].boot =>
        \A u \in Threads \ {t} : th[u].pc = "idle" /\ ~th[u].boot

-----------------------------------------------------------------------------
(***************************************************************************)
(* The store and its backup                                                 *)
(***************************************************************************)
\* Bootstrap has not written the backup yet.
Restarted == th[Ctl].pc = "setnp" \/ (th[Ctl].boot /\ th[Ctl].pc = "open")
FilesOK ==
    /\ Content = Broken => crossed
    /\ ~crossed =>
        /\ Content = Absent => th[Ctl].pc = "setnp" \/ \E t \in Threads : th[t].pc = "rev2"
        /\ \A t \in Threads : th[t].pc = "rev2" => Content = Absent
        /\ \A t, u \in Threads : th[t].pc \in RevertPcs /\ th[u].pc \in RevertPcs => t = u
        /\ files["running"] = Absent => Restarted \/ \E t \in Threads : th[t].pc = "revopen"
        /\ files["running"] = Broken => Restarted \/ \E t \in Threads : th[t].pc \in CopyPcs

\* A commit that holds a policy in its list holds its removal mark too, or
\* the mark came late, or a revert met the commit.
MarksHeld ==
    \A t \in Threads, p \in Policies : Status(p) = "remove" /\ p \notin late /\ ~crossed =>
        /\ th[t].pc \in {"each", "mark"} /\ p \in DOMAIN th[t].todo => th[t].todo[p] = "remove"
        /\ th[t].pc = "mark" => th[t].cur # p

\* The inductive invariant of the store
StoreInv ==
    /\ PolicyTypeOK
    /\ chains \in [Chains -> Seq(FixedRows \cup Policies)]
    /\ th \in [Threads -> PolicyThreads]
    /\ ThreadsOK /\ Alone /\ FilesOK /\ MarksHeld

-----------------------------------------------------------------------------
(***************************************************************************)
(* The chains                                                               *)
(***************************************************************************)
\* In row the first verdict is v; the rules of policies stand before it.
Verdicts == {"DROP", "ACC", "RET"}
Leads(row, v) ==
    \E d \in DOMAIN row :
        /\ row[d] = v /\ v \in Verdicts
        /\ \A i \in DOMAIN row : IF i < d THEN row[i] \notin Verdicts \cup {""} ELSE row[i] \in Verdicts
Ends(ch, v) == Leads(chains[ch], v)

RootRows(enforce) == <<"est", "EW", IF enforce THEN "ENF" ELSE "OBS", "RET">>
Enforcing == chains["ROOT"] = RootRows(TRUE)
Skeleton ==
    /\ Contains(chains["FORWARD"], "ROOT")
    /\ chains["ROOT"] \in {RootRows(TRUE), RootRows(FALSE)}
    /\ Ends("EW", "DROP")
    /\ IF Enforcing THEN Ends("ENF", "DROP") ELSE Ends("OBS", "ACC")

Ruled(p) == Contains(chains[Chain(p)], Rule(p))
\* Store s says what the chains do.
ModeShown(s, enforce) == s.mode \in {"observe", "enforce"} => (enforce <=> s.mode = "enforce")
Shown(s) ==
    /\ ModeShown(s, Enforcing)
    /\ \A p \in Ids : s.pol[p] = "applied" => Ruled(p)
    /\ \A p \in Policies : Ruled(p) => s.pol[p] \in {"applied", "remove"}

\* What k stages of an undisturbed commit leave
Rebuilt(enforce, k) ==
    /\ k >= 1 => /\ k < 3 => chains["ROOT"] = << >>
                 /\ k < 4 => chains["EW"] = << >>
                 /\ chains["OBS"] = << >> /\ chains["ENF"] = << >>
    /\ k >= 2 => Contains(chains["FORWARD"], "ROOT")
    /\ k >= 3 => chains["ROOT"] = RootRows(enforce)
    /\ k >= 4 => chains["EW"] = <<"DROP", "RET">>

\* Thread t has read the list of chain ch, and is through with policy p.
Before(a, b) == (a = "EW" /\ b # "EW") \/ (a = "OBS" /\ b = "ENF")
Listed(t, ch) == Before(ch, th[t].chain) \/ (ch = th[t].chain /\ th[t].pc \in {"each", "mark"})
Handled(t, p) == Listed(t, Chain(p)) /\ ~(Chain(p) = th[t].chain /\ p \in DOMAIN th[t].todo)

\* Undisturbed, thread t in its list: a policy's rule is in place once it is
\* called applied, and nothing else is.
Inserting(t) ==
    /\ Skeleton
    /\ Content \in Stores => ModeShown(Content, Enforcing)
    /\ \A p \in Ids : Status(p) = "applied" /\ Handled(t, p) => Ruled(p)
    /\ \A p \in Policies : Ruled(p) =>
           /\ Handled(t, p)
           /\ Status(p) \in {"applied", "remove"} \/ (th[t].pc = "mark" /\ th[t].cur = p /\ Status(p) # "none")
    /\ th[t].pc = "mark" => th[t].cur \in Ids /\ Chain(th[t].cur) = th[t].chain /\ Ruled(th[t].cur)
    /\ th[t].pc \in {"each", "mark"} =>
           \A p \in DOMAIN th[t].todo : Chain(p) = th[t].chain /\ (p \in Policies => Status(p) # "none")

Undisturbed(t) ==
    th[t].clean =>
        /\ th[t].pc \in CommitPcs => Content # Absent /\ \A u \in Threads \ {t} : th[u].pc \notin WorkPcs
        /\ th[t].pc = "copy" => th[t].dst = "running"
        /\ th[t].pc = "ipt" => \E e \in BOOLEAN :
               /\ Stages(th[t].cmds, e) /\ Rebuilt(e, 5 - Len(th[t].cmds))
               /\ Content \in Stores => ModeShown(Content, e)
        /\ th[t].pc \in {"list", "each", "mark"} => Inserting(t)

\* While the chains are rebuilt nothing counts as installed; a backup under
\* way shows what is.
ThreadChains(t) ==
    /\ Undisturbed(t)
    /\ th[t].pc \in {"fixw", "ipt", "list", "each", "mark"} => inst = "no"
    /\ th[t].pc \in {"open", "copy"} /\ ~th[t].boot => inst # "saved"
    /\ th[t].pc \in CopyPcs /\ inst # "no" => th[t].dst = "running" /\ (th[t].buf \in Stores => Shown(th[t].buf))

Installed ==
    /\ inst # "no" => Skeleton /\ (Content \in Stores => Shown(Content))
    /\ inst # "no" /\ Content = Absent => \E t \in Threads : th[t].pc = "rev2"
    /\ inst = "saved" /\ files["running"] \in Stores => Shown(files["running"])

\* The inductive invariant of the policy service
PolicyInv == StoreInv /\ (\A t \in Threads : ThreadChains(t)) /\ Installed

-----------------------------------------------------------------------------
(***************************************************************************)
(* Files and records                                                        *)
(***************************************************************************)
LEMMA FileFacts ==
    /\ Absent \notin Stores /\ Broken \notin Stores /\ Absent # Broken
    /\ DefaultStore \in Stores /\ \A p \in Ids : DefaultStore.pol[p] = "none"
<1>1. /\ Absent.mode = "absent" /\ Broken.mode = "broken"
      /\ Absent.pol = DefaultStore.pol /\ Broken.pol = DefaultStore.pol
  BY DEF Absent, Broken, DefaultStore
<1>2. DefaultStore \in Stores /\ \A p \in Ids : DefaultStore.pol[p] = "none"
  BY DEF DefaultStore, Stores, Modes, Statuses
<1>3. \A s \in Stores : s.mode \in Modes
  BY DEF Stores
<1>4. QED
  BY <1>1, <1>2, <1>3 DEF Modes

\* What a call of the store reads
LEMMA LoadFacts ==
    ASSUME NEW f \in Files, Readable(f)
    PROVE  /\ Load(f) \in Stores /\ (f \in Stores => Load(f) = f) /\ f \in Stores \cup {Absent}
           /\ f = Absent => \A p \in Ids : Load(f).pol[p] = "none"
BY FileFacts DEF Files, Readable, Load

\* Marking a policy changes only its status.
LEMMA WithStatusFacts ==
    ASSUME NEW s \in Stores, NEW p \in Ids, NEW st \in Statuses
    PROVE  /\ WithStatus(s, p, st) \in Stores /\ WithStatus(s, p, st).mode = s.mode
           /\ \A q \in Ids : WithStatus(s, p, st).pol[q] = IF q = p THEN st ELSE s.pol[q]
BY DEF WithStatus, Stores

\* What a thread holds at rest and when the daemon boots.
LEMMA IdleFacts ==
    /\ Idle \in PolicyThreads /\ Idle.pc = "idle" /\ ~Idle.boot /\ Idle.clean
    /\ Boot \in PolicyThreads /\ Boot.pc = "setnp" /\ Boot.boot /\ Boot.clean
<1>1. << >> \in Seq(Seq(Commands))
  OBVIOUS
<1>2. << >> \in Lists
  <2>1. << >> \in [{} -> Statuses]
    OBVIOUS
  <2>2. QED
    BY <2>1 DEF Lists
<1>3. Absent \in Files
  BY DEF Files
<1>4. Idle \in PolicyThreads /\ Idle.pc = "idle" /\ ~Idle.boot /\ Idle.clean
  BY <1>1, <1>2, <1>3 DEF Idle, PolicyThreads, PolicyPcs, Names
<1>5. QED
  BY <1>4 DEF Boot, PolicyThreads, PolicyPcs

-----------------------------------------------------------------------------
(***************************************************************************)
(* A thread moves; a commit that starts may spoil another.                  *)
(***************************************************************************)
Like(x, y) ==
    /\ x.pc = y.pc /\ x.boot = y.boot /\ x.mode = y.mode /\ x.cmds = y.cmds /\ x.chain = y.chain
    /\ x.todo = y.todo /\ x.cur = y.cur /\ x.want = y.want /\ x.commit = y.commit /\ x.buf = y.buf
    /\ x.dst = y.dst /\ (x.clean => y.clean)
Moved(t) == th' \in [Threads -> PolicyThreads] /\ \A u \in Threads \ {t} : Like(th'[u], th[u])

\* A thread that goes on keeps the rest of its record.
LEMMA GotoMoves ==
    ASSUME StoreInv, NEW t \in Threads, NEW pc \in PolicyPcs, Goto(t, pc)
    PROVE  Moved(t) /\ th'[t].pc = pc /\ th'[t].boot = th[t].boot /\ th'[t].mode = th[t].mode
           /\ th'[t].cmds = th[t].cmds /\ th'[t].chain = th[t].chain /\ th'[t].todo = th[t].todo
           /\ th'[t].cur = th[t].cur /\ th'[t].clean = th[t].clean /\ th'[t].buf = th[t].buf
           /\ \A u \in Threads \ {t} : th'[u] = th[u]
BY DEF StoreInv, PolicyThreads, Goto, Moved, Like

\* A thread that moves leaves the others alone.
LEMMA SetMoves ==
    ASSUME StoreInv, NEW t \in Threads, NEW x \in PolicyThreads, th' = [th EXCEPT ![t] = x]
    PROVE  Moved(t) /\ th'[t] = x /\ \A u \in Threads \ {t} : th'[u] = th[u]
BY DEF StoreInv, Moved, Like

\* A thread that finishes is at rest.
LEMMA FinishMoves ==
    ASSUME StoreInv, NEW t \in Threads, Finish(t)
    PROVE  Moved(t) /\ th'[t].pc = "idle" /\ ~th'[t].boot /\ th'[t] = Idle /\ \A u \in Threads \ {t} : th'[u] = th[u]
BY IdleFacts DEF StoreInv, Finish, Moved, Like

\* A thread that aborts is at rest, or boots on.
LEMMA AbortMoves ==
    ASSUME StoreInv, NEW t \in Threads, Abort(t)
    PROVE  /\ Moved(t) /\ th'[t].boot = th[t].boot /\ th'[t].pc = IF th[t].boot THEN "setnp" ELSE "idle"
           /\ \A u \in Threads \ {t} : th'[u] = th[u]
<1>1. th[t].boot \in BOOLEAN
  BY DEF StoreInv, PolicyThreads
<1>2. PICK x \in PolicyThreads : x = IF th[t].boot THEN Boot ELSE Idle
  BY IdleFacts
<1>3. th'[t] = x /\ th' \in [Threads -> PolicyThreads] /\ \A u \in Threads \ {t} : th'[u] = th[u]
  BY <1>2 DEF StoreInv, Abort
<1>4. x.boot = th[t].boot /\ x.pc = IF th[t].boot THEN "setnp" ELSE "idle"
  <2>1. Idle.boot = FALSE /\ Boot.boot = TRUE
    BY DEF Idle, Boot
  <2>2. QED
    BY <1>1, <1>2, <2>1, IdleFacts
<1>5. QED
  BY <1>3, <1>4 DEF Moved, Like

\* A commit that starts beside another is not clean, nor is that one.
LEMMA StartCommitMoves ==
    ASSUME StoreInv, NEW t \in Threads, NEW pc \in PolicyPcs, StartCommit(t, pc)
    PROVE  /\ Moved(t) /\ th'[t].pc = pc /\ th'[t].boot = th[t].boot
           /\ th'[t].clean => Content # Absent /\ \A u \in Threads \ {t} : th[u].pc \notin WorkPcs
           /\ \A u \in Threads \ {t} : th'[u].clean => th[u].pc \notin CommitPcs
<1> DEFINE x == [Idle EXCEPT !.pc = pc, !.boot = th[t].boot,
                             !.clean = Content # Absent /\ ~Working(t)]
<1>1. x \in PolicyThreads /\ x.pc = pc /\ x.boot = th[t].boot
      /\ (x.clean => Content # Absent /\ \A u \in Threads \ {t} : th[u].pc \notin WorkPcs)
  BY IdleFacts DEF StoreInv, PolicyThreads, Working
<1>2. \A u \in Threads : th[u] \in PolicyThreads
  BY DEF StoreInv
<1> DEFINE spoilt(u) == [th[u] EXCEPT !.clean = FALSE]
<1>3. \A u \in Threads : spoilt(u) \in PolicyThreads /\ Like(spoilt(u), th[u]) /\ ~spoilt(u).clean
  BY <1>2 DEF PolicyThreads, Like
<1>4. th'[t] = x /\ \A u \in Threads \ {t} : th'[u] = IF th[u].pc \in CommitPcs THEN spoilt(u) ELSE th[u]
  BY DEF StartCommit
<1>5. th' \in [Threads -> PolicyThreads]
  <2>1. \A u \in Threads : th'[u] \in PolicyThreads
    BY <1>1, <1>2, <1>3, <1>4
  <2>2. th' = [u \in Threads |-> th'[u]]
    BY DEF StartCommit
  <2>3. QED
    BY <2>1, <2>2
<1>6. \A u \in Threads \ {t} : Like(th'[u], th[u]) /\ (th'[u].clean => th[u].pc \notin CommitPcs)
  <2> HIDE DEF spoilt
  <2>1. \A u \in Threads : Like(th[u], th[u])
    BY DEF Like
  <2>2. QED
    BY <1>3, <1>4, <2>1
<1>7. QED
  BY <1>1, <1>4, <1>5, <1>6 DEF Moved

-----------------------------------------------------------------------------
(***************************************************************************)
(* Steps that read the files, or save a store that the daemon may read      *)
(***************************************************************************)
MarksOf(x) ==
    \A p \in Policies : Status(p) = "remove" /\ p \notin late /\ ~crossed =>
        /\ x.pc \in {"each", "mark"} /\ p \in DOMAIN x.todo => x.todo[p] = "remove"
        /\ x.pc = "mark" => x.cur # p

\* A thread at work leaves the daemon's boot alone.
LEMMA AloneMoves ==
    ASSUME StoreInv, NEW t \in Threads, Moved(t),
           (th[t].pc # "idle" /\ (th'[t].boot => th[t].boot)) \/ (Serving /\ ~th'[t].boot)
    PROVE  Alone'
<1>1. Alone /\ \A u \in Threads \ {t} : th'[u].pc = th[u].pc /\ th'[u].boot = th[u].boot
  BY DEF StoreInv, Moved, Like
<1>2. CASE th[t].pc # "idle" /\ (th'[t].boot => th[t].boot)
  BY <1>1, <1>2 DEF Alone
<1>3. CASE Serving /\ ~th'[t].boot
  BY <1>1, <1>3 DEF Alone, Serving, Booting
<1>4. QED
  BY <1>2, <1>3

\* When one thread moves, all stay as the invariant asks.
LEMMA ThreadsMove ==
    ASSUME StoreInv, NEW t \in Threads, Moved(t), crossed => crossed', ThreadOK(t, th'[t], crossed')
    PROVE  ThreadsOK'
<1>1. \A u \in Threads : ThreadOK(u, th[u], crossed)
  BY DEF StoreInv, ThreadsOK
<1>2. ASSUME NEW u \in Threads \ {t} PROVE ThreadOK(u, th'[u], crossed')
  BY <1>1 DEF ThreadOK, Moved, Like
<1>3. QED
  BY <1>2 DEF ThreadsOK

\* A step that leaves the files alone keeps what is said of them.
LEMMA FilesKept ==
    ASSUME StoreInv, NEW t \in Threads, Moved(t), crossed' = crossed, files'["running"] = files["running"],
           files'["path"] = files["path"] \/ (files'["path"] \in Stores /\ Content # Absent),
           th[t].pc \notin {"rev2", "revopen", "copy", "revcopy", "setnp"}, ~(th[t].boot /\ th[t].pc = "open"),
           th'[t].pc \notin RevertPcs
    PROVE  FilesOK'
<1>1. FilesOK /\ \A u \in Threads \ {t} : th'[u].pc = th[u].pc /\ th'[u].boot = th[u].boot
  BY DEF StoreInv, Moved, Like
<1>2. Restarted => Restarted'
  BY <1>1 DEF Restarted, Threads
<1>3. files'["path"] \in Stores => files'["path"] # Absent /\ files'["path"] # Broken
  BY FileFacts
<1>4. \A u \in Threads : th'[u].pc \in RevertPcs => u # t /\ th[u].pc \in RevertPcs
  BY <1>1
<1>5. QED
  BY <1>1, <1>2, <1>3, <1>4 DEF FilesOK, Content, Threads, CopyPcs, RevertPcs

\* A step that takes no removal mark away keeps the marks.
LEMMA MarksKept ==
    ASSUME StoreInv, NEW t \in Threads, Moved(t), late' = late,
           \A p \in Policies : Status(p)' = "remove" => Status(p) = "remove", crossed => crossed', MarksOf(th'[t])
    PROVE  MarksHeld'
<1>1. MarksHeld /\ \A u \in Threads \ {t} : th'[u].pc = th[u].pc /\ th'[u].todo = th[u].todo /\ th'[u].cur = th[u].cur
  BY DEF StoreInv, Moved, Like
<1>2. QED
  BY <1>1 DEF MarksHeld, MarksOf

\* A step of thread t that leaves the store and the marks alone
LEMMA MoveKeeps ==
    ASSUME StoreInv, NEW t \in Threads, Moved(t), files' = files, crossed' = crossed, late' = late, np' \in BOOLEAN,
           inst' \in {"no", "built", "saved"}, pod' \in [Pods -> {"down", "created", "ready"}],
           chains' \in [Chains -> Seq(FixedRows \cup Policies)], ThreadOK(t, th'[t], crossed'), MarksOf(th'[t]),
           (th[t].pc # "idle" /\ (th'[t].boot => th[t].boot)) \/ (Serving /\ ~th'[t].boot),
           th[t].pc \notin {"rev2", "revopen", "copy", "revcopy", "setnp"}, ~(th[t].boot /\ th[t].pc = "open"),
           th'[t].pc \notin RevertPcs
    PROVE  StoreInv'
<1>1. Alone'
  BY AloneMoves
<1>2. ThreadsOK'
  BY ThreadsMove
<1>3. FilesOK'
  BY FilesKept
<1>4. MarksHeld'
  <2>1. \A p \in Policies : Status(p)' = "remove" => Status(p) = "remove"
    BY DEF Status, Content
  <2>2. QED
    BY <2>1, MarksKept
<1>5. PolicyTypeOK'
  BY DEF StoreInv, PolicyTypeOK, Moved
<1>6. QED
  BY <1>1, <1>2, <1>3, <1>4, <1>5 DEF StoreInv, Moved

\* A step of thread t that saves store s
LEMMA SaveKeeps ==
    ASSUME StoreInv, NEW t \in Threads, Moved(t), NEW s \in Stores, Save(s), crossed' = crossed, late' = late,
           np' = np, inst' = inst, pod' = pod, chains' = chains, ThreadOK(t, th'[t], crossed'), MarksOf(th'[t]),
           \A p \in Policies : s.pol[p] = "remove" => Status(p) = "remove",
           (th[t].pc # "idle" /\ (th'[t].boot => th[t].boot)) \/ (Serving /\ ~th'[t].boot), Content # Absent,
           th[t].pc \notin RevertPcs \cup {"copy", "setnp"}, ~(th[t].boot /\ th[t].pc = "open"),
           th'[t].pc \notin RevertPcs
    PROVE  StoreInv'
<1>1. /\ files'["path"] = s /\ files'["running"] = files["running"] /\ files' \in [Names -> Stores \cup {Broken, Absent}]
  BY DEF StoreInv, PolicyTypeOK, Save, Names
<1>3. Alone'
  BY AloneMoves
<1>4. ThreadsOK'
  BY ThreadsMove
<1>5. FilesOK'
  BY <1>1, FilesKept DEF RevertPcs
<1>6. MarksHeld'
  <2>1. \A p \in Policies : Status(p)' = "remove" => Status(p) = "remove"
    BY <1>1 DEF Status, Content
  <2>2. QED
    BY <2>1, MarksKept
<1>7. PolicyTypeOK'
  BY <1>1 DEF StoreInv, PolicyTypeOK, Moved
<1>8. QED
  BY <1>3, <1>4, <1>5, <1>6, <1>7 DEF StoreInv, Moved

-----------------------------------------------------------------------------
(***************************************************************************)
(* Steps that leave the chains alone                                        *)
(***************************************************************************)
\* The store is edited without a commit: nothing becomes applied, nothing
\* that has a rule is forgotten, and a new mode waits for the next commit.
Edited ==
    /\ Content' = Absent => Content = Absent
    /\ Content' \in Stores => /\ Content \in Stores
                              /\ Content'.mode = Content.mode \/ Content'.mode \notin {"observe", "enforce"}
    /\ \A p \in Ids : Status(p)' = "applied" => Status(p) = "applied"
    /\ \A p \in Policies : /\ Status(p) \in {"applied", "remove"} => Status(p)' \in {"applied", "remove"}
                           /\ Status(p) # "none" => Status(p)' # "none"

\* A step that leaves the policy file alone edits nothing.
LEMMA SameEdited == ASSUME files'["path"] = files["path"] PROVE Edited
BY DEF Edited, Status, Content

\* What the chains say depends on the chains alone.
LEMMA SameChains ==
    ASSUME chains' = chains
    PROVE  /\ (Skeleton' <=> Skeleton) /\ (Enforcing' <=> Enforcing) /\ \A p : Ruled(p)' <=> Ruled(p)
           /\ \A s : Shown(s)' <=> Shown(s)
<1>1. (Enforcing' <=> Enforcing) /\ \A p : Ruled(p)' <=> Ruled(p)
  BY DEF Enforcing, Ruled
<1>2. Skeleton' <=> Skeleton
  BY <1>1 DEF Skeleton, Ends
<1>3. \A s : Shown(s)' <=> Shown(s)
  BY <1>1 DEF Shown, ModeShown
<1>4. QED
  BY <1>1, <1>2, <1>3

\* Chains that show the policies still do after an edit elsewhere.
LEMMA ShownEdited ==
    ASSUME Edited, chains' = chains, Content \in Stores => Shown(Content)
    PROVE  Content' \in Stores => Shown(Content)'
<1>1. \A p : Ruled(p)' <=> Ruled(p)
  BY SameChains
<1>2. Enforcing' <=> Enforcing
  BY SameChains
<1>3. SUFFICES ASSUME Content' \in Stores PROVE Shown(Content)'
  OBVIOUS
<1>4. Content \in Stores /\ Shown(Content) /\ (Content'.mode = Content.mode \/ Content'.mode \notin {"observe", "enforce"})
  BY <1>3 DEF Edited
<1>5. \A p \in Ids : Status(p)' = Content'.pol[p] /\ Status(p) = Content.pol[p]
  BY <1>3, <1>4 DEF Status
<1>6. ModeShown(Content', Enforcing')
  BY <1>2, <1>4 DEF Shown, ModeShown
<1>7. \A p \in Ids : Content'.pol[p] = "applied" => Ruled(p)'
  BY <1>1, <1>4, <1>5 DEF Shown, Edited
<1>8. \A p \in Policies : Ruled(p)' => Content'.pol[p] \in {"applied", "remove"}
  BY <1>1, <1>4, <1>5 DEF Shown, Edited, Ids
<1>9. QED
  BY <1>6, <1>7, <1>8 DEF Shown

\* A commit that inserts still does after an edit elsewhere.
LEMMA InsertingEdited ==
    ASSUME NEW u \in Threads, Inserting(u), Edited, chains' = chains, Like(th'[u], th[u])
    PROVE  Inserting(u)'
<1>1. Skeleton' /\ (Enforcing' <=> Enforcing) /\ \A p : Ruled(p)' <=> Ruled(p)
  BY SameChains DEF Inserting
<1>2. \A p : Handled(u, p)' <=> Handled(u, p)
  BY DEF Handled, Listed, Like
<1>3. th'[u].pc = th[u].pc /\ th'[u].cur = th[u].cur /\ th'[u].chain = th[u].chain /\ th'[u].todo = th[u].todo
  BY DEF Like
<1>4. Content' \in Stores => ModeShown(Content', Enforcing')
  BY <1>1 DEF Inserting, Edited, ModeShown
<1>5. \A p \in Ids : Status(p)' = "applied" /\ Handled(u, p)' => Ruled(p)'
  BY <1>1, <1>2 DEF Inserting, Edited
<1>6. \A p \in Policies : Ruled(p)' =>
           /\ Handled(u, p)'
           /\ Status(p)' \in {"applied", "remove"} \/ (th'[u].pc = "mark" /\ th'[u].cur = p /\ Status(p)' # "none")
  BY <1>1, <1>2, <1>3 DEF Inserting, Edited
<1>7. th'[u].pc = "mark" => th'[u].cur \in Ids /\ Chain(th'[u].cur) = th'[u].chain /\ Ruled(th[u].cur)'
  BY <1>1, <1>3 DEF Inserting, Ruled
<1>8. th'[u].pc \in {"each", "mark"} =>
           \A p \in DOMAIN th'[u].todo : Chain(p) = th'[u].chain /\ (p \in Policies => Status(p)' # "none")
  BY <1>3 DEF Inserting, Edited
<1>9. QED
  BY <1>1, <1>4, <1>5, <1>6, <1>7, <1>8 DEF Inserting

\* The store is edited by somebody who commits nothing.
LEMMA EditKeeps ==
    ASSUME PolicyInv, NEW t \in Threads, Moved(t), chains' = chains, inst' = inst, Edited,
           files'["running"] = files["running"],
           \/ th' = th
           \/ /\ th[t].pc \notin CommitPcs \cup {"rev2"} /\ th'[t].pc \notin CommitPcs \cup CopyPcs
              /\ th'[t].pc \in WorkPcs => th[t].pc \in WorkPcs
    PROVE  (\A u \in Threads : ThreadChains(u)') /\ Installed'
<1>1. \A s : Shown(s)' <=> Shown(s)
  BY SameChains
<1>2. Installed'
  <2>1. inst # "no" => Skeleton' /\ (Content' \in Stores => Shown(Content)')
    BY SameChains, ShownEdited DEF PolicyInv, Installed
  <2>2. inst = "saved" /\ files'["running"] \in Stores => Shown(files["running"])'
    BY <1>1 DEF PolicyInv, Installed, Shown
  <2>3. inst # "no" /\ Content' = Absent => \E u \in Threads : th'[u].pc = "rev2"
    <3>1. \A u \in Threads : th[u].pc = "rev2" => th'[u].pc = "rev2"
      BY DEF Moved, Like
    <3>2. QED
      BY <3>1 DEF PolicyInv, Installed, Edited
  <2>4. QED
    BY <2>1, <2>2, <2>3 DEF Installed
<1>3. th' # th => ThreadChains(t)'
  BY DEF ThreadChains, Undisturbed, CommitPcs, CopyPcs
<1>4. ASSUME NEW u \in Threads, th' = th \/ u # t PROVE ThreadChains(u)'
  <2>1. ThreadChains(u) /\ Like(th'[u], th[u])
    BY <1>4 DEF PolicyInv, Moved, Like
  <2>2. \A v \in Threads : th' = th \/ v # t => th'[v].pc = th[v].pc
    BY DEF Moved, Like
  <2>3. Undisturbed(u)'
    <3>1. SUFFICES ASSUME th'[u].clean PROVE Undisturbed(u)'
      BY DEF Undisturbed
    <3>2. th[u].clean /\ Undisturbed(u)
      BY <2>1, <3>1 DEF Like, ThreadChains
    <3>3. th'[u].pc \in CommitPcs => Content' # Absent /\ \A v \in Threads \ {u} : th'[v].pc \notin WorkPcs
      BY <2>1, <2>2, <3>2 DEF Undisturbed, Edited, Like
    <3>4. ASSUME th'[u].pc = "ipt"
          PROVE  \E e \in BOOLEAN : /\ Stages(th'[u].cmds, e) /\ Rebuilt(e, 5 - Len(th[u].cmds))'
                                    /\ Content' \in Stores => ModeShown(Content', e)
      <4>1. PICK e \in BOOLEAN : /\ Stages(th[u].cmds, e) /\ Rebuilt(e, 5 - Len(th[u].cmds))
                                 /\ Content \in Stores => ModeShown(Content, e)
        BY <2>1, <3>2, <3>4 DEF Undisturbed, Like
      <4>2. Content' \in Stores => ModeShown(Content', e)
        BY <4>1 DEF Edited, ModeShown
      <4>3. Rebuilt(e, 5 - Len(th[u].cmds))'
        BY <2>1, <4>1 DEF Rebuilt, Like
      <4>4. QED
        BY <2>1, <4>1, <4>2, <4>3 DEF Like
    <3>5. th'[u].pc \in {"list", "each", "mark"} => Inserting(u)'
      BY <2>1, <3>2, InsertingEdited DEF Undisturbed, Like
    <3>6. QED
      BY <2>1, <3>2, <3>3, <3>4, <3>5 DEF Undisturbed, Like
  <2>4. th'[u].buf = th[u].buf /\ th'[u].pc = th[u].pc /\ th'[u].boot = th[u].boot /\ th'[u].dst = th[u].dst
    BY <2>1 DEF Like
  <2>5. th'[u].pc \in CopyPcs /\ inst # "no" => th'[u].dst = "running" /\ (th'[u].buf \in Stores => Shown(th[u].buf)')
    <3>1. Shown(th[u].buf) => Shown(th[u].buf)'
      BY <2>4, SameChains DEF Shown
    <3>2. QED
      BY <2>1, <2>4, <3>1 DEF ThreadChains
  <2>7. QED
    BY <2>1, <2>3, <2>4, <2>5 DEF ThreadChains
<1>5. QED
  BY <1>2, <1>3, <1>4

\* The others while thread t commits or reverts: none of them commits undisturbed.
LEMMA CommitOthers ==
    ASSUME PolicyInv, NEW t \in Threads, Moved(t), th[t].pc \in WorkPcs,
           (chains' = chains /\ inst' \in {inst, "no"}) \/ inst' = "no" \/ (th[t].pc \in CommitPcs /\ th[t].clean)
    PROVE  \A u \in Threads \ {t} : ThreadChains(u)'
<1> SUFFICES ASSUME NEW u \in Threads \ {t} PROVE ThreadChains(u)'
  OBVIOUS
<1>1. ThreadChains(u) /\ ThreadChains(t)
  BY DEF PolicyInv
<1>2. /\ th'[u].pc = th[u].pc /\ th'[u].boot = th[u].boot /\ th'[u].buf = th[u].buf /\ (th'[u].clean => th[u].clean)
      /\ th'[u].dst = th[u].dst
  BY DEF Moved, Like
<1>3. th[u].clean => th[u].pc \notin CommitPcs
  BY <1>1 DEF ThreadChains, Undisturbed
<1>4. Undisturbed(u)'
  BY <1>2, <1>3 DEF Undisturbed, CommitPcs
<1>5. CASE th[t].pc \in CommitPcs /\ th[t].clean
  <2>1. th[u].pc \notin WorkPcs
    BY <1>1, <1>5 DEF ThreadChains, Undisturbed
  <2>2. QED
    BY <1>2, <1>4, <2>1 DEF ThreadChains, WorkPcs, CommitPcs, CopyPcs, RevertPcs
<1>6. CASE inst' = "no"
  BY <1>4, <1>6 DEF ThreadChains
<1>7. CASE chains' = chains /\ inst' = inst
  <2>1. Shown(th[u].buf) => Shown(th[u].buf)'
    BY <1>2, <1>7, SameChains DEF Shown
  <2>2. QED
    BY <1>1, <1>2, <1>4, <1>7, <2>1 DEF ThreadChains
<1>8. QED
  BY <1>5, <1>6, <1>7

\* A commit starts: whoever was in one is disturbed, and so is it.
LEMMA CommitStarts ==
    ASSUME PolicyInv, NEW t \in Threads, NEW pc \in {"fix", "pre"}, StartCommit(t, pc), UNCHANGED <<files, chains, inst>>,
           th[t].pc # "rev2"
    PROVE  (\A u \in Threads : ThreadChains(u)') /\ Installed'
<1>1. /\ Moved(t) /\ th'[t].pc = pc /\ th'[t].boot = th[t].boot
      /\ th'[t].clean => Content # Absent /\ \A u \in Threads \ {t} : th[u].pc \notin WorkPcs
      /\ \A u \in Threads \ {t} : th'[u].clean => th[u].pc \notin CommitPcs
  BY StartCommitMoves DEF PolicyInv, PolicyPcs
<1>2. ThreadChains(t)'
  BY <1>1 DEF ThreadChains, Undisturbed, Moved, Like, CopyPcs, Content
<1>3. ASSUME NEW u \in Threads \ {t} PROVE ThreadChains(u)'
  <2>1. ThreadChains(u) /\ Like(th'[u], th[u])
    BY <1>1 DEF PolicyInv, Moved
  <2>2. Undisturbed(u)'
    BY <1>1, <2>1 DEF Undisturbed, CommitPcs, Like
  <2>3. Shown(th[u].buf) => Shown(th[u].buf)'
    BY <2>1, SameChains DEF Shown, Like
  <2>4. QED
    BY <2>1, <2>2, <2>3 DEF ThreadChains, Like, Content
<1>4. Installed'
  <2>1. \A s : Shown(s)' <=> Shown(s)
    BY SameChains
  <2>2. (Skeleton' <=> Skeleton) /\ Content' = Content
    BY SameChains DEF Content
  <2>3. (Shown(Content) => Shown(Content)') /\ (Shown(files["running"]) => Shown(files["running"])')
    BY <2>1, <2>2 DEF Shown
  <2>4. \A u \in Threads : th[u].pc = "rev2" => th'[u].pc = "rev2"
    BY <1>1 DEF Moved, Like
  <2>5. QED
    BY <2>2, <2>3, <2>4 DEF PolicyInv, Installed
<1>5. QED
  BY <1>2, <1>3, <1>4

-----------------------------------------------------------------------------
(***************************************************************************)
(* Requests and the controller outside commits                              *)
(***************************************************************************)
\* What is on file, and what a call reads there
LEMMA ContentFacts ==
    ASSUME PolicyInv
    PROVE  Content \in Files /\ (Readable(Content) /\ Content # Absent => Content \in Stores /\ Load(Content) = Content)
<1>1. Content \in Files
  BY DEF PolicyInv, StoreInv, PolicyTypeOK, Content, Files, Names
<1>2. QED
  BY <1>1, LoadFacts

\* A call worked on what is on file, or a revert has overtaken it.
LEMMA SeenFacts ==
    ASSUME PolicyInv, NEW c \in Seen, Overtaken(c)
    PROVE  /\ c \in Files
           /\ \/ c = Content /\ Content # Absent /\ inst' = inst /\ crossed' = crossed
              \/ (Reverting \/ Content = Absent) /\ inst' = "no" /\ crossed' = TRUE
<1>1. files["org"] \in Files /\ Absent \in Files /\ Content \in Files
  BY ContentFacts DEF PolicyInv, StoreInv, PolicyTypeOK, Files, Names
<1>2. c \in Files /\ (c # Content => Reverting)
  BY <1>1 DEF Seen
<1>3. CASE c = Content /\ c # Absent
  BY <1>2, <1>3 DEF Overtaken
<1>4. CASE ~(c = Content /\ c # Absent)
  BY <1>2, <1>4 DEF Overtaken
<1>5. QED
  BY <1>3, <1>4

\* What is saved is a store.
LEMMA SavedTyped ==
    ASSUME StoreInv, NEW s \in Stores, Save(s)
    PROVE  /\ files' \in [Names -> Stores \cup {Broken, Absent}] /\ files'["path"] = s /\ Content' = s
           /\ files'["running"] = files["running"]
BY DEF StoreInv, PolicyTypeOK, Save, Names, Content

\* While npm.json is being reverted, or is missing, no commit is undisturbed.
LEMMA NoneClean ==
    ASSUME PolicyInv, Reverting \/ Content = Absent
    PROVE  \A u \in Threads : th[u].clean => th[u].pc \notin CommitPcs
<1> SUFFICES ASSUME NEW u \in Threads, th[u].clean, th[u].pc \in CommitPcs PROVE FALSE
  OBVIOUS
<1>1. Content # Absent /\ \A v \in Threads \ {u} : th[v].pc \notin WorkPcs
  BY DEF PolicyInv, ThreadChains, Undisturbed
<1>2. \A v \in Threads : th[v].pc \notin RevertPcs
  BY <1>1 DEF WorkPcs, CommitPcs, RevertPcs
<1>3. QED
  BY <1>1, <1>2 DEF Reverting

\* A step that has met a revert has nothing left to keep.
LEMMA OvertakenKeeps ==
    ASSUME PolicyInv, NEW t \in Threads, Moved(t), Reverting \/ Content = Absent, inst' = "no", crossed' = TRUE,
           UNCHANGED <<np, pod, chains>>, files' \in [Names -> Stores \cup {Broken, Absent}], late' \subseteq Policies,
           ThreadOK(t, th'[t], TRUE), th'[t].clean /\ th'[t].pc \in CommitPcs => th[t].clean /\ th[t].pc \in CommitPcs,
           (th[t].pc # "idle" /\ (th'[t].boot => th[t].boot)) \/ (Serving /\ ~th'[t].boot)
    PROVE  PolicyInv'
<1>1. StoreInv
  BY DEF PolicyInv
<1>2. Alone'
  BY <1>1, AloneMoves
<1>3. ThreadsOK'
  <2>1. ThreadOK(t, th'[t], crossed')
    OBVIOUS
  <2>2. QED
    BY <1>1, <2>1, ThreadsMove
<1>4. FilesOK' /\ MarksHeld'
  BY DEF FilesOK, MarksHeld
<1>5. PolicyTypeOK'
  BY <1>1 DEF StoreInv, PolicyTypeOK, Moved
<1>6. StoreInv'
  BY <1>1, <1>2, <1>3, <1>4, <1>5 DEF StoreInv, Moved
<1>7. ASSUME NEW u \in Threads PROVE ThreadChains(u)'
  <2>1. th'[u].clean => th'[u].pc \notin CommitPcs
    BY NoneClean DEF Moved, Like
  <2>2. Undisturbed(u)'
    BY <2>1 DEF Undisturbed, CommitPcs
  <2>3. QED
    BY <2>2 DEF ThreadChains
<1>8. Installed'
  BY DEF Installed
<1>9. QED
  BY <1>6, <1>7, <1>8 DEF PolicyInv

\* A step outside commit and revert that leaves files and chains alone keeps PolicyInv.
LEMMA OutsideKeeps ==
    ASSUME PolicyInv, NEW t \in Threads, Moved(t), UNCHANGED <<files, chains, inst, crossed, late>>, np' \in BOOLEAN, pod' = pod,
           th[t].pc \notin CommitPcs \cup RevertPcs \cup {"setnp"}, th[t].pc # "idle" \/ Serving,
           th'[t].pc \notin CommitPcs \cup RevertPcs \cup {"setnp"}, ~th'[t].boot,
           th'[t].pc = "mode" => th'[t].mode \in {"observe_next", "enforce_next"}
    PROVE  PolicyInv'
<1>1. ThreadOK(t, th'[t], crossed')
  BY DEF ThreadOK, CommitPcs, RevertPcs, CopyPcs
<1>2. MarksOf(th'[t])
  BY DEF MarksOf, CommitPcs
<1>3. ~th[t].boot
  BY DEF PolicyInv, StoreInv, ThreadsOK, ThreadOK, CommitPcs
<1>4. /\ inst' \in {"no", "built", "saved"} /\ chains' \in [Chains -> Seq(FixedRows \cup Policies)]
      /\ pod' \in [Pods -> {"down", "created", "ready"}] /\ StoreInv
  BY DEF PolicyInv, StoreInv, PolicyTypeOK
<1>5. StoreInv'
  BY <1>1, <1>2, <1>3, <1>4, MoveKeeps DEF RevertPcs, CommitPcs
<1>6. (\A u \in Threads : ThreadChains(u)') /\ Installed'
  BY EditKeeps, SameEdited DEF RevertPcs, CommitPcs, WorkPcs, CopyPcs
<1>7. QED
  BY <1>5, <1>6 DEF PolicyInv

\* A thread outside commits, reverts and bootstrap serves no bootstrap.
LEMMA NotBoot ==
    ASSUME PolicyInv, NEW t \in Threads, th[t].pc \notin CommitPcs \cup {"setnp"}
    PROVE  ~th[t].boot /\ StoreInv /\ np \in BOOLEAN /\ th[t] \in PolicyThreads
BY DEF PolicyInv, StoreInv, PolicyTypeOK, ThreadsOK, ThreadOK, CommitPcs

\* ChangeNSMode keeps PolicyInv.
LEMMA ChangeNSModeKeeps ==
    ASSUME PolicyInv, NEW r \in Requests, NEW m \in {"observe", "enforce"}, ChangeNSMode(r, m)
    PROVE  PolicyInv'
<1>1. r \in Threads /\ th[r].pc = "idle" /\ Serving
  BY DEF Threads, ChangeNSMode, Ready
<1>2. ~th[r].boot /\ StoreInv /\ np \in BOOLEAN /\ th[r] \in PolicyThreads
  BY <1>1, NotBoot DEF CommitPcs
<1>3. NextCommit[m] \in {"observe_next", "enforce_next"} /\ NextCommit[m] \in Modes
  BY DEF NextCommit, Modes
<1>4. Moved(r) /\ th'[r].pc = "mode" /\ th'[r].mode = NextCommit[m] /\ ~th'[r].boot
  BY <1>1, <1>2, <1>3 DEF StoreInv, ChangeNSMode, Moved, Like, PolicyThreads, PolicyPcs
<1>5. UNCHANGED <<files, chains, inst, crossed, late, np, pod>>
  BY DEF ChangeNSMode, kernel
<1>6. QED
  BY <1>1, <1>2, <1>3, <1>4, <1>5, OutsideKeeps DEF CommitPcs, RevertPcs

\* ApplyNetworkPolicy keeps PolicyInv.
LEMMA ApplyNetworkPolicyKeeps ==
    ASSUME PolicyInv, NEW r \in Requests, ApplyNetworkPolicy(r)
    PROVE  PolicyInv'
<1>1. r \in Threads /\ th[r].pc = "idle" /\ Serving
  BY DEF Threads, ApplyNetworkPolicy, Ready
<1>2. ~th[r].boot /\ StoreInv /\ np \in BOOLEAN /\ th[r] \in PolicyThreads
  BY <1>1, NotBoot DEF CommitPcs
<1>4. Moved(r) /\ th'[r].pc = "rec" /\ ~th'[r].boot
  BY <1>1, <1>2 DEF StoreInv, ApplyNetworkPolicy, Moved, Like, PolicyThreads, PolicyPcs
<1>5. UNCHANGED <<files, chains, inst, crossed, late, pod>> /\ np' \in BOOLEAN
  BY DEF ApplyNetworkPolicy, StoreNetworkPolicy, kernel
<1>6. QED
  BY <1>1, <1>2, <1>4, <1>5, OutsideKeeps DEF CommitPcs, RevertPcs

\* ReconcileOnce keeps PolicyInv.
LEMMA ReconcileOnceKeeps ==
    ASSUME PolicyInv, ReconcileOnce
    PROVE  PolicyInv'
<1>1. Ctl \in Threads /\ th[Ctl].pc = "idle" /\ Serving
  BY DEF Threads, ReconcileOnce, Serving
<1>2. ~th[Ctl].boot /\ StoreInv /\ np \in BOOLEAN /\ th[Ctl] \in PolicyThreads
  BY <1>1, NotBoot DEF CommitPcs
<1>4. Moved(Ctl) /\ th'[Ctl].pc = "rec" /\ ~th'[Ctl].boot
  BY <1>1, <1>2 DEF StoreInv, ReconcileOnce, Moved, Like, PolicyThreads, PolicyPcs
<1>5. UNCHANGED <<files, chains, inst, crossed, late, np, pod>>
  BY DEF ReconcileOnce, kernel
<1>6. QED
  BY <1>1, <1>2, <1>4, <1>5, OutsideKeeps DEF CommitPcs, RevertPcs

\* GenerateBackendPolicies keeps PolicyInv.
LEMMA GenerateBackendPoliciesKeeps ==
    ASSUME PolicyInv, NEW t \in Threads, GenerateBackendPolicies(t)
    PROVE  PolicyInv'
<1>1. th[t].pc = "rec"
  BY DEF GenerateBackendPolicies
<1>2. ~th[t].boot /\ StoreInv /\ np \in BOOLEAN /\ th[t] \in PolicyThreads
  BY <1>1, NotBoot DEF CommitPcs
<1>3. PICK w \in BOOLEAN : th' = [th EXCEPT ![t].pc = "cmp", ![t].want = w]
  BY <1>2 DEF GenerateBackendPolicies
<1>4. Moved(t) /\ th'[t].pc = "cmp" /\ ~th'[t].boot
  BY <1>1, <1>2, <1>3 DEF StoreInv, Moved, Like, PolicyThreads, PolicyPcs
<1>5. UNCHANGED <<files, chains, inst, crossed, late, np, pod>>
  BY DEF GenerateBackendPolicies, kernel
<1>6. QED
  BY <1>1, <1>2, <1>4, <1>5, OutsideKeeps DEF CommitPcs, RevertPcs

\* EqualPolicySets keeps PolicyInv.
LEMMA EqualPolicySetsKeeps ==
    ASSUME PolicyInv, NEW t \in Threads, EqualPolicySets(t)
    PROVE  PolicyInv'
<1>1. th[t].pc = "cmp"
  BY DEF EqualPolicySets
<1>2. ~th[t].boot /\ StoreInv /\ np \in BOOLEAN
  BY <1>1, NotBoot DEF CommitPcs
<1>3. Finish(t) \/ Goto(t, "rep")
  BY DEF EqualPolicySets
<1>4. Moved(t) /\ th'[t].pc \in {"idle", "rep"} /\ ~th'[t].boot
  BY <1>2, <1>3, FinishMoves, GotoMoves DEF PolicyPcs
<1>5. UNCHANGED <<files, chains, inst, crossed, late, np, pod>>
  BY DEF EqualPolicySets, kernel
<1>6. QED
  BY <1>1, <1>2, <1>4, <1>5, OutsideKeeps DEF CommitPcs, RevertPcs

\* UndoApply keeps PolicyInv.
LEMMA UndoApplyKeeps ==
    ASSUME PolicyInv, NEW t \in Threads, UndoApply(t)
    PROVE  PolicyInv'
<1>1. th[t].pc = "undo"
  BY DEF UndoApply
<1>2. ~th[t].boot /\ StoreInv /\ np \in BOOLEAN
  BY <1>1, NotBoot DEF CommitPcs
<1>4. Moved(t) /\ th'[t].pc = "idle" /\ ~th'[t].boot
  BY <1>2, FinishMoves DEF UndoApply
<1>5. UNCHANGED <<files, chains, inst, crossed, late, pod>> /\ np' \in BOOLEAN
  BY DEF UndoApply, StoreNetworkPolicy, kernel
<1>6. QED
  BY <1>1, <1>2, <1>4, <1>5, OutsideKeeps DEF CommitPcs, RevertPcs

\* A request or the controller enters a commit.
LEMMA EnterKeeps ==
    ASSUME PolicyInv, NEW t \in Threads, StartCommit(t, "fix"), UNCHANGED <<files, chains, inst, crossed, late, np>>,
           pod' \in [Pods -> {"down", "created", "ready"}],
           th[t].pc \notin CommitPcs \cup RevertPcs \cup {"setnp"}, th[t].pc # "idle" \/ Serving
    PROVE  PolicyInv'
<1>1. ~th[t].boot /\ StoreInv /\ np \in BOOLEAN
  BY NotBoot
<1>2. Moved(t) /\ th'[t].pc = "fix" /\ th'[t].boot = th[t].boot
  BY <1>1, StartCommitMoves DEF PolicyPcs
<1>3. ThreadOK(t, th'[t], crossed')
  BY <1>1, <1>2 DEF ThreadOK, CopyPcs
<1>4. MarksOf(th'[t])
  BY <1>2 DEF MarksOf
<1>5. /\ inst' \in {"no", "built", "saved"} /\ chains' \in [Chains -> Seq(FixedRows \cup Policies)]
  BY <1>1 DEF StoreInv, PolicyTypeOK
<1>6. StoreInv'
  BY <1>1, <1>2, <1>3, <1>4, <1>5, MoveKeeps DEF RevertPcs, CommitPcs
<1>7. (\A u \in Threads : ThreadChains(u)') /\ Installed'
  BY CommitStarts DEF RevertPcs
<1>8. QED
  BY <1>6, <1>7 DEF PolicyInv

\* CommitPolicy keeps PolicyInv.
LEMMA CommitPolicyKeeps ==
    ASSUME PolicyInv, NEW r \in Requests, CommitPolicy(r)
    PROVE  PolicyInv'
BY EnterKeeps DEF CommitPolicy, Ready, Threads, kernel, CommitPcs, RevertPcs, PolicyInv, StoreInv, PolicyTypeOK

\* HookCommit keeps PolicyInv.
LEMMA HookCommitKeeps ==
    ASSUME PolicyInv, NEW r \in Requests, NEW a \in Pods, NEW from, NEW to \in {"down", "created"}, HookCommit(r, a, from, to)
    PROVE  PolicyInv'
<1>1. pod' \in [Pods -> {"down", "created", "ready"}]
  BY DEF HookCommit, PolicyInv, StoreInv, PolicyTypeOK
<1>2. QED
  BY <1>1, EnterKeeps DEF HookCommit, Ready, Threads, kernel, CommitPcs, RevertPcs

\* UpdateGeneratedRuleIds keeps PolicyInv.
LEMMA UpdateGeneratedRuleIdsKeeps ==
    ASSUME PolicyInv, NEW t \in Threads, UpdateGeneratedRuleIds(t)
    PROVE  PolicyInv'
<1>1. th[t].pc = "ids" /\ UNCHANGED <<files, chains, inst, crossed, late, np, pod>>
  BY DEF UpdateGeneratedRuleIds, kernel
<1>2. ~th[t].boot /\ StoreInv /\ np \in BOOLEAN /\ pod \in [Pods -> {"down", "created", "ready"}]
  BY <1>1, NotBoot DEF CommitPcs, StoreInv, PolicyTypeOK
<1>3. StartCommit(t, "fix") \/ Finish(t) \/ Goto(t, "undo")
  BY DEF UpdateGeneratedRuleIds
<1>4. CASE StartCommit(t, "fix")
  BY <1>1, <1>2, <1>4, EnterKeeps DEF CommitPcs, RevertPcs
<1>5. CASE Finish(t) \/ Goto(t, "undo")
  <2>1. Moved(t) /\ th'[t].pc \in {"idle", "undo"} /\ ~th'[t].boot
    BY <1>2, <1>5, FinishMoves, GotoMoves DEF PolicyPcs
  <2>2. QED
    BY <1>1, <1>2, <2>1, OutsideKeeps DEF CommitPcs, RevertPcs
<1>6. QED
  BY <1>3, <1>4, <1>5

\* A step of a thread outside commits that saves an edited store
LEMMA SaveOutsideKeeps ==
    ASSUME PolicyInv, NEW t \in Threads, Moved(t), NEW s \in Stores, Save(s), Content \in Stores,
           UNCHANGED <<chains, inst, crossed, late, np, pod>>,
           s.mode = Content.mode \/ s.mode \notin {"observe", "enforce"},
           \A p \in Policies : s.pol[p] = Content.pol[p],
           \A p \in Ids : s.pol[p] = "applied" => Content.pol[p] = "applied",
           th[t].pc \notin CommitPcs \cup RevertPcs \cup {"setnp"}, th[t].pc # "idle",
           th'[t].pc \notin CommitPcs \cup RevertPcs \cup {"setnp", "mode"}, ~th'[t].boot
    PROVE  PolicyInv'
<1>1. ThreadOK(t, th'[t], crossed')
  BY DEF ThreadOK, CommitPcs, RevertPcs, CopyPcs
<1>2. MarksOf(th'[t])
  BY DEF MarksOf, CommitPcs
<1>3. ~th[t].boot /\ StoreInv
  BY NotBoot
<1>4. StoreInv'
  BY <1>1, <1>2, <1>3, FileFacts, SaveKeeps DEF RevertPcs, CommitPcs, Status
<1>5. Content' = s /\ files'["running"] = files["running"]
  BY <1>3 DEF StoreInv, PolicyTypeOK, Save, Names, Content
<1>6. Edited
  BY <1>5, FileFacts DEF Edited, Status, Ids
<1>7. (\A u \in Threads : ThreadChains(u)') /\ Installed'
  BY <1>5, <1>6, EditKeeps DEF RevertPcs, CommitPcs, WorkPcs, CopyPcs
<1>8. QED
  BY <1>4, <1>7 DEF PolicyInv

\* WriteNSMode, writing the mode, keeps PolicyInv.
LEMMA ModeKeeps ==
    ASSUME PolicyInv, NEW t \in Threads, WriteNSMode(t), th[t].pc = "mode"
    PROVE  PolicyInv'
<1>1. ~th[t].boot /\ StoreInv /\ np \in BOOLEAN
  BY NotBoot DEF CommitPcs
<1>2. PICK c \in Seen : Overtaken(c) /\ IF Readable(c) THEN Save([Load(c) EXCEPT !.mode = th[t].mode]) ELSE UNCHANGED files
  BY DEF WriteNSMode
<1>3. Finish(t) /\ UNCHANGED <<chains, late, np, pod>>
  BY DEF WriteNSMode
<1>4. Moved(t) /\ th'[t].pc = "idle" /\ ~th'[t].boot
  BY <1>1, <1>3, FinishMoves
<1>5. th[t].mode \in {"observe_next", "enforce_next"} /\ th[t].mode \in Modes
  BY <1>1 DEF StoreInv, ThreadsOK, ThreadOK, Modes
<1>6. CASE Readable(c)
  <2>1. PICK s : s = [Load(c) EXCEPT !.mode = th[t].mode]
    OBVIOUS
  <2>2. Load(c) \in Stores /\ s \in Stores /\ s.mode = th[t].mode /\ s.pol = Load(c).pol
    <3>1. c \in Files
      BY <1>2, SeenFacts
    <3>2. Load(c) \in Stores
      BY <1>6, <3>1, LoadFacts
    <3>3. QED
      BY <1>5, <2>1, <3>2 DEF Stores
  <2>3. Save(s)
    BY <1>2, <1>6, <2>1
  <2>4. CASE c = Content /\ Content # Absent /\ inst' = inst /\ crossed' = crossed
    <3>1. Content \in Stores /\ Load(Content) = Content
      BY <1>6, <2>4, ContentFacts
    <3>2. QED
      BY <1>3, <1>4, <1>5, <2>2, <2>3, <2>4, <3>1, SaveOutsideKeeps DEF CommitPcs, RevertPcs
  <2>5. CASE (Reverting \/ Content = Absent) /\ inst' = "no" /\ crossed' = TRUE
    <3>1. ThreadOK(t, th'[t], TRUE) /\ late' \subseteq Policies
      BY <1>1, <1>3, <1>4 DEF ThreadOK, StoreInv, PolicyTypeOK, CopyPcs
    <3>2. QED
      BY <1>1, <1>3, <1>4, <2>2, <2>3, <2>5, <3>1, SavedTyped, OvertakenKeeps DEF CommitPcs
  <2>6. QED
    BY <1>2, <2>4, <2>5, SeenFacts
<1>7. CASE ~Readable(c)
  <2>1. files' = files
    BY <1>2, <1>7
  <2>2. CASE c = Content /\ Content # Absent /\ inst' = inst /\ crossed' = crossed
    BY <1>1, <1>3, <1>4, <2>1, <2>2, OutsideKeeps DEF CommitPcs, RevertPcs
  <2>3. CASE (Reverting \/ Content = Absent) /\ inst' = "no" /\ crossed' = TRUE
    <3>1. ThreadOK(t, th'[t], TRUE) /\ late' \subseteq Policies /\ files' \in [Names -> Stores \cup {Broken, Absent}]
      BY <1>1, <1>3, <1>4, <2>1 DEF ThreadOK, StoreInv, PolicyTypeOK, CopyPcs
    <3>2. QED
      BY <1>1, <1>3, <1>4, <2>3, <3>1, OvertakenKeeps DEF CommitPcs
  <2>4. QED
    BY <1>2, <2>2, <2>3, SeenFacts
<1>8. QED
  BY <1>6, <1>7

\* ReplaceGenerated keeps PolicyInv.
LEMMA ReplaceGeneratedKeeps ==
    ASSUME PolicyInv, NEW t \in Threads, ReplaceGenerated(t)
    PROVE  PolicyInv'
<1>1. th[t].pc = "rep" /\ UNCHANGED <<chains, late, np, pod>>
  BY DEF ReplaceGenerated
<1>2. ~th[t].boot /\ StoreInv /\ np \in BOOLEAN
  BY <1>1, NotBoot DEF CommitPcs
<1>3. PICK c \in Seen : Overtaken(c) /\ IF Readable(c) THEN Save(Replaced(Load(c), th[t].want)) ELSE UNCHANGED files
  BY DEF ReplaceGenerated
<1>4. Finish(t) \/ Goto(t, "ids") \/ Goto(t, "undo")
  BY DEF ReplaceGenerated
<1>5. Moved(t) /\ th'[t].pc \in {"idle", "ids", "undo"} /\ ~th'[t].boot
  BY <1>2, <1>4, FinishMoves, GotoMoves DEF PolicyPcs
<1>6. ThreadOK(t, th'[t], TRUE) /\ late' \subseteq Policies
  BY <1>1, <1>2, <1>5 DEF ThreadOK, StoreInv, PolicyTypeOK, CopyPcs
<1>7. CASE Readable(c)
  <2>1. PICK s : s = Replaced(Load(c), th[t].want)
    OBVIOUS
  <2>2. PICK g : g = FreshId
    OBVIOUS
  <2>3. Load(c) \in Stores
    BY <1>3, <1>7, SeenFacts, LoadFacts
  <2>4. s = [Load(c) EXCEPT !.pol = [p \in Ids |-> IF p \in Policies THEN Load(c).pol[p]
                                                   ELSE IF th[t].want /\ p = g THEN "before" ELSE "none"]]
    BY <2>1, <2>2, <2>3 DEF Replaced, Stores
  <2>5. /\ s \in Stores /\ s.mode = Load(c).mode /\ \A p \in Policies : s.pol[p] = Load(c).pol[p]
        /\ \A p \in Ids : s.pol[p] = "applied" => Load(c).pol[p] = "applied"
    BY <2>3, <2>4 DEF Stores, Statuses, Ids
  <2>6. Save(s)
    BY <1>3, <1>7, <2>1
  <2>7. CASE c = Content /\ Content # Absent /\ inst' = inst /\ crossed' = crossed
    <3>1. Content \in Stores /\ Load(Content) = Content
      BY <1>7, <2>7, ContentFacts
    <3>2. QED
      BY <1>1, <1>5, <2>5, <2>6, <2>7, <3>1, SaveOutsideKeeps DEF CommitPcs, RevertPcs
  <2>8. CASE (Reverting \/ Content = Absent) /\ inst' = "no" /\ crossed' = TRUE
    BY <1>1, <1>2, <1>5, <1>6, <2>5, <2>6, <2>8, SavedTyped, OvertakenKeeps DEF CommitPcs
  <2>9. QED
    BY <1>3, <2>7, <2>8, SeenFacts
<1>8. CASE ~Readable(c)
  <2>1. files' = files
    BY <1>3, <1>8
  <2>2. CASE c = Content /\ Content # Absent /\ inst' = inst /\ crossed' = crossed
    BY <1>1, <1>2, <1>5, <2>1, <2>2, OutsideKeeps DEF CommitPcs, RevertPcs
  <2>3. CASE (Reverting \/ Content = Absent) /\ inst' = "no" /\ crossed' = TRUE
    <3>1. files' \in [Names -> Stores \cup {Broken, Absent}]
      BY <1>2, <2>1 DEF StoreInv, PolicyTypeOK
    <3>2. QED
      BY <1>1, <1>2, <1>5, <1>6, <2>3, <3>1, OvertakenKeeps DEF CommitPcs
  <2>4. QED
    BY <1>3, <2>2, <2>3, SeenFacts
<1>9. QED
  BY <1>7, <1>8

\* An edit while no thread moves; a mark is late for those that hold the
\* policy already.
LEMMA EditStillKeeps ==
    ASSUME PolicyInv, Serving, NEW s \in Stores, Save(s), Content \in Stores, Edited,
           UNCHANGED <<chains, np, pod, th, inst, crossed>>, late \subseteq late', late' \subseteq Policies,
           \A q \in Policies : s.pol[q] = "remove" =>
               \/ Content.pol[q] = "remove"
               \/ q \in late' \/ \A t \in Threads : q \notin DOMAIN th[t].todo /\ q # th[t].cur
    PROVE  PolicyInv'
<1>1. StoreInv /\ Ctl \in Threads
  BY DEF PolicyInv, Threads
<1>2. Content' = s /\ files'["running"] = files["running"] /\ files' \in [Names -> Stores \cup {Broken, Absent}]
  BY <1>1, SavedTyped
<1>3. (\A u \in Threads : ThreadChains(u)') /\ Installed'
  <2>1. Moved(Ctl)
    BY <1>1 DEF Moved, Like, StoreInv
  <2>2. QED
    BY <1>1, <1>2, <2>1, EditKeeps
<1>4. ThreadsOK' /\ Alone'
  BY <1>1 DEF StoreInv, ThreadsOK, Alone
<1>5. FilesOK'
  <2>1. Content # Absent /\ Content' # Absent /\ Content' # Broken
    BY <1>2, FileFacts
  <2>2. QED
    BY <1>1, <1>2, <2>1 DEF StoreInv, FilesOK, Restarted
<1>6. MarksHeld'
  <2>1. \A q \in Policies : Status(q)' = s.pol[q] /\ Status(q) = Content.pol[q]
    BY <1>2 DEF Status
  <2>2. QED
    BY <1>1, <2>1 DEF StoreInv, MarksHeld
<1>7. PolicyTypeOK'
  BY <1>1, <1>2 DEF StoreInv, PolicyTypeOK
<1>8. QED
  BY <1>1, <1>3, <1>4, <1>5, <1>6, <1>7 DEF PolicyInv, StoreInv

\* An edit that has met a revert, while no thread moves
LEMMA EditLost ==
    ASSUME PolicyInv, Serving, NEW s \in Stores, Save(s), UNCHANGED <<chains, np, pod, th>>, late' \subseteq Policies,
           Reverting \/ Content = Absent, inst' = "no", crossed' = TRUE
    PROVE  PolicyInv'
<1>1. StoreInv /\ Ctl \in Threads
  BY DEF PolicyInv, Threads
<1>2. Moved(Ctl) /\ th'[Ctl] = th[Ctl] /\ ~th'[Ctl].boot
  BY <1>1 DEF StoreInv, Moved, Like, Serving, Booting
<1>3. ThreadOK(Ctl, th'[Ctl], TRUE)
  BY <1>1, <1>2 DEF StoreInv, ThreadsOK, ThreadOK
<1>4. QED
  BY <1>1, <1>2, <1>3, SavedTyped, OvertakenKeeps

\* AddUserPolicy keeps PolicyInv.
LEMMA AddUserPolicyKeeps ==
    ASSUME PolicyInv, NEW p \in Policies, AddUserPolicy(p)
    PROVE  PolicyInv'
<1>1. Serving /\ ~Referenced(p) /\ UNCHANGED <<chains, late, np, pod, th>> /\ Ctl \in Threads
  BY DEF AddUserPolicy, Threads
<1>2. StoreInv /\ th \in [Threads -> PolicyThreads]
  BY DEF PolicyInv, StoreInv
<1>3. PICK c \in Seen : Readable(c) /\ Save(WithStatus(Load(c), p, "before")) /\ Overtaken(c)
  BY DEF AddUserPolicy
<1>4. Load(c) \in Stores
  BY <1>3, SeenFacts, LoadFacts
<1>5. PICK s : s = WithStatus(Load(c), p, "before")
  OBVIOUS
<1>6. /\ s \in Stores /\ s.mode = Load(c).mode /\ \A q \in Ids : s.pol[q] = IF q = p THEN "before" ELSE Load(c).pol[q]
  <2>1. p \in Ids /\ "before" \in Statuses
    BY DEF Ids, Statuses
  <2>2. QED
    BY <1>4, <1>5, <2>1, WithStatusFacts
<1>7. Save(s)
  BY <1>3, <1>5
<1>8. CASE c = Content /\ Content # Absent /\ inst' = inst /\ crossed' = crossed
  <2>1. Content \in Stores /\ Load(Content) = Content
    BY <1>3, <1>8, ContentFacts
  <2>2. Content.pol[p] = "none"
    BY <1>1, <2>1 DEF Referenced, Content, Names
  <2>3. /\ s.mode = Content.mode /\ \A q \in Ids : s.pol[q] = IF q = p THEN "before" ELSE Content.pol[q]
    BY <1>6, <1>8, <2>1
  <2>4. \A q \in Policies : s.pol[q] = "remove" => Content.pol[q] = "remove"
    BY <2>3 DEF Ids
  <2>5. Content' = s
    BY <1>2, <1>6, <1>7, SavedTyped
  <2>6. Edited
    BY <1>6, <2>1, <2>2, <2>3, <2>5, FileFacts DEF Edited, Status, Ids
  <2>7. late \subseteq late' /\ late' \subseteq Policies
    BY <1>1, <1>2 DEF StoreInv, PolicyTypeOK
  <2>8. QED
    BY <1>1, <1>6, <1>7, <1>8, <2>1, <2>4, <2>6, <2>7, EditStillKeeps
<1>9. CASE (Reverting \/ Content = Absent) /\ inst' = "no" /\ crossed' = TRUE
  BY <1>1, <1>2, <1>6, <1>7, <1>9, EditLost DEF StoreInv, PolicyTypeOK
<1>10. QED
  BY <1>3, <1>8, <1>9, SeenFacts

\* RemoveUserPolicy keeps PolicyInv.
LEMMA RemoveUserPolicyKeeps ==
    ASSUME PolicyInv, NEW p \in Policies, RemoveUserPolicy(p)
    PROVE  PolicyInv'
<1>1. Serving /\ UNCHANGED <<chains, np, pod, th>> /\ Ctl \in Threads
  BY DEF RemoveUserPolicy, Threads
<1>2. StoreInv /\ th \in [Threads -> PolicyThreads]
  BY DEF PolicyInv, StoreInv
<1>3. PICK c \in Seen : Found(c, p) /\ UpdateStatus(c, p, "remove") /\ Overtaken(c)
  BY DEF RemoveUserPolicy
<1>4. Readable(c) /\ Load(c) \in Stores /\ Load(c).pol[p] # "none"
  BY <1>3, SeenFacts, LoadFacts DEF Found
<1>5. PICK s : s = WithStatus(Load(c), p, "remove")
  OBVIOUS
<1>6. /\ s \in Stores /\ s.mode = Load(c).mode /\ \A q \in Ids : s.pol[q] = IF q = p THEN "remove" ELSE Load(c).pol[q]
  <2>1. p \in Ids /\ "remove" \in Statuses
    BY DEF Ids, Statuses
  <2>2. QED
    BY <1>4, <1>5, <2>1, WithStatusFacts
<1>7. Save(s)
  BY <1>3, <1>5 DEF UpdateStatus
<1>8. /\ late' \subseteq Policies /\ late \subseteq late'
      /\ p \notin late' => \A t \in Threads : p \notin DOMAIN th[t].todo /\ p # th[t].cur
  BY <1>2 DEF RemoveUserPolicy, StoreInv, PolicyTypeOK
<1>9. CASE c = Content /\ Content # Absent /\ inst' = inst /\ crossed' = crossed
  <2>1. Content \in Stores /\ Load(Content) = Content
    BY <1>4, <1>9, ContentFacts
  <2>2. /\ s.mode = Content.mode /\ \A q \in Ids : s.pol[q] = IF q = p THEN "remove" ELSE Content.pol[q]
    BY <1>6, <1>9, <2>1
  <2>3. \A q \in Policies : q # p /\ s.pol[q] = "remove" => Content.pol[q] = "remove"
    BY <2>2 DEF Ids
  <2>4. Content' = s
    BY <1>2, <1>6, <1>7, SavedTyped
  <2>5. Edited
    BY <1>4, <1>6, <1>9, <2>1, <2>2, <2>4, FileFacts DEF Edited, Status, Ids
  <2>6. QED
    BY <1>1, <1>6, <1>7, <1>8, <1>9, <2>1, <2>3, <2>5, EditStillKeeps
<1>10. CASE (Reverting \/ Content = Absent) /\ inst' = "no" /\ crossed' = TRUE
  BY <1>1, <1>2, <1>6, <1>7, <1>8, <1>10, EditLost
<1>11. QED
  BY <1>3, <1>9, <1>10, SeenFacts

\* Neither the policies nor the threads are touched.
LEMMA StillKeeps ==
    ASSUME PolicyInv, UNCHANGED <<files, chains, inst, crossed, late, th>>, np' \in BOOLEAN,
           pod' \in [Pods -> {"down", "created", "ready"}]
    PROVE  PolicyInv'
<1>1. StoreInv /\ Ctl \in Threads
  BY DEF PolicyInv, Threads
<1>2. Moved(Ctl)
  BY <1>1 DEF StoreInv, Moved, Like
<1>3. (\A u \in Threads : ThreadChains(u)') /\ Installed'
  BY <1>1, <1>2, EditKeeps, SameEdited
<1>4. ThreadsOK' /\ Alone' /\ FilesOK' /\ MarksHeld'
  BY <1>1 DEF StoreInv, ThreadsOK, Alone, FilesOK, Restarted, Content, MarksHeld, Status
<1>5. PolicyTypeOK'
  BY <1>1 DEF StoreInv, PolicyTypeOK
<1>6. QED
  BY <1>1, <1>3, <1>4, <1>5 DEF PolicyInv, StoreInv

\* RemoveNetworkPolicy keeps PolicyInv.
LEMMA RemoveNetworkPolicyKeeps == ASSUME PolicyInv, RemoveNetworkPolicy PROVE PolicyInv'
BY StillKeeps DEF PolicyInv, StoreInv, PolicyTypeOK, RemoveNetworkPolicy, StoreNetworkPolicy, kernel

\* StateHook keeps PolicyInv.
LEMMA StateHookKeeps == ASSUME PolicyInv, NEW a \in Pods, StateHook(a) PROVE PolicyInv'
<1>1. pod' \in [Pods -> {"down", "created", "ready"}]
  BY DEF PolicyInv, StoreInv, PolicyTypeOK, StateHook
<1>2. QED
  BY <1>1, StillKeeps DEF PolicyInv, StoreInv, PolicyTypeOK, StateHook, kernel

-----------------------------------------------------------------------------
(***************************************************************************)
(* iptables commands                                                        *)
(***************************************************************************)
ChainsType == [Chains -> Seq(FixedRows \cup Policies)]

\* The chains after n commands, none of the build functions having more than four
After(cs, cmds, n) ==
    LET one == Ran(cs, cmds[1])
        two == Ran(one, cmds[2])
        three == Ran(two, cmds[3])
    IN  IF n = 0 THEN cs ELSE IF n = 1 THEN one ELSE IF n = 2 THEN two ELSE IF n = 3 THEN three ELSE Ran(three, cmds[4])

\* Running a list of commands, one by one.
LEMMA AfterSteps ==
    ASSUME NEW cs, NEW cmds
    PROVE  /\ After(cs, cmds, 0) = cs /\ \A n \in 1..4 : After(cs, cmds, n) = Ran(After(cs, cmds, n - 1), cmds[n])
<1>1. After(cs, cmds, 0) = cs /\ After(cs, cmds, 1) = Ran(After(cs, cmds, 0), cmds[1])
  BY DEF After
<1>2. After(cs, cmds, 2) = Ran(After(cs, cmds, 1), cmds[2]) /\ After(cs, cmds, 3) = Ran(After(cs, cmds, 2), cmds[3])
  BY DEF After
<1>3. After(cs, cmds, 4) = Ran(After(cs, cmds, 3), cmds[4])
  BY DEF After
<1>4. ASSUME NEW n \in 1..4 PROVE After(cs, cmds, n) = Ran(After(cs, cmds, n - 1), cmds[n])
  <2>1. n = 1 \/ n = 2 \/ n = 3 \/ n = 4
    OBVIOUS
  <2>2. QED
    BY <1>1, <1>2, <1>3, <2>1
<1>5. QED
  BY <1>1, <1>4

\* Running up to four commands is running them one by one.
LEMMA RanAllAfter ==
    ASSUME NEW cs, NEW cmds, Len(cmds) \in 0..4
    PROVE  RanAll(cs, cmds) = After(cs, cmds, Len(cmds))
<1> DEFINE R(f) == [n \in 0 .. Len(cmds) |-> IF n = 0 THEN cs ELSE Ran(f[n - 1], cmds[n])]
<1> DEFINE g == [n \in 0 .. Len(cmds) |-> After(cs, cmds, n)]
<1> DEFINE h == CHOOSE f : f = R(f)
<1>1. g = R(g)
  <2>1. ASSUME NEW n \in 0 .. Len(cmds) PROVE g[n] = IF n = 0 THEN cs ELSE Ran(g[n - 1], cmds[n])
    <3>1. CASE n = 0
      BY <3>1, AfterSteps
    <3>2. CASE n # 0
      <4>0. \A l \in 0..4 : n \in 0..l => n \in 1..4 /\ n - 1 \in 0..l
        BY <3>2
      <4>1. n \in 1..4 /\ n - 1 \in 0 .. Len(cmds)
        BY <4>0
      <4>2. g[n] = After(cs, cmds, n) /\ g[n - 1] = After(cs, cmds, n - 1)
        BY <4>1
      <4>3. QED
        BY <3>2, <4>1, <4>2, AfterSteps
    <3>3. QED
      BY <3>1, <3>2
  <2>2. QED
    BY <2>1
<1>2. \E f : f = R(f)
  BY <1>1
<1>3. h = R(h)
  BY <1>2
<1>4. RanAll(cs, cmds) = h[Len(cmds)]
  BY DEF RanAll
<1>5. h[0] = cs /\ \A n \in 1 .. Len(cmds) : h[n] = Ran(h[n - 1], cmds[n])
  <2> HIDE DEF h
  <2>1. QED
    BY <1>3
<1>6. h[Len(cmds)] = After(cs, cmds, Len(cmds))
  <2> HIDE DEF h
  <2>1. h[0] = After(cs, cmds, 0)
    BY <1>5, AfterSteps
  <2>2. 1 <= Len(cmds) => h[1] = After(cs, cmds, 1)
    BY <1>5, <2>1, AfterSteps
  <2>3. 2 <= Len(cmds) => h[2] = After(cs, cmds, 2)
    BY <1>5, <2>2, AfterSteps
  <2>4. 3 <= Len(cmds) => h[3] = After(cs, cmds, 3)
    BY <1>5, <2>3, AfterSteps
  <2>5. 4 <= Len(cmds) => h[4] = After(cs, cmds, 4)
    BY <1>5, <2>4, AfterSteps
  <2>6. Len(cmds) = 0 \/ Len(cmds) = 1 \/ Len(cmds) = 2 \/ Len(cmds) = 3 \/ Len(cmds) = 4
    OBVIOUS
  <2>7. QED
    BY <2>1, <2>2, <2>3, <2>4, <2>5, <2>6
<1>7. QED
  BY <1>4, <1>6

\* A command changes one chain, and it adds its row.
LEMMA RanRows ==
    ASSUME NEW cs \in ChainsType, NEW op \in {"F", "A", "I"}, NEW ch \in Chains, NEW tok \in FixedRows \cup Policies
    PROVE  /\ Ran(cs, Cmd(op, ch, tok)) \in ChainsType
           /\ Ran(cs, Cmd(op, ch, tok))[ch] = Row(cs[ch], Cmd(op, ch, tok))
           /\ \A c \in Chains : c # ch => Ran(cs, Cmd(op, ch, tok))[c] = cs[c]
<1>1. PICK row \in Seq(FixedRows \cup Policies) : row = cs[ch]
  BY DEF ChainsType
<1>2. Row(row, Cmd(op, ch, tok)) \in Seq(FixedRows \cup Policies)
  <2>1. << >> \in Seq(FixedRows \cup Policies) /\ Append(row, tok) \in Seq(FixedRows \cup Policies)
    OBVIOUS
  <2>2. <<tok>> \o row \in Seq(FixedRows \cup Policies)
    OBVIOUS
  <2>3. QED
    BY <2>1, <2>2 DEF Row, Cmd
<1>3. Cmd(op, ch, tok).ch = ch
  BY DEF Cmd
<1>4. QED
  BY <1>1, <1>2, <1>3 DEF Ran, ChainsType

\* The commands of BuildPredefinedPolicy
LEMMA StageRuns ==
    ASSUME NEW e \in BOOLEAN, NEW k \in 1..5
    PROVE  /\ Stage(e, k) \in Seq(Commands) /\ Len(Stage(e, k)) \in 1..4
           /\ \A i \in 1..Len(Stage(e, k)) : \E op \in {"F", "A", "I"}, ch \in Chains, tok \in FixedRows : Stage(e, k)[i] = Cmd(op, ch, tok)
<1>1. \A op \in {"F", "A", "I"}, ch \in Chains, tok \in FixedRows : Cmd(op, ch, tok) \in Commands
  BY DEF Cmd, Commands
<1> DEFINE Command(c) == \E op \in {"F", "A", "I"}, ch \in Chains, tok \in FixedRows : c = Cmd(op, ch, tok)
<1>2. \A op \in {"F", "A", "I"}, ch \in {"FORWARD", "ROOT", "EW", "OBS", "ENF"},
         tok \in {"", "ROOT", "EW", "OBS", "ENF", "est", "DROP", "ACC", "RET"} : Command(Cmd(op, ch, tok))
  BY DEF Chains, FixedRows
<1>3. \A c : Command(c) => c \in Commands
  BY <1>1
<1> HIDE DEF Command
<1>4. \A a, b, c, d : Command(a) /\ Command(b) /\ Command(c) /\ Command(d) =>
          <<a, b, c, d>> \in Seq(Commands) /\ Len(<<a, b, c, d>>) = 4 /\ \A i \in 1..4 : Command(<<a, b, c, d>>[i])
  BY <1>3
<1>5. \A a, b : Command(a) /\ Command(b) => <<a, b>> \in Seq(Commands) /\ Len(<<a, b>>) = 2 /\ \A i \in 1..2 : Command(<<a, b>>[i])
  BY <1>3
<1>6. \A a : Command(a) => <<a>> \in Seq(Commands) /\ Len(<<a>>) = 1 /\ \A i \in 1..1 : Command(<<a>>[i])
  BY <1>3
<1> DEFINE Runs(s) == s \in Seq(Commands) /\ Len(s) \in 1..4 /\ \A i \in 1..Len(s) : Command(s[i])
<1>7. Runs(CreateChain)
  <2>1. Command(Cmd("F", "ROOT", "")) /\ Command(Cmd("F", "EW", "")) /\ Command(Cmd("F", "OBS", "")) /\ Command(Cmd("F", "ENF", ""))
    BY <1>2
  <2>2. PICK a, b, c, d : CreateChain = <<a, b, c, d>> /\ Command(a) /\ Command(b) /\ Command(c) /\ Command(d)
    BY <2>1 DEF CreateChain
  <2>3. QED
    BY <1>4, <2>2
<1>8. Runs(InsertForward)
  <2>1. Command(Cmd("I", "FORWARD", "ROOT"))
    BY <1>2
  <2>2. QED
    BY <1>6, <2>1 DEF InsertForward
<1>9. Runs(BuildRootChain(e))
  <2>1. /\ Command(Cmd("A", "ROOT", "est")) /\ Command(Cmd("A", "ROOT", "EW"))
        /\ Command(Cmd("A", "ROOT", "ENF")) /\ Command(Cmd("A", "ROOT", "OBS")) /\ Command(Cmd("A", "ROOT", "RET"))
    BY <1>2
  <2>2. QED
    BY <1>4, <2>1 DEF BuildRootChain
<1>10. Runs(BuildEWChain) /\ Runs(BuildNSEnforceChain) /\ Runs(BuildNSObserveChain)
  <2>1. /\ Command(Cmd("A", "EW", "DROP")) /\ Command(Cmd("A", "EW", "RET"))
        /\ Command(Cmd("A", "ENF", "DROP")) /\ Command(Cmd("A", "ENF", "RET"))
        /\ Command(Cmd("A", "OBS", "ACC")) /\ Command(Cmd("A", "OBS", "RET"))
    BY <1>2
  <2>2. QED
    BY <1>5, <2>1 DEF BuildEWChain, BuildNSEnforceChain, BuildNSObserveChain
<1>11. Runs(Stage(e, k))
  <2> HIDE DEF Runs
  <2>1. QED
    BY <1>7, <1>8, <1>9, <1>10 DEF Stage
<1>12. QED
  BY <1>11 DEF Command

\* Any number of them leaves chains.
LEMMA StageTyped ==
    ASSUME NEW e \in BOOLEAN, NEW k \in 1..5, NEW cs \in ChainsType, NEW n \in 0..Len(Stage(e, k))
    PROVE  After(cs, Stage(e, k), n) \in ChainsType
<1>1. PICK cmds : cmds = Stage(e, k)
  OBVIOUS
<1>2. /\ Len(cmds) \in 1..4 /\ n \in 0..Len(cmds)
      /\ \A i \in 1..Len(cmds) : \E op \in {"F", "A", "I"}, ch \in Chains, tok \in FixedRows : cmds[i] = Cmd(op, ch, tok)
  BY <1>1, StageRuns
<1>3. ASSUME NEW i \in 1..Len(cmds), After(cs, cmds, i - 1) \in ChainsType PROVE After(cs, cmds, i) \in ChainsType
  <2>1. PICK op \in {"F", "A", "I"}, ch \in Chains, tok \in FixedRows : cmds[i] = Cmd(op, ch, tok)
    BY <1>2
  <2>2. Ran(After(cs, cmds, i - 1), cmds[i]) \in ChainsType
    BY <1>3, <2>1, RanRows
  <2>3. i \in 1..4
    BY <1>2
  <2>4. QED
    BY <2>2, <2>3, AfterSteps
<1>4. After(cs, cmds, 0) \in ChainsType
  BY AfterSteps
<1>5. 1 <= Len(cmds) => After(cs, cmds, 1) \in ChainsType
  BY <1>2, <1>3, <1>4
<1>6. 2 <= Len(cmds) => After(cs, cmds, 2) \in ChainsType
  BY <1>2, <1>3, <1>5
<1>7. 3 <= Len(cmds) => After(cs, cmds, 3) \in ChainsType
  BY <1>2, <1>3, <1>6
<1>8. 4 <= Len(cmds) => After(cs, cmds, 4) \in ChainsType
  BY <1>2, <1>3, <1>7
<1>9. n = 0 \/ n = 1 \/ n = 2 \/ n = 3 \/ n = 4
  BY <1>2
<1>10. After(cs, cmds, n) \in ChainsType
  BY <1>2, <1>4, <1>5, <1>6, <1>7, <1>8, <1>9
<1>11. QED
  BY <1>1, <1>10

\* What a command does to a row.
LEMMA RowFacts ==
    ASSUME NEW row \in Seq(FixedRows \cup Policies), NEW ch, NEW tok
    PROVE  /\ Row(row, Cmd("F", ch, tok)) = << >>
           /\ ~Contains(row, tok) => Row(row, Cmd("A", ch, tok)) = Append(row, tok)
           /\ Contains(Row(row, Cmd("I", ch, tok)), tok)
           /\ \A x : Contains(Row(row, Cmd("I", ch, tok)), x) <=> Contains(row, x) \/ x = tok
<1>1. /\ Row(row, Cmd("F", ch, tok)) = << >>
      /\ ~Contains(row, tok) => Row(row, Cmd("A", ch, tok)) = Append(row, tok)
      /\ Row(row, Cmd("I", ch, tok)) = IF Contains(row, tok) THEN row ELSE <<tok>> \o row
  BY DEF Row, Cmd
<1>2. \A x : Contains(<<tok>> \o row, x) <=> Contains(row, x) \/ x = tok
  <2> DEFINE new == <<tok>> \o row
  <2>1. Len(new) = Len(row) + 1 /\ new[1] = tok /\ \A i \in 1..Len(row) : new[i + 1] = row[i]
    OBVIOUS
  <2>2. ASSUME NEW x, Contains(row, x) \/ x = tok PROVE Contains(new, x)
    <3> HIDE DEF new
    <3>1. CASE x = tok
      BY <2>1, <3>1 DEF Contains
    <3>2. CASE Contains(row, x)
      <4>1. PICK i \in 1..Len(row) : row[i] = x
        BY <3>2 DEF Contains
      <4>2. new[i + 1] = x /\ i + 1 \in 1..Len(new)
        BY <2>1, <4>1
      <4>3. QED
        BY <4>2 DEF Contains
    <3>3. QED
      BY <2>2, <3>1, <3>2
  <2>3. ASSUME NEW x, Contains(new, x) PROVE Contains(row, x) \/ x = tok
    <3> HIDE DEF new
    <3>1. PICK i \in 1..Len(new) : new[i] = x
      BY <2>3 DEF Contains
    <3>2. CASE i = 1
      BY <2>1, <3>1, <3>2
    <3>3. CASE i # 1
      <4>1. i - 1 \in 1..Len(row) /\ new[(i - 1) + 1] = row[i - 1] /\ (i - 1) + 1 = i
        BY <2>1, <3>3
      <4>2. QED
        BY <3>1, <4>1 DEF Contains
    <3>4. QED
      BY <3>2, <3>3
  <2>4. QED
    BY <2>2, <2>3
<1>3. QED
  BY <1>1, <1>2

\* Rows written out
LEMMA Append0 == ASSUME NEW S, NEW a \in S PROVE Append(<< >>, a) = <<a>>
OBVIOUS

\* Appending to one element.
LEMMA Append1 == ASSUME NEW S, NEW a \in S, NEW b \in S PROVE Append(<<a>>, b) = <<a, b>>
<1>1. <<a>> \in Seq(S)
  OBVIOUS
<1>2. PICK s \in Seq(S) : s = <<a>>
  BY <1>1
<1>3. PICK u : u = Append(s, b)
  OBVIOUS
<1>4. u \in Seq(S) /\ Len(u) = 2 /\ u[1] = a /\ u[2] = b
  BY <1>2, <1>3
<1>5. u = <<a, b>>
  BY <1>4
<1>6. QED
  BY <1>2, <1>3, <1>5

\* Appending to two elements.
LEMMA Append2 == ASSUME NEW S, NEW a \in S, NEW b \in S, NEW c \in S PROVE Append(<<a, b>>, c) = <<a, b, c>>
<1>1. <<a, b>> \in Seq(S)
  OBVIOUS
<1>2. PICK s \in Seq(S) : s = <<a, b>>
  BY <1>1
<1>3. PICK u : u = Append(s, c)
  OBVIOUS
<1>4. u \in Seq(S) /\ Len(u) = 3 /\ u[1] = a /\ u[2] = b /\ u[3] = c
  BY <1>2, <1>3
<1>5. u = <<a, b, c>>
  BY <1>4
<1>6. QED
  BY <1>2, <1>3, <1>5

\* Appending to three elements.
LEMMA Append3 == ASSUME NEW S, NEW a \in S, NEW b \in S, NEW c \in S, NEW d \in S PROVE Append(<<a, b, c>>, d) = <<a, b, c, d>>
<1>1. <<a, b, c>> \in Seq(S)
  OBVIOUS
<1>2. PICK s \in Seq(S) : s = <<a, b, c>>
  BY <1>1
<1>3. PICK u : u = Append(s, d)
  OBVIOUS
<1>4. u \in Seq(S) /\ Len(u) = 4 /\ u[1] = a /\ u[2] = b /\ u[3] = c /\ u[4] = d
  BY <1>2, <1>3
<1>5. u = <<a, b, c, d>>
  BY <1>4
<1>6. QED
  BY <1>2, <1>3, <1>5

\* Nothing but chain ch differs.
Only(ch, cs, new) == \A c \in Chains : c # ch => new[c] = cs[c]

\* Two changes of one chain are a change of that chain only.
LEMMA OnlyTwice == ASSUME NEW ch, NEW a, NEW b, NEW c, Only(ch, a, b), Only(ch, b, c) PROVE Only(ch, a, c)
BY DEF Only

\* What appending a rule does to the chains.
LEMMA RanAppend ==
    ASSUME NEW cs \in ChainsType, NEW ch \in Chains, NEW tok \in FixedRows, ~Contains(cs[ch], tok),
           NEW new, new = Ran(cs, Cmd("A", ch, tok))
    PROVE  new \in ChainsType /\ new[ch] = Append(cs[ch], tok) /\ Only(ch, cs, new)
<1>1. "A" \in {"F", "A", "I"} /\ cs[ch] \in Seq(FixedRows \cup Policies) /\ tok \in FixedRows \cup Policies
  BY DEF ChainsType
<1>2. Row(cs[ch], Cmd("A", ch, tok)) = Append(cs[ch], tok)
  BY <1>1, RowFacts
<1>3. QED
  BY <1>1, <1>2, RanRows DEF Only

\* What inserting a rule does to the chains.
LEMMA RanInsert ==
    ASSUME NEW cs \in ChainsType, NEW ch \in Chains, NEW tok \in FixedRows \cup Policies, NEW new, new = Ran(cs, Cmd("I", ch, tok))
    PROVE  new \in ChainsType /\ new[ch] = Row(cs[ch], Cmd("I", ch, tok)) /\ Only(ch, cs, new)
<1>1. "I" \in {"F", "A", "I"}
  OBVIOUS
<1>2. QED
  BY <1>1, RanRows DEF Only

\* What flushing a chain does.
LEMMA RanFlush ==
    ASSUME NEW cs \in ChainsType, NEW ch \in Chains, NEW new, new = Ran(cs, Cmd("F", ch, ""))
    PROVE  new \in ChainsType /\ new[ch] = << >> /\ Only(ch, cs, new)
<1>1. "F" \in {"F", "A", "I"} /\ cs[ch] \in Seq(FixedRows \cup Policies) /\ "" \in FixedRows \cup Policies
  BY DEF ChainsType, FixedRows
<1>2. Row(cs[ch], Cmd("F", ch, "")) = << >>
  BY <1>1, RowFacts
<1>3. QED
  BY <1>1, <1>2, RanRows DEF Only

\* A chain built from nothing
LEMMA TwoRows ==
    ASSUME NEW cs \in ChainsType, NEW ch \in Chains, cs[ch] = << >>, NEW a \in FixedRows, NEW b \in FixedRows, a # b,
           NEW new, new = Ran(Ran(cs, Cmd("A", ch, a)), Cmd("A", ch, b))
    PROVE  new \in ChainsType /\ new[ch] = <<a, b>> /\ Only(ch, cs, new)
<1>1. PICK c1 : c1 = Ran(cs, Cmd("A", ch, a))
  OBVIOUS
<1>2. ~Contains(cs[ch], a)
  BY DEF Contains
<1>3. c1 \in ChainsType /\ c1[ch] = Append(cs[ch], a) /\ Only(ch, cs, c1)
  BY <1>1, <1>2, RanAppend
<1>4. c1[ch] = <<a>>
  BY <1>3, Append0
<1>5. ~Contains(c1[ch], b)
  BY <1>4 DEF Contains
<1>6. new \in ChainsType /\ new[ch] = Append(c1[ch], b) /\ Only(ch, c1, new)
  BY <1>1, <1>3, <1>5, RanAppend
<1>7. new[ch] = <<a, b>>
  BY <1>4, <1>6, Append1
<1>8. QED
  BY <1>3, <1>6, <1>7, OnlyTwice

\* Four rules appended to an empty chain.
LEMMA FourRows ==
    ASSUME NEW cs \in ChainsType, NEW ch \in Chains, cs[ch] = << >>, NEW a \in FixedRows, NEW b \in FixedRows,
           NEW c \in FixedRows, NEW d \in FixedRows, a # b, c # a, c # b, d # a, d # b, d # c, NEW new,
           new = Ran(Ran(Ran(Ran(cs, Cmd("A", ch, a)), Cmd("A", ch, b)), Cmd("A", ch, c)), Cmd("A", ch, d))
    PROVE  new \in ChainsType /\ new[ch] = <<a, b, c, d>> /\ Only(ch, cs, new)
<1>1. PICK c2 : c2 = Ran(Ran(cs, Cmd("A", ch, a)), Cmd("A", ch, b))
  OBVIOUS
<1>2. c2 \in ChainsType /\ c2[ch] = <<a, b>> /\ Only(ch, cs, c2)
  BY <1>1, TwoRows
<1>3. PICK c3 : c3 = Ran(c2, Cmd("A", ch, c))
  OBVIOUS
<1>4. ~Contains(c2[ch], c)
  BY <1>2 DEF Contains
<1>5. c3 \in ChainsType /\ c3[ch] = Append(c2[ch], c) /\ Only(ch, c2, c3)
  BY <1>2, <1>3, <1>4, RanAppend
<1>6. c3[ch] = <<a, b, c>>
  BY <1>2, <1>5, Append2
<1>7. ~Contains(c3[ch], d)
  BY <1>6 DEF Contains
<1>8. new = Ran(c3, Cmd("A", ch, d))
  BY <1>1, <1>3
<1>9. new \in ChainsType /\ new[ch] = Append(c3[ch], d) /\ Only(ch, c3, new)
  BY <1>5, <1>7, <1>8, RanAppend
<1>10. new[ch] = <<a, b, c, d>>
  BY <1>6, <1>9, Append3
<1>11. QED
  BY <1>2, <1>5, <1>9, <1>10, OnlyTwice

\* Flushing the four chains empties them.
LEMMA FlushAll ==
    ASSUME NEW cs \in ChainsType, NEW new,
           new = Ran(Ran(Ran(Ran(cs, Cmd("F", "ROOT", "")), Cmd("F", "EW", "")), Cmd("F", "OBS", "")), Cmd("F", "ENF", ""))
    PROVE  new["ROOT"] = << >> /\ new["EW"] = << >> /\ new["OBS"] = << >> /\ new["ENF"] = << >>
<1>1. PICK c1 : c1 = Ran(cs, Cmd("F", "ROOT", ""))
  OBVIOUS
<1>2. PICK c2 : c2 = Ran(c1, Cmd("F", "EW", ""))
  OBVIOUS
<1>3. PICK c3 : c3 = Ran(c2, Cmd("F", "OBS", ""))
  OBVIOUS
<1>4. new = Ran(c3, Cmd("F", "ENF", ""))
  BY <1>1, <1>2, <1>3
<1>5. "" \in FixedRows \cup Policies /\ "ROOT" \in Chains /\ "EW" \in Chains /\ "OBS" \in Chains /\ "ENF" \in Chains
  BY DEF FixedRows, Chains
<1>6. c1 \in ChainsType /\ c1["ROOT"] = << >>
  BY <1>1, <1>5, RanFlush
<1>7. c2 \in ChainsType /\ c2["EW"] = << >> /\ Only("EW", c1, c2)
  BY <1>2, <1>5, <1>6, RanFlush
<1>8. c3 \in ChainsType /\ c3["OBS"] = << >> /\ Only("OBS", c2, c3)
  BY <1>3, <1>5, <1>7, RanFlush
<1>9. new["ENF"] = << >> /\ Only("ENF", c3, new)
  BY <1>4, <1>5, <1>8, RanFlush
<1>10. QED
  BY <1>5, <1>6, <1>7, <1>8, <1>9 DEF Only

\* What the stages of a commit do, one after the other
StageDone(cs, new, e, k) ==
    /\ new \in ChainsType
    /\ k = 1 => new["ROOT"] = << >> /\ new["EW"] = << >> /\ new["OBS"] = << >> /\ new["ENF"] = << >>
    /\ k = 2 => Contains(new["FORWARD"], "ROOT") /\ Only("FORWARD", cs, new)
    /\ k = 3 /\ cs["ROOT"] = << >> => new["ROOT"] = RootRows(e) /\ Only("ROOT", cs, new)
    /\ k = 4 /\ cs["EW"] = << >> => new["EW"] = <<"DROP", "RET">> /\ Only("EW", cs, new)
    /\ k = 5 /\ e /\ cs["ENF"] = << >> => new["ENF"] = <<"DROP", "RET">> /\ Only("ENF", cs, new)
    /\ k = 5 /\ ~e /\ cs["OBS"] = << >> => new["OBS"] = <<"ACC", "RET">> /\ Only("OBS", cs, new)

\* What each stage of the installation has done when its commands have run.
LEMMA StageDoes ==
    ASSUME NEW cs \in ChainsType, NEW e \in BOOLEAN, NEW k \in 1..5, NEW new, new = RanAll(cs, Stage(e, k))
    PROVE  StageDone(cs, new, e, k)
<1>1. PICK cmds : cmds = Stage(e, k)
  OBVIOUS
<1>2. Len(cmds) \in 1..4
  BY <1>1, StageRuns
<1>3. new = After(cs, cmds, Len(cmds))
  BY <1>1, <1>2, RanAllAfter
<1>4. new \in ChainsType
  BY <1>1, <1>2, <1>3, StageTyped
<1>5. /\ "FORWARD" \in Chains /\ "ROOT" \in Chains /\ "EW" \in Chains /\ "OBS" \in Chains /\ "ENF" \in Chains
      /\ \A x \in {"est", "ROOT", "EW", "OBS", "ENF", "DROP", "ACC", "RET"} : x \in FixedRows
  BY DEF FixedRows, Chains
<1>6. ASSUME k = 1 PROVE new["ROOT"] = << >> /\ new["EW"] = << >> /\ new["OBS"] = << >> /\ new["ENF"] = << >>
  <2>1. /\ Len(cmds) = 4 /\ cmds[1] = Cmd("F", "ROOT", "") /\ cmds[2] = Cmd("F", "EW", "")
        /\ cmds[3] = Cmd("F", "OBS", "") /\ cmds[4] = Cmd("F", "ENF", "")
    BY <1>1, <1>6 DEF Stage, CreateChain
  <2>2. new = Ran(Ran(Ran(Ran(cs, Cmd("F", "ROOT", "")), Cmd("F", "EW", "")), Cmd("F", "OBS", "")), Cmd("F", "ENF", ""))
    <3>1. After(cs, cmds, 4) = Ran(Ran(Ran(Ran(cs, cmds[1]), cmds[2]), cmds[3]), cmds[4])
      BY DEF After
    <3>2. QED
      BY <1>3, <2>1, <3>1
  <2>3. QED
    BY <2>2, FlushAll
<1>7. ASSUME k = 2 PROVE Contains(new["FORWARD"], "ROOT") /\ Only("FORWARD", cs, new)
  <2>1. Len(cmds) = 1 /\ cmds[1] = Cmd("I", "FORWARD", "ROOT")
    BY <1>1, <1>7 DEF Stage, InsertForward
  <2>2. new = Ran(cs, Cmd("I", "FORWARD", "ROOT"))
    BY <1>3, <2>1 DEF After
  <2>3. "FORWARD" \in Chains /\ "ROOT" \in FixedRows \cup Policies
    BY <1>5
  <2>4. new["FORWARD"] = Row(cs["FORWARD"], Cmd("I", "FORWARD", "ROOT")) /\ Only("FORWARD", cs, new)
    BY <2>2, <2>3, RanInsert
  <2>5. cs["FORWARD"] \in Seq(FixedRows \cup Policies)
    BY <2>3 DEF ChainsType
  <2>6. QED
    BY <2>4, <2>5, RowFacts
<1>8. ASSUME k = 3, cs["ROOT"] = << >> PROVE new["ROOT"] = RootRows(e) /\ Only("ROOT", cs, new)
  <2>1. PICK x : x = IF e THEN "ENF" ELSE "OBS"
    OBVIOUS
  <2>2. /\ Len(cmds) = 4 /\ cmds[1] = Cmd("A", "ROOT", "est") /\ cmds[2] = Cmd("A", "ROOT", "EW")
        /\ cmds[3] = Cmd("A", "ROOT", x) /\ cmds[4] = Cmd("A", "ROOT", "RET")
    BY <1>1, <1>8, <2>1 DEF Stage, BuildRootChain
  <2>3. new = Ran(Ran(Ran(Ran(cs, Cmd("A", "ROOT", "est")), Cmd("A", "ROOT", "EW")), Cmd("A", "ROOT", x)), Cmd("A", "ROOT", "RET"))
    BY <1>3, <2>2 DEF After
  <2>4. x \in FixedRows /\ x # "est" /\ x # "EW" /\ x # "RET"
    BY <1>5, <2>1
  <2>5. new["ROOT"] = <<"est", "EW", x, "RET">> /\ Only("ROOT", cs, new)
    <3>1. "ROOT" \in Chains /\ "est" \in FixedRows /\ "EW" \in FixedRows /\ "RET" \in FixedRows
      BY <1>5
    <3>2. "est" # "EW" /\ "RET" # "est" /\ "RET" # "EW"
      OBVIOUS
    <3>3. QED
      BY <1>8, <2>3, <2>4, <3>1, <3>2, FourRows
  <2>6. QED
    BY <2>1, <2>5 DEF RootRows
<1>9. ASSUME k = 4, cs["EW"] = << >> PROVE new["EW"] = <<"DROP", "RET">> /\ Only("EW", cs, new)
  <2>1. Len(cmds) = 2 /\ cmds[1] = Cmd("A", "EW", "DROP") /\ cmds[2] = Cmd("A", "EW", "RET")
    BY <1>1, <1>9 DEF Stage, BuildEWChain
  <2>2. new = Ran(Ran(cs, Cmd("A", "EW", "DROP")), Cmd("A", "EW", "RET"))
    BY <1>3, <2>1 DEF After
  <2>3. QED
    BY <1>5, <1>9, <2>2, TwoRows
<1>10. ASSUME k = 5, e, cs["ENF"] = << >> PROVE new["ENF"] = <<"DROP", "RET">> /\ Only("ENF", cs, new)
  <2>1. Len(cmds) = 2 /\ cmds[1] = Cmd("A", "ENF", "DROP") /\ cmds[2] = Cmd("A", "ENF", "RET")
    BY <1>1, <1>10 DEF Stage, BuildNSEnforceChain
  <2>2. new = Ran(Ran(cs, Cmd("A", "ENF", "DROP")), Cmd("A", "ENF", "RET"))
    BY <1>3, <2>1 DEF After
  <2>3. QED
    <3>1. "ENF" \in Chains /\ "DROP" \in FixedRows /\ "RET" \in FixedRows /\ "DROP" # "RET"
      BY <1>5
    <3>2. cs["ENF"] = << >>
      BY <1>10
    <3>3. QED
      BY <2>2, <3>1, <3>2, TwoRows
<1>11. ASSUME k = 5, ~e, cs["OBS"] = << >> PROVE new["OBS"] = <<"ACC", "RET">> /\ Only("OBS", cs, new)
  <2>1. Len(cmds) = 2 /\ cmds[1] = Cmd("A", "OBS", "ACC") /\ cmds[2] = Cmd("A", "OBS", "RET")
    BY <1>1, <1>11 DEF Stage, BuildNSObserveChain
  <2>2. new = Ran(Ran(cs, Cmd("A", "OBS", "ACC")), Cmd("A", "OBS", "RET"))
    BY <1>3, <2>1 DEF After
  <2>3. QED
    BY <1>5, <1>11, <2>2, TwoRows
<1>12. QED
  BY <1>4, <1>6, <1>7, <1>8, <1>9, <1>10, <1>11 DEF StageDone

-----------------------------------------------------------------------------
(***************************************************************************)
(* The steps of a commit                                                    *)
(***************************************************************************)
\* Nobody else commits or reverts while an undisturbed commit goes on.
LEMMA StillAlone ==
    ASSUME PolicyInv, NEW t \in Threads, Moved(t), th[t].pc \in CommitPcs, th'[t].clean => th[t].clean,
           files' = files \/ Content' = Content \/ Content' \in Stores
    PROVE  th'[t].clean => Content' # Absent /\ \A u \in Threads \ {t} : th'[u].pc \notin WorkPcs
BY FileFacts DEF PolicyInv, ThreadChains, Undisturbed, Moved, Like, Content

\* While nothing counts as installed, thread t has only its own list to keep.
LEMMA CommitStepKeeps ==
    ASSUME PolicyInv, NEW t \in Threads, Moved(t), th[t].pc \in CommitPcs, inst' = "no", StoreInv', Undisturbed(t)'
    PROVE  PolicyInv'
<1>1. \A u \in Threads \ {t} : ThreadChains(u)'
  BY CommitOthers DEF WorkPcs
<1>2. ThreadChains(t)'
  BY DEF ThreadChains
<1>3. Installed'
  BY DEF Installed
<1>4. QED
  BY <1>1, <1>2, <1>3 DEF PolicyInv

\* A commit that ends, or is disturbed, has nothing to keep.
LEMMA CommitEndKeeps ==
    ASSUME PolicyInv, NEW t \in Threads, Moved(t), th[t].pc \in CommitPcs, inst' = "no", StoreInv',
           ~th'[t].clean \/ th'[t].pc \notin CommitPcs
    PROVE  PolicyInv'
<1>1. Undisturbed(t)'
  BY DEF Undisturbed, CommitPcs
<1>2. QED
  BY <1>1, CommitStepKeeps

\* FixNSMode keeps PolicyInv.
LEMMA FixNSModeKeeps ==
    ASSUME PolicyInv, NEW t \in Threads, FixNSMode(t)
    PROVE  PolicyInv'
<1>1. th[t].pc = "fix" /\ inst' = "no" /\ UNCHANGED <<files, np, pod, chains, late, crossed>> /\ StoreInv
  BY DEF FixNSMode, PolicyInv
<1>2. \/ Goto(t, "pre")
      \/ \E m \in {"observe", "enforce"} : th' = [th EXCEPT ![t].pc = "fixw", ![t].mode = m]
  BY DEF FixNSMode
<1>3. /\ Moved(t) /\ th'[t].pc \in {"pre", "fixw"} /\ th'[t].clean = th[t].clean /\ th'[t].boot = th[t].boot
      /\ th'[t].pc = "fixw" => th'[t].mode \in Modes
  <2>1. CASE Goto(t, "pre")
    BY <1>1, <2>1, GotoMoves DEF PolicyPcs
  <2>2. CASE \E m \in {"observe", "enforce"} : th' = [th EXCEPT ![t].pc = "fixw", ![t].mode = m]
    <3>1. PICK m \in {"observe", "enforce"} : th' = [th EXCEPT ![t].pc = "fixw", ![t].mode = m]
      BY <2>2
    <3>2. m \in Modes
      BY DEF Modes
    <3> DEFINE x == [th[t] EXCEPT !.pc = "fixw", !.mode = m]
    <3>3. th[t] \in PolicyThreads
      BY <1>1 DEF StoreInv
    <3>4. x \in PolicyThreads /\ x.pc = "fixw" /\ x.mode = m /\ x.clean = th[t].clean /\ x.boot = th[t].boot
      BY <3>2, <3>3 DEF PolicyThreads, PolicyPcs
    <3>5. th' = [th EXCEPT ![t] = x]
      BY <1>1, <3>1 DEF StoreInv
    <3> HIDE DEF x
    <3>6. QED
      BY <1>1, <3>2, <3>4, <3>5, SetMoves
  <2>3. QED
    BY <1>2, <2>1, <2>2
<1>4. ~th[t].boot
  BY <1>1 DEF StoreInv, ThreadsOK, ThreadOK
<1>5. StoreInv'
  <2>1. ThreadOK(t, th'[t], crossed')
    BY <1>3, <1>4 DEF ThreadOK, CopyPcs
  <2>2. MarksOf(th'[t])
    BY <1>3 DEF MarksOf
  <2>3. /\ inst' \in {"no", "built", "saved"} /\ chains' \in [Chains -> Seq(FixedRows \cup Policies)]
        /\ pod' \in [Pods -> {"down", "created", "ready"}] /\ np' \in BOOLEAN
    BY <1>1 DEF StoreInv, PolicyTypeOK
  <2>4. QED
    BY <1>1, <1>3, <1>4, <2>1, <2>2, <2>3, MoveKeeps DEF RevertPcs
<1>6. Undisturbed(t)'
  BY <1>1, <1>3, StillAlone DEF Undisturbed, CommitPcs
<1>7. QED
  BY <1>1, <1>3, <1>5, <1>6, CommitStepKeeps DEF CommitPcs

\* The fixed mode is written.
LEMMA FixwKeeps ==
    ASSUME PolicyInv, NEW t \in Threads, WriteNSMode(t), th[t].pc = "fixw"
    PROVE  PolicyInv'
<1>1. StoreInv /\ inst = "no" /\ UNCHANGED <<chains, late, np, pod>>
  BY DEF WriteNSMode, PolicyInv, ThreadChains
<1>2. PICK c \in Seen : Overtaken(c) /\ IF Readable(c) THEN Save([Load(c) EXCEPT !.mode = th[t].mode]) ELSE UNCHANGED files
  BY DEF WriteNSMode
<1>3. ~th[t].boot /\ th[t].mode \in Modes
  BY <1>1 DEF StoreInv, ThreadsOK, ThreadOK
<1>4. Goto(t, "pre") \/ Finish(t)
  BY DEF WriteNSMode
<1>5. /\ Moved(t) /\ th'[t].pc \in {"pre", "idle"} /\ ~th'[t].boot /\ (th'[t].pc = "pre" => th'[t].clean = th[t].clean)
  BY <1>1, <1>3, <1>4, GotoMoves, FinishMoves DEF PolicyPcs
<1>6. (\A m : ThreadOK(t, th'[t], m)) /\ MarksOf(th'[t])
  BY <1>5 DEF ThreadOK, MarksOf, CopyPcs
<1>7. PICK s : s = [Load(c) EXCEPT !.mode = th[t].mode]
  OBVIOUS
<1>8. Readable(c) => Load(c) \in Stores /\ s \in Stores /\ s.pol = Load(c).pol /\ Save(s)
  <2>1. c \in Files
    BY <1>2, SeenFacts
  <2>2. Readable(c) => Load(c) \in Stores
    BY <2>1, LoadFacts
  <2>3. QED
    BY <1>2, <1>3, <1>7, <2>2 DEF Stores
<1>9. /\ files' \in [Names -> Stores \cup {Broken, Absent}] /\ (files' = files \/ Content' \in Stores)
      /\ late' \subseteq Policies
  <2>1. CASE Readable(c)
    BY <1>1, <1>8, <2>1, SavedTyped DEF StoreInv, PolicyTypeOK
  <2>2. CASE ~Readable(c)
    BY <1>1, <1>2, <2>2 DEF StoreInv, PolicyTypeOK
  <2>3. QED
    BY <2>1, <2>2
<1>10. CASE c = Content /\ Content # Absent /\ inst' = inst /\ crossed' = crossed
  <2>1. StoreInv'
    <3>1. CASE Readable(c)
      <4>1. Content \in Stores /\ Load(Content) = Content
        BY <1>10, <3>1, ContentFacts
      <4>2. \A p \in Policies : s.pol[p] = "remove" => Status(p) = "remove"
        BY <1>8, <1>10, <3>1, <4>1 DEF Status
      <4>3. th[t].pc \notin RevertPcs \cup {"copy", "setnp"} /\ th'[t].pc \notin RevertPcs /\ th[t].pc # "idle"
        BY <1>5 DEF RevertPcs
      <4>4. s \in Stores /\ Save(s)
        BY <1>8, <3>1
      <4>5. ThreadOK(t, th'[t], crossed') /\ MarksOf(th'[t])
        BY <1>6
      <4>6. QED
        BY <1>1, <1>3, <1>5, <1>10, <4>2, <4>3, <4>4, <4>5, SaveKeeps
    <3>2. CASE ~Readable(c)
      <4>1. files' = files /\ chains' \in [Chains -> Seq(FixedRows \cup Policies)]
            /\ pod' \in [Pods -> {"down", "created", "ready"}] /\ np' \in BOOLEAN
        BY <1>1, <1>2, <3>2 DEF StoreInv, PolicyTypeOK
      <4>2. ThreadOK(t, th'[t], crossed')
        BY <1>6
      <4>3. QED
        BY <1>1, <1>3, <1>5, <1>6, <1>10, <4>1, <4>2, MoveKeeps DEF RevertPcs
    <3>3. QED
      BY <3>1, <3>2
  <2>2. Undisturbed(t)'
    <3>1. CASE th'[t].pc = "pre"
      BY <1>5, <1>9, <3>1, StillAlone DEF Undisturbed, CommitPcs
    <3>2. CASE th'[t].pc = "idle"
      BY <3>2 DEF Undisturbed, CommitPcs
    <3>3. QED
      BY <1>5, <3>1, <3>2
  <2>3. QED
    BY <1>1, <1>5, <1>10, <2>1, <2>2, CommitStepKeeps DEF CommitPcs
<1>11. CASE (Reverting \/ Content = Absent) /\ inst' = "no" /\ crossed' = TRUE
  <2>1. ThreadOK(t, th'[t], TRUE)
    BY <1>6
  <2>2. th'[t].clean /\ th'[t].pc \in CommitPcs => th[t].clean /\ th[t].pc \in CommitPcs
    BY <1>5 DEF CommitPcs
  <2>3. QED
    BY <1>1, <1>5, <1>9, <1>11, <2>1, <2>2, OvertakenKeeps
<1>12. QED
  BY <1>2, <1>10, <1>11, SeenFacts

\* BuildPredefinedPolicy keeps PolicyInv.
LEMMA BuildPredefinedPolicyKeeps ==
    ASSUME PolicyInv, NEW t \in Threads, BuildPredefinedPolicy(t)
    PROVE  PolicyInv'
<1>1. th[t].pc = "pre" /\ inst' = "no" /\ UNCHANGED <<files, np, pod, chains, late, crossed>> /\ StoreInv
  BY DEF BuildPredefinedPolicy, PolicyInv
<1>2. PICK e \in BOOLEAN : e = IsNsEnforce
  BY DEF IsNsEnforce
<1>3. PICK cmds : cmds = << CreateChain, InsertForward, BuildRootChain(e), BuildEWChain,
                            IF e THEN BuildNSEnforceChain ELSE BuildNSObserveChain >>
  OBVIOUS
<1>4. Len(cmds) = 5 /\ \A i \in 1..5 : cmds[i] = Stage(e, i)
  BY <1>3 DEF Stage
<1>5. cmds \in Seq(Seq(Commands))
  <2>1. \A i \in 1..5 : cmds[i] \in Seq(Commands)
    BY <1>4, StageRuns
  <2>2. cmds = [i \in 1..5 |-> cmds[i]]
    BY <1>3
  <2>3. QED
    BY <2>1, <2>2
<1>6. Stages(cmds, e)
  BY <1>4 DEF Stages
<1>7. th' = [th EXCEPT ![t].pc = "ipt", ![t].cmds = cmds]
  BY <1>2, <1>3 DEF BuildPredefinedPolicy
<1>8. /\ Moved(t) /\ th'[t].pc = "ipt" /\ th'[t].cmds = cmds /\ th'[t].clean = th[t].clean /\ th'[t].boot = th[t].boot
  <2> DEFINE x == [th[t] EXCEPT !.pc = "ipt", !.cmds = cmds]
  <2>1. th[t] \in PolicyThreads
    BY <1>1 DEF StoreInv
  <2>2. x \in PolicyThreads /\ x.pc = "ipt" /\ x.cmds = cmds /\ x.clean = th[t].clean /\ x.boot = th[t].boot
    BY <1>5, <2>1 DEF PolicyThreads, PolicyPcs
  <2>3. th' = [th EXCEPT ![t] = x]
    BY <1>1, <1>7 DEF StoreInv
  <2> HIDE DEF x
  <2>4. QED
    BY <1>1, <2>2, <2>3, SetMoves
<1>9. th[t].boot => t = Ctl
  BY <1>1 DEF StoreInv, ThreadsOK, ThreadOK
<1>10. StoreInv'
  <2>1. ThreadOK(t, th'[t], crossed')
    BY <1>6, <1>8, <1>9 DEF ThreadOK, CopyPcs
  <2>2. MarksOf(th'[t])
    BY <1>8 DEF MarksOf
  <2>3. /\ inst' \in {"no", "built", "saved"} /\ chains' \in [Chains -> Seq(FixedRows \cup Policies)]
        /\ pod' \in [Pods -> {"down", "created", "ready"}] /\ np' \in BOOLEAN
    BY <1>1 DEF StoreInv, PolicyTypeOK
  <2>4. QED
    BY <1>1, <1>8, <2>1, <2>2, <2>3, MoveKeeps DEF RevertPcs
<1>11. Undisturbed(t)'
  <2>1. Content' = Content
    BY <1>1 DEF Content
  <2>2. Content' \in Stores => ModeShown(Content', e)
    <3>1. Content \in Stores => Load(Content) = Content /\ Readable(Content)
      BY FileFacts DEF Load, Readable
    <3>2. QED
      BY <1>2, <2>1, <3>1 DEF ModeShown, IsNsEnforce, GetNSMode
  <2>3. Rebuilt(e, 5 - Len(cmds))'
    BY <1>4 DEF Rebuilt
  <2>4. th'[t].clean => Content' # Absent /\ \A u \in Threads \ {t} : th'[u].pc \notin WorkPcs
    BY <1>1, <1>8, StillAlone DEF CommitPcs
  <2>5. QED
    BY <1>6, <1>8, <2>2, <2>3, <2>4 DEF Undisturbed
<1>12. QED
  BY <1>1, <1>8, <1>10, <1>11, CommitStepKeeps DEF CommitPcs

\* The first of two verdicts is the one that counts.
LEMMA PairLeads == ASSUME NEW v \in Verdicts, NEW w \in Verdicts PROVE Leads(<<v, w>>, v)
<1>1. 1 \in DOMAIN <<v, w>> /\ <<v, w>>[1] = v /\ \A i \in DOMAIN <<v, w>> : ~(i < 1) /\ <<v, w>>[i] \in Verdicts
  OBVIOUS
<1>2. QED
  BY <1>1 DEF Leads

\* The rules of an undisturbed commit that has built its chains: no policy's is there yet.
LEMMA BuiltChains ==
    ASSUME PolicyInv, NEW t \in Threads, NEW e \in BOOLEAN, chains' \in ChainsType, Content' = Content,
           Content \in Stores => ModeShown(Content, e), th'[t].pc = "list", th'[t].chain = "EW",
           Contains(chains'["FORWARD"], "ROOT"), chains'["ROOT"] = RootRows(e), chains'["EW"] = <<"DROP", "RET">>,
           chains'["ENF"] = IF e THEN <<"DROP", "RET">> ELSE << >>, chains'["OBS"] = IF e THEN << >> ELSE <<"ACC", "RET">>
    PROVE  Inserting(t)'
<1>1. RootRows(TRUE)[3] = "ENF" /\ RootRows(FALSE)[3] = "OBS"
  BY DEF RootRows
<1>2. Enforcing' <=> e
  <2>1. CASE e
    BY <2>1 DEF Enforcing
  <2>2. CASE ~e
    BY <1>1, <2>2 DEF Enforcing
  <2>3. QED
    BY <2>1, <2>2
<1>3. Ends("EW", "DROP")'
  BY PairLeads DEF Ends, Verdicts
<1>4. IF e THEN Ends("ENF", "DROP")' ELSE Ends("OBS", "ACC")'
  BY PairLeads DEF Ends, Verdicts
<1>5. Skeleton'
  <2>1. chains'["ROOT"] \in {RootRows(TRUE), RootRows(FALSE)}
    OBVIOUS
  <2>2. QED
    BY <1>2, <1>3, <1>4, <2>1 DEF Skeleton
<1>6. \A p : ~Handled(t, p)'
  BY DEF Handled, Listed, Before
<1>7. ASSUME NEW p \in Policies PROVE ~Ruled(p)'
  <2>1. Chain(p) \in {"EW", "OBS", "ENF"} /\ Rule(p) = p /\ p \notin FixedRows
    BY PolicyAssumption DEF Chain, Rule
  <2>2. p # "DROP" /\ p # "RET" /\ p # "ACC"
    BY <2>1 DEF FixedRows
  <2>3. ~Contains(<<"DROP", "RET">>, p) /\ ~Contains(<<"ACC", "RET">>, p) /\ ~Contains(<< >>, p)
    BY <2>2 DEF Contains
  <2>4. chains'[Chain(p)] \in {<<"DROP", "RET">>, <<"ACC", "RET">>, << >>}
    BY <2>1
  <2>5. ~Contains(chains'[Chain(p)], p)
    BY <2>3, <2>4
  <2>6. QED
    BY <2>1, <2>5 DEF Ruled
<1>8. Content' \in Stores => ModeShown(Content', Enforcing')
  BY <1>2 DEF ModeShown
<1>9. QED
  BY <1>5, <1>6, <1>7, <1>8 DEF Inserting

\* RunCommands keeps PolicyInv.
LEMMA RunCommandsKeeps ==
    ASSUME PolicyInv, NEW t \in Threads, RunCommands(t)
    PROVE  PolicyInv'
<1>1. th[t].pc = "ipt" /\ UNCHANGED <<files, np, pod, inst, late, crossed>> /\ StoreInv /\ inst = "no"
  BY DEF RunCommands, PolicyInv, ThreadChains
<1>2. PICK cmds : cmds = th[t].cmds
  OBVIOUS
<1>3. PICK e \in BOOLEAN :
        /\ Stages(cmds, e)
        /\ th[t].clean => Rebuilt(e, 5 - Len(cmds)) /\ (Content \in Stores => ModeShown(Content, e))
  BY <1>1, <1>2 DEF StoreInv, ThreadsOK, ThreadOK, PolicyInv, ThreadChains, Undisturbed
<1>11. PICK n \in 1..5 : n = Len(cmds)
  BY <1>3 DEF Stages
<1>4. PICK k \in 1..5 : n = 6 - k /\ k = 6 - n
  <2>1. 6 - n \in 1..5 /\ n = 6 - (6 - n)
    OBVIOUS
  <2>2. QED
    BY <2>1
<1>5. cmds \in Seq(Seq(Commands)) /\ Len(cmds) \in 1..5 /\ k \in 1..5 /\ Head(cmds) = Stage(e, k)
  <2>1. cmds \in Seq(Seq(Commands))
    BY <1>1, <1>2 DEF StoreInv, PolicyThreads
  <2>2. Len(cmds) \in 1..5 /\ cmds[1] = Stage(e, 5 - Len(cmds) + 1)
    BY <1>3 DEF Stages
  <2>3. k = 5 - Len(cmds) + 1
    BY <1>4, <1>11
  <2>4. Head(cmds) = cmds[1]
    BY <2>1, <2>2
  <2>5. QED
    BY <2>1, <2>2, <2>3, <2>4, <1>4
<1>6. chains \in ChainsType
  BY <1>1 DEF StoreInv, ChainsType
<1>7. th[t].boot => t = Ctl
  BY <1>1 DEF StoreInv, ThreadsOK, ThreadOK
<1>8. CASE /\ Fail /\ Abort(t)
           /\ \E m \in 0..Len(Head(th[t].cmds)) - 1 : chains' = RanAll(chains, SubSeq(Head(th[t].cmds), 1, m))
  <2>1. PICK stage : stage = Stage(e, k)
    OBVIOUS
  <2>6. stage \in Seq(Commands) /\ Len(stage) \in 1..4 /\ stage = Head(th[t].cmds)
    BY <1>2, <1>5, <2>1, StageRuns
  <2>7. PICK m \in 0..Len(stage) - 1 : chains' = RanAll(chains, SubSeq(stage, 1, m))
    BY <1>8, <2>6
  <2>2. chains' \in ChainsType
    <3>1. \A l \in 1..4 : \A i \in 0..l - 1 : i \in 0..3 /\ i <= l /\ i \in 0..l
      OBVIOUS
    <3>2. m \in 0..3 /\ m <= Len(stage) /\ m \in 0..Len(stage)
      BY <2>6, <2>7, <3>1
    <3>3. PICK part : part = SubSeq(stage, 1, m)
      OBVIOUS
    <3>4. Len(part) = m
      BY <2>6, <3>2, <3>3
    <3>9. \A i \in 1..m : part[i] = stage[i]
      BY <2>6, <3>2, <3>3
    <3>5. chains' = After(chains, part, m)
      <4>1. chains' = RanAll(chains, part) /\ Len(part) \in 0..4
        BY <2>7, <3>2, <3>3, <3>4
      <4>2. QED
        BY <3>4, <4>1, RanAllAfter
    <3>6. After(chains, part, m) = After(chains, stage, m)
      <4>1. m = 0 \/ m = 1 \/ m = 2 \/ m = 3
        BY <3>2
      <4>2. QED
        BY <3>9, <4>1 DEF After
    <3>8. QED
      BY <1>5, <1>6, <2>1, <3>2, <3>5, <3>6, StageTyped
  <2>3. Moved(t) /\ th'[t].boot = th[t].boot /\ th'[t].pc = IF th[t].boot THEN "setnp" ELSE "idle"
    BY <1>1, <1>8, AbortMoves
  <2>4. StoreInv'
    <3>1. ThreadOK(t, th'[t], crossed')
      BY <1>7, <2>3 DEF ThreadOK, CopyPcs
    <3>2. MarksOf(th'[t])
      BY <2>3 DEF MarksOf
    <3>3. /\ inst' \in {"no", "built", "saved"} /\ chains' \in [Chains -> Seq(FixedRows \cup Policies)]
          /\ pod' \in [Pods -> {"down", "created", "ready"}] /\ np' \in BOOLEAN
      BY <1>1, <2>2 DEF StoreInv, PolicyTypeOK, ChainsType
    <3>4. QED
      BY <1>1, <2>3, <3>1, <3>2, <3>3, MoveKeeps DEF RevertPcs
  <2>5. QED
    BY <1>1, <2>3, <2>4, CommitEndKeeps DEF CommitPcs
<1>9. CASE /\ chains' = RanAll(chains, Head(th[t].cmds))
           /\ th' = [th EXCEPT ![t].cmds = Tail(@), ![t].chain = "EW",
                               ![t].pc = IF Len(th[t].cmds) = 1 THEN "list" ELSE "ipt"]
  <2>1. PICK x : x = [th[t] EXCEPT !.cmds = Tail(cmds), !.chain = "EW", !.pc = IF Len(cmds) = 1 THEN "list" ELSE "ipt"]
    OBVIOUS
  <2>2. th[t] \in PolicyThreads
    BY <1>1 DEF StoreInv
  <2>3. Tail(cmds) \in Seq(Seq(Commands)) /\ Len(Tail(cmds)) = Len(cmds) - 1 /\ \A i \in 1..(Len(cmds) - 1) : Tail(cmds)[i] = cmds[i + 1]
    BY <1>5
  <2>4. /\ x \in PolicyThreads /\ x.pc = (IF Len(cmds) = 1 THEN "list" ELSE "ipt") /\ x.cmds = Tail(cmds)
        /\ x.chain = "EW" /\ x.clean = th[t].clean /\ x.boot = th[t].boot
    BY <2>1, <2>2, <2>3 DEF PolicyThreads, PolicyPcs
  <2>5. th' = [th EXCEPT ![t] = x]
    BY <1>1, <1>2, <1>9, <2>1 DEF StoreInv
  <2>6. Moved(t) /\ th'[t] = x
    BY <1>1, <2>4, <2>5, SetMoves
  <2>7. Len(cmds) # 1 => Stages(Tail(cmds), e)
    <3>1. \A i \in 1..Len(cmds) : cmds[i] = Stage(e, 5 - Len(cmds) + i)
      BY <1>3 DEF Stages
    <3>2. PICK l \in 1..5 : l = Len(cmds)
      BY <1>5
    <3>3. ASSUME NEW i \in 1..(l - 1) PROVE Tail(cmds)[i] = Stage(e, 5 - (l - 1) + i)
      <4>1. i + 1 \in 1..l /\ 5 - l + (i + 1) = 5 - (l - 1) + i
        BY <3>2
      <4>2. Tail(cmds)[i] = cmds[i + 1] /\ cmds[i + 1] = Stage(e, 5 - l + (i + 1))
        BY <2>3, <3>1, <3>2, <4>1
      <4>3. QED
        BY <4>1, <4>2
    <3>4. l # 1 => l - 1 \in 1..5
      BY <3>2
    <3>5. QED
      BY <2>3, <3>2, <3>3, <3>4 DEF Stages
  <2>8. chains' = RanAll(chains, Stage(e, k))
    BY <1>2, <1>5, <1>9
  <2>9. /\ chains' \in ChainsType
        /\ k = 1 => chains'["ROOT"] = << >> /\ chains'["EW"] = << >> /\ chains'["OBS"] = << >> /\ chains'["ENF"] = << >>
        /\ k = 2 => Contains(chains'["FORWARD"], "ROOT") /\ Only("FORWARD", chains, chains')
        /\ k = 3 /\ chains["ROOT"] = << >> => chains'["ROOT"] = RootRows(e) /\ Only("ROOT", chains, chains')
        /\ k = 4 /\ chains["EW"] = << >> => chains'["EW"] = <<"DROP", "RET">> /\ Only("EW", chains, chains')
        /\ k = 5 /\ e /\ chains["ENF"] = << >> => chains'["ENF"] = <<"DROP", "RET">> /\ Only("ENF", chains, chains')
        /\ k = 5 /\ ~e /\ chains["OBS"] = << >> => chains'["OBS"] = <<"ACC", "RET">> /\ Only("OBS", chains, chains')
    <3>1. StageDone(chains, chains', e, k)
      BY <1>6, <2>8, StageDoes
    <3>2. QED
      BY <3>1 DEF StageDone
  <2>10. StoreInv'
    <3>1. ThreadOK(t, th'[t], crossed')
      BY <1>7, <2>4, <2>6, <2>7 DEF ThreadOK, CopyPcs
    <3>2. MarksOf(th'[t])
      BY <2>4, <2>6 DEF MarksOf
    <3>3. /\ inst' \in {"no", "built", "saved"} /\ chains' \in [Chains -> Seq(FixedRows \cup Policies)]
          /\ pod' \in [Pods -> {"down", "created", "ready"}] /\ np' \in BOOLEAN
      BY <1>1, <2>9 DEF StoreInv, PolicyTypeOK, ChainsType
    <3>4. QED
      BY <1>1, <2>4, <2>6, <3>1, <3>2, <3>3, MoveKeeps DEF RevertPcs
  <2>11. CASE ~th[t].clean
    BY <1>1, <2>4, <2>6, <2>10, <2>11, CommitEndKeeps DEF CommitPcs
  <2>12. CASE th[t].clean
    <3>1. Rebuilt(e, k - 1) /\ (Content \in Stores => ModeShown(Content, e)) /\ Content' = Content
      <4>1. 5 - Len(cmds) = k - 1
        BY <1>4, <1>11
      <4>2. QED
        BY <1>1, <1>3, <2>12, <4>1 DEF Content
    <3>2. "FORWARD" \in Chains /\ "ROOT" \in Chains /\ "EW" \in Chains /\ "OBS" \in Chains /\ "ENF" \in Chains
      BY DEF Chains
    <3>3. th'[t].clean => Content' # Absent /\ \A u \in Threads \ {t} : th'[u].pc \notin WorkPcs
      BY <1>1, <2>4, <2>6, StillAlone DEF CommitPcs
    <3>4. CASE k = 5
      <4>1. th'[t].pc = "list" /\ th'[t].chain = "EW"
        <5>1. Len(cmds) = 1
          BY <1>4, <1>11, <3>4
        <5>2. QED
          BY <2>4, <2>6, <5>1
      <4>2. /\ Contains(chains["FORWARD"], "ROOT") /\ chains["ROOT"] = RootRows(e) /\ chains["EW"] = <<"DROP", "RET">>
            /\ chains["ENF"] = << >> /\ chains["OBS"] = << >>
        BY <3>1, <3>4 DEF Rebuilt
      <4>3. CASE e
        <5>1. chains'["ENF"] = <<"DROP", "RET">> /\ Only("ENF", chains, chains')
          BY <2>9, <3>4, <4>2, <4>3
        <5>2. /\ chains'["FORWARD"] = chains["FORWARD"] /\ chains'["ROOT"] = chains["ROOT"]
              /\ chains'["EW"] = chains["EW"] /\ chains'["OBS"] = chains["OBS"]
          BY <3>2, <5>1 DEF Only
        <5>3. Inserting(t)'
          BY <2>9, <3>1, <4>1, <4>2, <4>3, <5>1, <5>2, BuiltChains
        <5>4. Undisturbed(t)'
          BY <3>3, <4>1, <5>3 DEF Undisturbed
        <5>5. QED
          BY <1>1, <2>6, <2>10, <5>4, CommitStepKeeps DEF CommitPcs
      <4>4. CASE ~e
        <5>1. chains'["OBS"] = <<"ACC", "RET">> /\ Only("OBS", chains, chains')
          BY <2>9, <3>4, <4>2, <4>4
        <5>2. /\ chains'["FORWARD"] = chains["FORWARD"] /\ chains'["ROOT"] = chains["ROOT"]
              /\ chains'["EW"] = chains["EW"] /\ chains'["ENF"] = chains["ENF"]
          BY <3>2, <5>1 DEF Only
        <5>3. Inserting(t)'
          BY <2>9, <3>1, <4>1, <4>2, <4>4, <5>1, <5>2, BuiltChains
        <5>4. Undisturbed(t)'
          BY <3>3, <4>1, <5>3 DEF Undisturbed
        <5>5. QED
          BY <1>1, <2>6, <2>10, <5>4, CommitStepKeeps DEF CommitPcs
      <4>5. QED
        BY <4>3, <4>4
    <3>5. CASE k # 5
      <4>1. th'[t].pc = "ipt" /\ th'[t].cmds = Tail(cmds) /\ 5 - Len(Tail(cmds)) = k /\ Stages(Tail(cmds), e) /\ k \in 1..4
        <5>1. Len(cmds) # 1 /\ k \in 1..4 /\ 5 - (Len(cmds) - 1) = k
          BY <1>4, <1>11, <3>5
        <5>2. QED
          BY <2>3, <2>4, <2>6, <2>7, <5>1
      <4>2. Rebuilt(e, k)'
        <5>1. k = 1 \/ k = 2 \/ k = 3 \/ k = 4
          BY <4>1
        <5>2. CASE k = 1
          BY <2>9, <5>2 DEF Rebuilt
        <5>3. CASE k = 2
          BY <2>9, <3>1, <3>2, <5>3 DEF Rebuilt, Only
        <5>4. CASE k = 3
          BY <2>9, <3>1, <3>2, <5>4 DEF Rebuilt, Only
        <5>5. CASE k = 4
          BY <2>9, <3>1, <3>2, <5>5 DEF Rebuilt, Only
        <5>6. QED
          BY <5>1, <5>2, <5>3, <5>4, <5>5
      <4>3. Rebuilt(e, 5 - Len(Tail(cmds)))'
        BY <4>1, <4>2 DEF Rebuilt
      <4>4. Undisturbed(t)'
        BY <3>1, <3>3, <4>1, <4>3 DEF Undisturbed
      <4>5. QED
        BY <1>1, <2>6, <2>10, <4>4, CommitStepKeeps DEF CommitPcs
    <3>6. QED
      BY <3>4, <3>5
  <2>13. QED
    BY <2>11, <2>12
<1>10. QED
  BY <1>8, <1>9 DEF RunCommands

-----------------------------------------------------------------------------
(***************************************************************************)
(* The lists of policies                                                    *)
(***************************************************************************)
LEMMA ListMoveKeeps ==
    ASSUME PolicyInv, NEW t \in Threads, Moved(t), th[t].pc \in {"list", "each", "mark"},
           UNCHANGED <<files, np, pod, late, crossed>>, inst' \in {"no", "built", "saved"}, chains' \in ChainsType,
           ThreadOK(t, th'[t], crossed), MarksOf(th'[t]), th'[t].boot => th[t].boot, th'[t].pc \notin RevertPcs
    PROVE  StoreInv'
<1>1. StoreInv /\ np' \in BOOLEAN /\ pod' \in [Pods -> {"down", "created", "ready"}]
  BY DEF PolicyInv, StoreInv, PolicyTypeOK
<1>2. chains' \in [Chains -> Seq(FixedRows \cup Policies)]
  BY DEF ChainsType
<1>3. ThreadOK(t, th'[t], crossed')
  OBVIOUS
<1>4. QED
  BY <1>1, <1>2, <1>3, MoveKeeps DEF RevertPcs

\* A commit that saves its list of policies keeps StoreInv.
LEMMA ListSaveKeeps ==
    ASSUME PolicyInv, NEW t \in Threads, Moved(t), th[t].pc \in {"list", "each", "mark"}, NEW s \in Stores, Save(s),
           UNCHANGED <<np, pod, late, crossed, inst, chains>>, ThreadOK(t, th'[t], crossed), MarksOf(th'[t]),
           \A p \in Policies : s.pol[p] = "remove" => Status(p) = "remove", Content # Absent,
           th'[t].boot => th[t].boot, th'[t].pc \notin RevertPcs
    PROVE  StoreInv' /\ Content' = s
<1>1. StoreInv
  BY DEF PolicyInv
<1>2. ThreadOK(t, th'[t], crossed')
  OBVIOUS
<1>3. StoreInv'
  BY <1>1, <1>2, SaveKeeps DEF RevertPcs
<1>4. Content' = s
  BY <1>1 DEF StoreInv, PolicyTypeOK, Save, Content, Names
<1>5. QED
  BY <1>3, <1>4

\* What the invariant says of a commit that goes through its list.
LEMMA ListFacts ==
    ASSUME PolicyInv, NEW t \in Threads, th[t].pc \in {"list", "each", "mark"}
    PROVE  /\ StoreInv /\ inst = "no" /\ (th[t].boot => t = Ctl) /\ th[t] \in PolicyThreads /\ th[t].chain \in {"EW", "OBS", "ENF"}
           /\ chains \in ChainsType /\ Content \in Files
           /\ Readable(Content) /\ Content # Absent => Content \in Stores /\ Load(Content) = Content
           /\ th[t].clean => Inserting(t)
<1>1. Content \in Files /\ (Readable(Content) /\ Content # Absent => Content \in Stores /\ Load(Content) = Content)
  BY ContentFacts
<1>2. StoreInv /\ th[t] \in PolicyThreads /\ chains \in ChainsType
  BY DEF PolicyInv, StoreInv, ChainsType
<1>3. th[t].chain \in {"EW", "OBS", "ENF"}
  BY <1>2 DEF PolicyThreads
<1>4. inst = "no" /\ (th[t].clean => Inserting(t))
  BY DEF PolicyInv, ThreadChains, Undisturbed
<1>5. th[t].boot => t = Ctl
  BY <1>2 DEF StoreInv, ThreadsOK, ThreadOK
<1>6. QED
  BY <1>1, <1>2, <1>3, <1>4, <1>5

\* The chain and the rule of a policy.
LEMMA ChainFacts ==
    ASSUME NEW p \in Ids
    PROVE  /\ Chain(p) \in {"EW", "OBS", "ENF"} /\ Rule(p) \in FixedRows \cup Policies
           /\ Rule(p) \notin {"DROP", "ACC", "RET", ""}
           /\ p \in Policies => Rule(p) = p /\ p \notin FixedRows
<1>1. CASE p \in Policies
  <2>1. p \notin FixedRows
    BY <1>1, PolicyAssumption
  <2>2. QED
    BY <1>1, <2>1, PolicyAssumption DEF Chain, Rule, FixedRows
<1>2. CASE p \notin Policies
  BY <1>2 DEF Chain, Rule, FixedRows
<1>3. QED
  BY <1>1, <1>2

\* The list of a chain has the policies on file for it.
LEMMA ListOfFacts ==
    ASSUME PolicyInv, NEW t \in Threads, th[t].pc = "list", NEW ch \in {"EW", "OBS", "ENF"}
    PROVE  /\ ListOf(ch) \in Lists
           /\ \A p \in DOMAIN ListOf(ch) : p \in Ids /\ Chain(p) = ch /\ Status(p) # "none" /\ ListOf(ch)[p] = Status(p)
           /\ \A p \in Ids : Chain(p) = ch /\ p \notin DOMAIN ListOf(ch) => Status(p) = "none"
<1>1. /\ Content \in Files /\ (Readable(Content) /\ Content # Absent => Content \in Stores /\ Load(Content) = Content)
  BY ListFacts
<1>2. CASE Readable(Content) /\ Content # Absent
  <2>1. PICK S : S = {q \in Ids : Chain(q) = ch /\ Content.pol[q] # "none"}
    OBVIOUS
  <2>2. ListOf(ch) = [p \in S |-> Content.pol[p]]
    BY <1>1, <1>2, <2>1 DEF ListOf
  <2>3. \A p \in S : Content.pol[p] \in Statuses
    BY <1>1, <1>2, <2>1 DEF Stores
  <2>4. ListOf(ch) \in [S -> Statuses] /\ S \in SUBSET Ids
    BY <2>1, <2>2, <2>3
  <2>5. ListOf(ch) \in Lists
    BY <2>4 DEF Lists
  <2>6. \A p \in Ids : Status(p) = Content.pol[p]
    BY <1>1, <1>2 DEF Status
  <2>7. DOMAIN ListOf(ch) = S /\ \A p \in S : ListOf(ch)[p] = Content.pol[p]
    BY <2>2
  <2>8. QED
    BY <2>1, <2>5, <2>6, <2>7
<1>3. CASE ~Readable(Content)
  <2>1. Content \notin Stores
    BY <1>3, FileFacts DEF Readable
  <2>2. ListOf(ch) = << >>
    BY <1>3 DEF ListOf
  <2>3. << >> \in [{} -> Statuses] /\ DOMAIN << >> = {}
    OBVIOUS
  <2>4. ListOf(ch) \in Lists
    BY <2>2, <2>3 DEF Lists
  <2>5. \A p : Status(p) = "none"
    BY <2>1 DEF Status
  <2>6. QED
    BY <2>2, <2>3, <2>4, <2>5
<1>4. CASE Content = Absent
  <2>1. Readable(Content) /\ Content \notin Stores /\ \A p \in Ids : Load(Content).pol[p] = "none"
    BY <1>1, <1>4, FileFacts, LoadFacts DEF Readable
  <2>2. PICK S : S = {q \in Ids : Chain(q) = ch /\ Load(Content).pol[q] # "none"}
    OBVIOUS
  <2>3. S = {} /\ ListOf(ch) = [p \in S |-> Load(Content).pol[p]]
    BY <2>1, <2>2 DEF ListOf
  <2>4. DOMAIN ListOf(ch) = {} /\ ListOf(ch) \in [{} -> Statuses]
    BY <2>3
  <2>5. ListOf(ch) \in Lists
    BY <2>4 DEF Lists
  <2>6. \A p : Status(p) = "none"
    BY <2>1 DEF Status
  <2>7. QED
    BY <2>4, <2>5, <2>6
<1>5. QED
  BY <1>2, <1>3, <1>4

\* ReadPolicies keeps PolicyInv.
LEMMA ReadPoliciesKeeps ==
    ASSUME PolicyInv, NEW t \in Threads, ReadPolicies(t)
    PROVE  PolicyInv'
<1>1. th[t].pc = "list" /\ UNCHANGED <<files, np, pod, chains, inst, late, crossed>>
  BY DEF ReadPolicies, kernel
<1>2. /\ StoreInv /\ inst = "no" /\ (th[t].boot => t = Ctl) /\ th[t] \in PolicyThreads /\ th[t].chain \in {"EW", "OBS", "ENF"}
      /\ chains \in ChainsType /\ (th[t].clean => Inserting(t))
  BY <1>1, ListFacts
<1>3. PICK todo : todo = ListOf(th[t].chain)
  OBVIOUS
<1>4. /\ todo \in Lists
      /\ \A p \in DOMAIN todo : p \in Ids /\ Chain(p) = th[t].chain /\ Status(p) # "none" /\ todo[p] = Status(p)
      /\ \A p \in Ids : Chain(p) = th[t].chain /\ p \notin DOMAIN todo => Status(p) = "none"
  BY <1>1, <1>2, <1>3, ListOfFacts
<1>5. PICK x : x = [th[t] EXCEPT !.pc = "each", !.todo = todo]
  OBVIOUS
<1>6. /\ x \in PolicyThreads /\ x.pc = "each" /\ x.todo = todo /\ x.chain = th[t].chain /\ x.clean = th[t].clean /\ x.boot = th[t].boot
  BY <1>2, <1>4, <1>5 DEF PolicyThreads, PolicyPcs
<1>7. th' = [th EXCEPT ![t] = x]
  BY <1>2, <1>3, <1>5 DEF ReadPolicies, StoreInv
<1>8. Moved(t) /\ th'[t] = x
  BY <1>2, <1>6, <1>7, SetMoves
<1>9. StoreInv'
  <2>1. ThreadOK(t, th'[t], crossed)
    BY <1>2, <1>6, <1>8 DEF ThreadOK, CopyPcs
  <2>2. MarksOf(th'[t])
    BY <1>4, <1>6, <1>8 DEF MarksOf
  <2>3. QED
    BY <1>1, <1>2, <1>6, <1>8, <2>1, <2>2, ListMoveKeeps DEF RevertPcs
<1>10. CASE ~th[t].clean
  BY <1>1, <1>2, <1>6, <1>8, <1>9, <1>10, CommitEndKeeps DEF CommitPcs
<1>11. CASE th[t].clean
  <2>1. Inserting(t)
    BY <1>2, <1>11
  <2>2. /\ (Skeleton' <=> Skeleton) /\ (Enforcing' <=> Enforcing) /\ \A p : Ruled(p)' <=> Ruled(p)
    BY <1>1, SameChains
  <2>3. Content' = Content /\ \A p : Status(p)' = Status(p)
    BY <1>1 DEF Content, Status
  <2>4. \A p : Handled(t, p) => Handled(t, p)'
    <3>1. \A p : Handled(t, p) => Before(Chain(p), th[t].chain) /\ Chain(p) # th[t].chain
      BY <1>1, <1>2 DEF Handled, Listed, Before
    <3>2. QED
      BY <1>6, <1>8, <3>1 DEF Handled, Listed
  <2>5. \A p \in Ids : Handled(t, p)' => Handled(t, p) \/ Status(p) = "none"
    <3>1. ASSUME NEW p \in Ids, Handled(t, p)' PROVE Handled(t, p) \/ Status(p) = "none"
      <4>1. CASE Chain(p) = th[t].chain
        BY <1>4, <1>6, <1>8, <3>1, <4>1 DEF Handled
      <4>2. CASE Chain(p) # th[t].chain
        BY <1>6, <1>8, <3>1, <4>2 DEF Handled, Listed
      <4>3. QED
        BY <4>1, <4>2
    <3>2. QED
      BY <3>1
  <2>6. Inserting(t)'
    <3>1. Skeleton' /\ (Content' \in Stores => ModeShown(Content', Enforcing'))
      BY <2>1, <2>2, <2>3 DEF Inserting, ModeShown
    <3>2. \A p \in Ids : Status(p)' = "applied" /\ Handled(t, p)' => Ruled(p)'
      BY <2>1, <2>2, <2>3, <2>5 DEF Inserting
    <3>3. \A p \in Policies : Ruled(p)' => Handled(t, p)' /\ Status(p)' \in {"applied", "remove"}
      BY <1>1, <2>1, <2>2, <2>3, <2>4 DEF Inserting
    <3>4. \A p \in DOMAIN th'[t].todo : Chain(p) = th'[t].chain /\ (p \in Policies => Status(p)' # "none")
      BY <1>4, <1>6, <1>8, <2>3
    <3>5. QED
      BY <1>6, <1>8, <3>1, <3>2, <3>3, <3>4 DEF Inserting
  <2>7. Undisturbed(t)'
    BY <1>1, <1>6, <1>8, <2>6, StillAlone DEF Undisturbed, CommitPcs
  <2>8. QED
    BY <1>1, <1>2, <1>8, <1>9, <2>7, CommitStepKeeps DEF CommitPcs
<1>12. QED
  BY <1>10, <1>11

NextOf(ch) == IF ch = "EW" THEN "OBS" ELSE "ENF"
\* The end of a list
LEMMA NextChainMoves ==
    ASSUME PolicyInv, NEW t \in Threads, th[t].pc = "each", NEW failed \in BOOLEAN, NextChain(t, failed)
    PROVE  /\ Moved(t) /\ (th'[t].boot => th[t].boot) /\ ThreadOK(t, th'[t], crossed) /\ MarksOf(th'[t])
           /\ th'[t].pc \in {"list", "setnp", "idle", "open"}
           /\ failed => ~th'[t].clean \/ th'[t].pc \notin CommitPcs
           /\ th[t].chain # "ENF" => th'[t].pc = "list" /\ th'[t].chain = NextOf(th[t].chain) /\ th'[t].clean = (th[t].clean /\ ~failed)
           /\ th[t].chain = "ENF" => th'[t].pc # "list"
           /\ th'[t].pc = "open" => th'[t].clean = (th[t].clean /\ ~failed)
           /\ ~failed => th'[t].pc # "setnp"
<1>1. StoreInv /\ (th[t].boot => t = Ctl) /\ th[t] \in PolicyThreads /\ th[t].chain \in {"EW", "OBS", "ENF"}
  BY ListFacts
<1>2. << >> \in Lists
  BY IdleFacts DEF PolicyThreads, Idle
<1>3. CASE th[t].chain # "ENF"
  <2>0. PICK clean \in BOOLEAN : clean <=> (th[t].clean /\ ~failed)
    <3>1. CASE th[t].clean /\ ~failed
      BY <3>1
    <3>2. CASE ~(th[t].clean /\ ~failed)
      BY <3>2
    <3>3. QED
      BY <3>1, <3>2
  <2>1. PICK x : x = [th[t] EXCEPT !.pc = "list", !.todo = << >>, !.clean = clean, !.chain = NextOf(th[t].chain)]
    OBVIOUS
  <2>2. NextOf(th[t].chain) \in {"EW", "OBS", "ENF"}
    BY DEF NextOf
  <2>3. /\ x \in PolicyThreads /\ x.pc = "list" /\ x.clean = (th[t].clean /\ ~failed) /\ x.chain = NextOf(th[t].chain)
        /\ x.boot = th[t].boot
    <3>1. x \in PolicyThreads
      <4>1. PICK y : y = [th[t] EXCEPT !.pc = "list", !.todo = << >>, !.chain = NextOf(th[t].chain)]
        OBVIOUS
      <4>2. y \in PolicyThreads
        BY <1>1, <1>2, <2>2, <4>1 DEF PolicyThreads, PolicyPcs
      <4>3. x = [y EXCEPT !.clean = clean]
        BY <1>1, <2>1, <4>1 DEF PolicyThreads
      <4>4. QED
        BY <4>2, <4>3 DEF PolicyThreads
    <3>2. x.pc = "list" /\ x.clean = clean /\ x.chain = NextOf(th[t].chain) /\ x.boot = th[t].boot
      BY <1>1, <2>1 DEF PolicyThreads
    <3>3. QED
      BY <2>0, <3>1, <3>2
  <2>4. th' = [th EXCEPT ![t] = x]
    BY <1>1, <1>3, <2>0, <2>1 DEF NextChain, NextOf, StoreInv
  <2>5. Moved(t) /\ th'[t] = x
    BY <1>1, <2>3, <2>4, SetMoves
  <2>6. ThreadOK(t, th'[t], crossed) /\ MarksOf(th'[t])
    BY <1>1, <2>3, <2>5 DEF ThreadOK, MarksOf, CopyPcs
  <2>7. QED
    BY <1>3, <2>3, <2>5, <2>6
<1>4. CASE th[t].chain = "ENF" /\ failed
  <2>1. Abort(t)
    BY <1>4 DEF NextChain
  <2>2. Moved(t) /\ th'[t].boot = th[t].boot /\ th'[t].pc = IF th[t].boot THEN "setnp" ELSE "idle"
    BY <1>1, <2>1, AbortMoves
  <2>3. ThreadOK(t, th'[t], crossed) /\ MarksOf(th'[t])
    BY <1>1, <2>2 DEF ThreadOK, MarksOf, CopyPcs
  <2>4. QED
    BY <1>4, <2>2, <2>3 DEF CommitPcs
<1>5. CASE th[t].chain = "ENF" /\ ~failed /\ th[t].boot
  <2>1. Finish(t)
    BY <1>5 DEF NextChain
  <2>2. Moved(t) /\ th'[t].pc = "idle" /\ ~th'[t].boot
    BY <1>1, <2>1, FinishMoves
  <2>3. ThreadOK(t, th'[t], crossed) /\ MarksOf(th'[t])
    BY <1>1, <2>2 DEF ThreadOK, MarksOf, CopyPcs
  <2>4. QED
    BY <1>5, <2>2, <2>3 DEF CommitPcs
<1>6. CASE th[t].chain = "ENF" /\ ~failed /\ ~th[t].boot
  <2>1. PICK x : x = [th[t] EXCEPT !.pc = "open", !.todo = << >>, !.clean = (th[t].clean /\ ~failed)]
    OBVIOUS
  <2>3. x \in PolicyThreads /\ x.pc = "open" /\ x.clean = (th[t].clean /\ ~failed) /\ x.boot = th[t].boot
    BY <1>1, <1>2, <2>1 DEF PolicyThreads, PolicyPcs
  <2>4. th' = [th EXCEPT ![t] = x]
    BY <1>1, <1>6, <2>1 DEF NextChain, StoreInv
  <2>5. Moved(t) /\ th'[t] = x
    BY <1>1, <2>3, <2>4, SetMoves
  <2>6. ThreadOK(t, th'[t], crossed) /\ MarksOf(th'[t])
    BY <1>1, <1>6, <2>3, <2>5 DEF ThreadOK, MarksOf, CopyPcs
  <2>7. QED
    BY <1>6, <2>3, <2>5, <2>6
<1>7. QED
  BY <1>3, <1>4, <1>5, <1>6

\* ChainDone keeps PolicyInv.
LEMMA ChainDoneKeeps ==
    ASSUME PolicyInv, NEW t \in Threads, ChainDone(t)
    PROVE  PolicyInv'
<1>1. /\ th[t].pc = "each" /\ DOMAIN th[t].todo = {} /\ NextChain(t, FALSE)
      /\ inst' = (IF th[t].chain = "ENF" /\ th[t].clean THEN "built" ELSE inst)
      /\ UNCHANGED <<files, np, pod, chains, late, crossed>>
  BY DEF ChainDone
<1>2. /\ StoreInv /\ inst = "no" /\ (th[t].boot => t = Ctl) /\ th[t] \in PolicyThreads /\ th[t].chain \in {"EW", "OBS", "ENF"}
      /\ chains \in ChainsType /\ (th[t].clean => Inserting(t))
  BY <1>1, ListFacts
<1>3. /\ Moved(t) /\ (th'[t].boot => th[t].boot) /\ ThreadOK(t, th'[t], crossed) /\ MarksOf(th'[t])
      /\ th'[t].pc \in {"list", "idle", "open"}
      /\ th[t].chain # "ENF" => th'[t].pc = "list" /\ th'[t].chain = NextOf(th[t].chain) /\ th'[t].clean = th[t].clean
      /\ th[t].chain = "ENF" => th'[t].pc # "list"
      /\ th'[t].pc = "open" => th'[t].clean = th[t].clean
  BY <1>1, <1>2, NextChainMoves DEF PolicyThreads
<1>4. inst' \in {"no", "built"} /\ (inst' = "built" => th[t].chain = "ENF" /\ th[t].clean)
  BY <1>1, <1>2
<1>5. StoreInv'
  BY <1>1, <1>2, <1>3, <1>4, ListMoveKeeps DEF RevertPcs
<1>6. /\ (Skeleton' <=> Skeleton) /\ (Enforcing' <=> Enforcing) /\ \A p : Ruled(p)' <=> Ruled(p)
  BY <1>1, SameChains
<1>7. Content' = Content /\ \A p : Status(p)' = Status(p)
  BY <1>1 DEF Content, Status
<1>8. CASE th[t].chain # "ENF"
  <2>1. inst' = "no" /\ th'[t].pc = "list" /\ th'[t].chain = NextOf(th[t].chain) /\ th'[t].clean = th[t].clean
    BY <1>2, <1>3, <1>4, <1>8
  <2>2. CASE ~th[t].clean
    BY <1>1, <1>3, <1>5, <2>1, <2>2, CommitEndKeeps DEF CommitPcs
  <2>3. CASE th[t].clean
    <3>1. \A p \in Ids : Handled(t, p)' <=> Handled(t, p)
      BY <1>1, <1>2, <1>8, <2>1, ChainFacts DEF Handled, Listed, Before, NextOf
    <3>2. Inserting(t)
      BY <1>2, <2>3
    <3>3. Inserting(t)'
      <4>1. Skeleton' /\ (Content' \in Stores => ModeShown(Content', Enforcing'))
        BY <1>6, <1>7, <3>2 DEF Inserting, ModeShown
      <4>2. \A p \in Ids : Status(p)' = "applied" /\ Handled(t, p)' => Ruled(p)'
        BY <1>6, <1>7, <3>1, <3>2 DEF Inserting
      <4>3. \A p \in Policies : Ruled(p)' => Handled(t, p)' /\ Status(p)' \in {"applied", "remove"}
        BY <1>1, <1>6, <1>7, <3>1, <3>2 DEF Inserting, Ids
      <4>4. QED
        BY <2>1, <4>1, <4>2, <4>3 DEF Inserting
    <3>4. Undisturbed(t)'
      BY <1>1, <1>3, <2>1, <3>3, StillAlone DEF Undisturbed, CommitPcs
    <3>5. QED
      BY <1>1, <1>3, <1>5, <2>1, <3>4, CommitStepKeeps DEF CommitPcs
  <2>4. QED
    BY <2>2, <2>3
<1>9. CASE th[t].chain = "ENF"
  <2>1. th'[t].pc \in {"idle", "open"}
    BY <1>3, <1>9
  <2>2. ThreadChains(t)'
    <3>1. Undisturbed(t)'
      <4>1. CASE th'[t].pc = "idle"
        BY <4>1 DEF Undisturbed, CommitPcs
      <4>2. CASE th'[t].pc = "open"
        BY <1>1, <1>3, <4>2, StillAlone DEF Undisturbed, CommitPcs
      <4>3. QED
        BY <2>1, <4>1, <4>2
    <3>2. QED
      BY <1>4, <2>1, <3>1 DEF ThreadChains, CopyPcs
  <2>3. \A u \in Threads \ {t} : ThreadChains(u)'
    <3>1. th[t].pc \in WorkPcs /\ th[t].pc \in CommitPcs
      BY <1>1 DEF WorkPcs, CommitPcs
    <3>2. (chains' = chains /\ inst' \in {inst, "no"}) \/ inst' = "no" \/ (th[t].pc \in CommitPcs /\ th[t].clean)
      BY <1>4, <3>1
    <3>3. QED
      BY <1>3, <3>1, <3>2, CommitOthers
  <2>4. Installed'
    <3>1. SUFFICES ASSUME inst' = "built" PROVE Installed'
      BY <1>4 DEF Installed
    <3>2. Inserting(t)
      BY <1>2, <1>4, <3>1
    <3>3. \A p \in Ids : Handled(t, p)
      BY <1>1, <1>9, ChainFacts DEF Handled, Listed, Before
    <3>4. Skeleton'
      BY <1>6, <3>2 DEF Inserting
    <3>5. ASSUME Content' \in Stores PROVE Shown(Content)'
      <4>1. \A p \in Ids : Status(p) = Content'.pol[p]
        BY <1>7, <3>5 DEF Status
      <4>2. ModeShown(Content', Enforcing')
        BY <1>6, <1>7, <3>2, <3>5 DEF Inserting, ModeShown
      <4>3. \A p \in Ids : Content'.pol[p] = "applied" => Ruled(p)'
        BY <1>6, <3>2, <3>3, <4>1 DEF Inserting
      <4>4. \A p \in Policies : Ruled(p)' => Content'.pol[p] \in {"applied", "remove"}
        BY <1>1, <1>6, <3>2, <4>1 DEF Inserting, Ids
      <4>5. QED
        BY <4>2, <4>3, <4>4 DEF Shown
    <3>6. Content' # Absent
      BY <1>1, <1>4, <1>7, <3>1 DEF PolicyInv, ThreadChains, Undisturbed, CommitPcs
    <3>7. QED
      BY <3>1, <3>4, <3>5, <3>6 DEF Installed
  <2>5. QED
    BY <1>5, <2>2, <2>3, <2>4 DEF PolicyInv
<1>10. QED
  BY <1>8, <1>9

\* Taking a policy from a list keeps the others.
LEMMA WithoutFacts ==
    ASSUME NEW f \in Lists, NEW p \in DOMAIN f
    PROVE  /\ Without(f, p) \in Lists /\ DOMAIN Without(f, p) = DOMAIN f \ {p} /\ p \in Ids
           /\ \A q \in DOMAIN f \ {p} : Without(f, p)[q] = f[q]
<1>1. PICK S \in SUBSET Ids : f \in [S -> Statuses]
  BY DEF Lists
<1>2. Without(f, p) = [q \in S \ {p} |-> f[q]]
  BY <1>1 DEF Without
<1>3. Without(f, p) \in [S \ {p} -> Statuses] /\ S \ {p} \in SUBSET Ids /\ DOMAIN f = S
  BY <1>1, <1>2
<1>4. Without(f, p) \in Lists
  BY <1>3 DEF Lists
<1>5. QED
  BY <1>1, <1>2, <1>3, <1>4

\* Taken from the list, a policy is handled; the others are as they were.
LEMMA TakenHandled ==
    ASSUME NEW t \in Threads, th[t].pc = "each", th'[t].pc \in {"each", "mark"}, th'[t].chain = th[t].chain,
           NEW p \in DOMAIN th[t].todo, DOMAIN th'[t].todo = DOMAIN th[t].todo \ {p}, Chain(p) = th[t].chain
    PROVE  \A q : Handled(t, q)' <=> Handled(t, q) \/ q = p
BY DEF Handled, Listed

\* DropOrUnresolve keeps PolicyInv.
LEMMA DropOrUnresolveKeeps ==
    ASSUME PolicyInv, NEW t \in Threads, NEW p, DropOrUnresolve(t, p)
    PROVE  PolicyInv'
<1>1. th[t].pc = "each" /\ p \in DOMAIN th[t].todo /\ UNCHANGED <<np, pod, chains, late>>
  BY DEF DropOrUnresolve
<1>2. /\ StoreInv /\ inst = "no" /\ (th[t].boot => t = Ctl) /\ th[t] \in PolicyThreads /\ th[t].chain \in {"EW", "OBS", "ENF"}
      /\ chains \in ChainsType /\ (th[t].clean => Inserting(t))
      /\ (Readable(Content) /\ Content # Absent => Content \in Stores /\ Load(Content) = Content)
  BY <1>1, ListFacts
<1>3. PICK todo \in Lists : todo = th[t].todo
  BY <1>2 DEF PolicyThreads
<1>4. p \in Ids /\ Without(todo, p) \in Lists /\ DOMAIN Without(todo, p) = DOMAIN todo \ {p}
      /\ \A q \in DOMAIN todo \ {p} : Without(todo, p)[q] = todo[q]
  BY <1>1, <1>3, WithoutFacts
<1>5. PICK c \in Seen : /\ Overtaken(c) /\ (RemovePolicy(c, p) \/ UpdateStatus(c, p, "unresolved"))
                        /\ IF Found(c, p) THEN th' = [th EXCEPT ![t].todo = Without(@, p)] ELSE NextChain(t, TRUE)
  BY DEF DropOrUnresolve
<1>6. /\ \/ c = Content /\ Content # Absent /\ inst' = inst /\ crossed' = crossed
         \/ (Reverting \/ Content = Absent) /\ inst' = "no" /\ crossed' = TRUE
      /\ c \in Files /\ late' \subseteq Policies
  BY <1>1, <1>2, <1>5, SeenFacts DEF StoreInv, PolicyTypeOK
<1>7. CASE ~Found(c, p)
  <2>1. files' = files /\ files' \in [Names -> Stores \cup {Broken, Absent}]
    BY <1>2, <1>5, <1>7 DEF RemovePolicy, UpdateStatus, StoreInv, PolicyTypeOK
  <2>2. NextChain(t, TRUE)
    BY <1>5, <1>7
  <2>3. /\ Moved(t) /\ (th'[t].boot => th[t].boot) /\ ThreadOK(t, th'[t], crossed) /\ MarksOf(th'[t])
        /\ th'[t].pc \in {"list", "setnp", "idle", "open"} /\ (~th'[t].clean \/ th'[t].pc \notin CommitPcs)
    BY <1>1, <2>2, NextChainMoves
  <2>4. CASE inst' = inst /\ crossed' = crossed
    <3>1. StoreInv'
      BY <1>1, <1>2, <2>1, <2>3, <2>4, ListMoveKeeps DEF RevertPcs
    <3>2. QED
      BY <1>1, <1>2, <2>3, <2>4, <3>1, CommitEndKeeps DEF CommitPcs
  <2>5. CASE (Reverting \/ Content = Absent) /\ inst' = "no" /\ crossed' = TRUE
    <3>1. ThreadOK(t, th'[t], TRUE)
      BY <2>3 DEF ThreadOK, CopyPcs
    <3>2. QED
      BY <1>1, <1>6, <2>1, <2>3, <2>5, <3>1, OvertakenKeeps
  <2>6. QED
    BY <1>6, <2>4, <2>5
<1>8. CASE Found(c, p)
  <2>1. Readable(c) /\ Load(c) \in Stores /\ Load(c).pol[p] # "none"
    BY <1>6, <1>8, LoadFacts DEF Found
  <2>2. PICK st \in {"none", "unresolved"} : Save(WithStatus(Load(c), p, st))
    BY <1>5, <1>8 DEF RemovePolicy, UpdateStatus
  <2>3. PICK s : s = WithStatus(Load(c), p, st)
    OBVIOUS
  <2>4. st \in Statuses
    BY DEF Statuses
  <2>5. s \in Stores /\ s.mode = Load(c).mode /\ \A q \in Ids : s.pol[q] = IF q = p THEN st ELSE Load(c).pol[q]
    BY <1>4, <2>1, <2>3, <2>4, WithStatusFacts
  <2>6. PICK x : x = [th[t] EXCEPT !.todo = Without(todo, p)]
    OBVIOUS
  <2>7. /\ x \in PolicyThreads /\ x.pc = "each" /\ x.todo = Without(todo, p) /\ x.chain = th[t].chain
        /\ x.clean = th[t].clean /\ x.boot = th[t].boot
    BY <1>1, <1>2, <1>4, <2>6 DEF PolicyThreads
  <2>8. th' = [th EXCEPT ![t] = x]
    BY <1>2, <1>3, <1>5, <1>8, <2>6 DEF StoreInv
  <2>9. Moved(t) /\ th'[t] = x
    BY <1>2, <2>7, <2>8, SetMoves
  <2>10. \A m : ThreadOK(t, th'[t], m)
    BY <1>2, <2>7, <2>9 DEF ThreadOK, CopyPcs
  <2>11. Save(s)
    BY <2>2, <2>3
  <2>12. CASE c = Content /\ Content # Absent /\ inst' = inst /\ crossed' = crossed
    <3>1. Content \in Stores /\ Load(c) = Content
      BY <1>2, <2>1, <2>12
    <3>2. StoreInv' /\ Content' = s
      <4>1. ThreadOK(t, th'[t], crossed)
        BY <2>10
      <4>2. MarksOf(th'[t])
        BY <1>1, <1>2, <1>3, <1>4, <2>7, <2>9 DEF MarksOf, StoreInv, MarksHeld
      <4>3. \A q \in Policies : s.pol[q] = "remove" => Status(q) = "remove"
        BY <2>5, <3>1 DEF Status, Ids
      <4>4. QED
        BY <1>1, <2>5, <2>7, <2>9, <2>11, <2>12, <4>1, <4>2, <4>3, ListSaveKeeps DEF RevertPcs
    <3>3. CASE ~th[t].clean
      BY <1>1, <1>2, <2>7, <2>9, <2>12, <3>2, <3>3, CommitEndKeeps DEF CommitPcs
    <3>4. CASE th[t].clean
      <4>1. Inserting(t)
        BY <1>2, <3>4
      <4>2. Chain(p) = th[t].chain /\ ~Handled(t, p)
        BY <1>1, <4>1 DEF Inserting, Handled
      <4>3. p \in Policies => ~Ruled(p)
        BY <4>1, <4>2 DEF Inserting
      <4>4. \A q : Handled(t, q)' <=> Handled(t, q) \/ q = p
        BY <1>1, <1>3, <1>4, <2>7, <2>9, <4>2, TakenHandled
      <4>5. /\ (Skeleton' <=> Skeleton) /\ (Enforcing' <=> Enforcing) /\ \A q : Ruled(q)' <=> Ruled(q)
        BY <1>1, SameChains
      <4>6. \A q \in Ids : Status(q)' = IF q = p THEN st ELSE Status(q)
        BY <2>5, <3>1, <3>2 DEF Status
      <4>7. Inserting(t)'
        <5>1. Skeleton' /\ (Content' \in Stores => ModeShown(Content', Enforcing'))
          BY <2>5, <3>1, <3>2, <4>1, <4>5 DEF Inserting, ModeShown
        <5>2. \A q \in Ids : Status(q)' = "applied" /\ Handled(t, q)' => Ruled(q)'
          BY <4>1, <4>4, <4>5, <4>6 DEF Inserting
        <5>3. \A q \in Policies : Ruled(q)' => Handled(t, q)' /\ Status(q)' \in {"applied", "remove"}
          BY <1>1, <4>1, <4>3, <4>4, <4>5, <4>6 DEF Inserting, Ids
        <5>4. \A q \in DOMAIN th'[t].todo : Chain(q) = th'[t].chain /\ (q \in Policies => Status(q)' # "none")
          BY <1>1, <1>3, <1>4, <2>7, <2>9, <4>1, <4>6 DEF Inserting, Ids
        <5>5. QED
          BY <2>7, <2>9, <5>1, <5>2, <5>3, <5>4 DEF Inserting
      <4>8. Undisturbed(t)'
        BY <1>1, <2>5, <2>7, <2>9, <3>2, <4>7, StillAlone DEF Undisturbed, CommitPcs
      <4>9. QED
        BY <1>1, <1>2, <2>9, <2>12, <3>2, <4>8, CommitStepKeeps DEF CommitPcs
    <3>5. QED
      BY <3>3, <3>4
  <2>13. CASE (Reverting \/ Content = Absent) /\ inst' = "no" /\ crossed' = TRUE
    <3>1. ThreadOK(t, th'[t], TRUE) /\ files' \in [Names -> Stores \cup {Broken, Absent}]
      BY <1>2, <2>5, <2>10, <2>11, SavedTyped
    <3>2. QED
      BY <1>1, <1>6, <2>7, <2>9, <2>13, <3>1, OvertakenKeeps
  <2>14. QED
    BY <1>6, <2>12, <2>13
<1>9. QED
  BY <1>7, <1>8

\* MarkApplied keeps PolicyInv.
LEMMA MarkAppliedKeeps ==
    ASSUME PolicyInv, NEW t \in Threads, MarkApplied(t)
    PROVE  PolicyInv'
<1>1. /\ th[t].pc = "mark" /\ UNCHANGED <<np, pod, chains, late>>
      /\ th' = [th EXCEPT ![t].pc = "each", ![t].cur = 0]
  BY DEF MarkApplied
<1>2. /\ StoreInv /\ inst = "no" /\ (th[t].boot => t = Ctl) /\ th[t] \in PolicyThreads /\ th[t].chain \in {"EW", "OBS", "ENF"}
      /\ chains \in ChainsType /\ (th[t].clean => Inserting(t))
      /\ (Readable(Content) /\ Content # Absent => Content \in Stores /\ Load(Content) = Content)
  BY <1>1, ListFacts
<1>3. PICK p \in Ids : p = th[t].cur
  BY <1>1, <1>2 DEF StoreInv, ThreadsOK, ThreadOK
<1>4. PICK x : x = [th[t] EXCEPT !.pc = "each", !.cur = 0]
  OBVIOUS
<1>5. /\ x \in PolicyThreads /\ x.pc = "each" /\ x.todo = th[t].todo /\ x.chain = th[t].chain
      /\ x.clean = th[t].clean /\ x.boot = th[t].boot
  BY <1>2, <1>4 DEF PolicyThreads, PolicyPcs
<1>6. th' = [th EXCEPT ![t] = x]
  BY <1>1, <1>2, <1>4 DEF StoreInv
<1>7. Moved(t) /\ th'[t] = x
  BY <1>2, <1>5, <1>6, SetMoves
<1>8. \A m : ThreadOK(t, th'[t], m)
  BY <1>2, <1>5, <1>7 DEF ThreadOK, CopyPcs
<1>9. MarksOf(th'[t])
  BY <1>1, <1>2, <1>5, <1>7 DEF MarksOf, StoreInv, MarksHeld
<1>10. PICK c \in Seen : UpdateStatus(c, p, "applied") /\ Overtaken(c)
  BY <1>3 DEF MarkApplied
<1>11. /\ \/ c = Content /\ Content # Absent /\ inst' = inst /\ crossed' = crossed
          \/ (Reverting \/ Content = Absent) /\ inst' = "no" /\ crossed' = TRUE
       /\ c \in Files /\ late' \subseteq Policies
  BY <1>1, <1>2, <1>10, SeenFacts DEF StoreInv, PolicyTypeOK
<1>12. PICK s : s = WithStatus(Load(c), p, "applied")
  OBVIOUS
<1>13. Found(c, p) => /\ s \in Stores /\ s.mode = Load(c).mode /\ Load(c).pol[p] # "none" /\ Readable(c)
                      /\ \A q \in Ids : s.pol[q] = IF q = p THEN "applied" ELSE Load(c).pol[q]
  <2>1. "applied" \in Statuses
    BY DEF Statuses
  <2>2. Found(c, p) => Readable(c) /\ Load(c) \in Stores /\ Load(c).pol[p] # "none"
    BY <1>11, LoadFacts DEF Found
  <2>3. QED
    BY <1>12, <2>1, <2>2, WithStatusFacts
<1>14. (Found(c, p) => Save(s)) /\ (~Found(c, p) => files' = files)
  BY <1>10, <1>12 DEF UpdateStatus
<1>15. CASE (Reverting \/ Content = Absent) /\ inst' = "no" /\ crossed' = TRUE
  <2>1. files' \in [Names -> Stores \cup {Broken, Absent}]
    <3>1. CASE Found(c, p)
      BY <1>2, <1>13, <1>14, <3>1, SavedTyped
    <3>2. CASE ~Found(c, p)
      BY <1>2, <1>14, <3>2 DEF StoreInv, PolicyTypeOK
    <3>3. QED
      BY <3>1, <3>2
  <2>2. ThreadOK(t, th'[t], TRUE)
    BY <1>8
  <2>3. QED
    BY <1>1, <1>5, <1>7, <1>11, <1>15, <2>1, <2>2, OvertakenKeeps DEF CommitPcs
<1>16. CASE c = Content /\ Content # Absent /\ inst' = inst /\ crossed' = crossed
  <2>1. StoreInv' /\ (Content' \in Stores => Content \in Stores /\ Content'.mode = Content.mode)
        /\ (Content' = Content \/ Content' \in Stores)
        /\ \A q \in Ids : Status(q)' = IF q = p /\ Status(p) # "none" THEN "applied" ELSE Status(q)
    <3>1. ThreadOK(t, th'[t], crossed)
      BY <1>8
    <3>2. CASE ~Found(c, p)
      <4>1. files' = files
        BY <1>14, <3>2
      <4>2. Status(p) = "none"
        <5>1. Content \in Stores => Readable(Content)
          BY FileFacts DEF Readable
        <5>2. QED
          BY <1>2, <1>16, <3>2, <5>1 DEF Found, Status
      <4>3. StoreInv'
        BY <1>1, <1>2, <1>5, <1>7, <1>9, <1>16, <3>1, <4>1, ListMoveKeeps DEF RevertPcs
      <4>4. QED
        BY <4>1, <4>2, <4>3 DEF Content, Status
    <3>3. CASE Found(c, p)
      <4>1. Content \in Stores /\ Load(c) = Content /\ Content.pol[p] # "none" /\ s \in Stores /\ Save(s)
        BY <1>2, <1>13, <1>14, <1>16, <3>3
      <4>2. s.mode = Content.mode /\ \A q \in Ids : s.pol[q] = IF q = p THEN "applied" ELSE Content.pol[q]
        BY <1>13, <3>3, <4>1
      <4>3. \A q \in Policies : s.pol[q] = "remove" => Status(q) = "remove"
        BY <4>1, <4>2 DEF Status, Ids
      <4>4. StoreInv' /\ Content' = s
        BY <1>1, <1>5, <1>7, <1>9, <1>16, <3>1, <4>1, <4>3, ListSaveKeeps DEF RevertPcs
      <4>5. QED
        BY <4>1, <4>2, <4>4 DEF Status
    <3>4. QED
      BY <3>2, <3>3
  <2>2. CASE ~th[t].clean
    BY <1>1, <1>2, <1>5, <1>7, <1>16, <2>1, <2>2, CommitEndKeeps DEF CommitPcs
  <2>3. CASE th[t].clean
    <3>1. Inserting(t)
      BY <1>2, <2>3
    <3>2. /\ (Skeleton' <=> Skeleton) /\ (Enforcing' <=> Enforcing) /\ \A q : Ruled(q)' <=> Ruled(q)
      BY <1>1, SameChains
    <3>3. \A q : Handled(t, q)' <=> Handled(t, q)
      BY <1>1, <1>5, <1>7 DEF Handled, Listed
    <3>4. Ruled(p)
      BY <1>1, <1>3, <3>1 DEF Inserting
    <3>5. Inserting(t)'
      <4>1. Skeleton' /\ (Content' \in Stores => ModeShown(Content', Enforcing'))
        BY <2>1, <3>1, <3>2 DEF Inserting, ModeShown
      <4>2. \A q \in Ids : Status(q)' = "applied" /\ Handled(t, q)' => Ruled(q)'
        BY <2>1, <3>1, <3>2, <3>3, <3>4 DEF Inserting
      <4>3. \A q \in Policies : Ruled(q)' => Handled(t, q)' /\ Status(q)' \in {"applied", "remove"}
        BY <1>1, <1>3, <2>1, <3>1, <3>2, <3>3 DEF Inserting, Ids
      <4>4. \A q \in DOMAIN th'[t].todo : Chain(q) = th'[t].chain /\ (q \in Policies => Status(q)' # "none")
        BY <1>1, <1>5, <1>7, <2>1, <3>1 DEF Inserting, Ids
      <4>5. QED
        BY <1>5, <1>7, <4>1, <4>2, <4>3, <4>4 DEF Inserting
    <3>6. Undisturbed(t)'
      BY <1>1, <1>5, <1>7, <2>1, <3>5, StillAlone DEF Undisturbed, CommitPcs
    <3>7. QED
      BY <1>1, <1>2, <1>7, <1>16, <2>1, <3>6, CommitStepKeeps DEF CommitPcs
  <2>4. QED
    BY <2>2, <2>3
<1>17. QED
  BY <1>11, <1>15, <1>16

\* A rule in front of a chain leaves what the chain ends with.
LEMMA RuleInserted ==
    ASSUME chains \in ChainsType, NEW p \in Ids, chains' = Ran(chains, Cmd("I", Chain(p), Rule(p)))
    PROVE  /\ (Skeleton => Skeleton') /\ (Enforcing' <=> Enforcing) /\ Ruled(p)'
           /\ \A q \in Ids : Ruled(q) => Ruled(q)'
           /\ \A q \in Policies : Ruled(q)' => Ruled(q) \/ q = p
<1>1. PICK ch \in {"EW", "OBS", "ENF"} : ch = Chain(p)
  BY ChainFacts
<1>2. PICK tok \in FixedRows \cup Policies : tok = Rule(p)
  BY ChainFacts
<1>3. tok \notin {"DROP", "ACC", "RET", ""} /\ ch \in Chains
  BY <1>2, ChainFacts DEF Chains
<1>4. chains'[ch] = Row(chains[ch], Cmd("I", ch, tok)) /\ Only(ch, chains, chains')
  BY <1>1, <1>2, <1>3, RanInsert
<1>5. PICK row \in Seq(FixedRows \cup Policies) : row = chains[ch]
  BY <1>3 DEF ChainsType
<1>6. \A x : Contains(chains'[ch], x) <=> Contains(chains[ch], x) \/ x = tok
  BY <1>4, <1>5, RowFacts
<1>7. \A c \in Chains : c # ch => chains'[c] = chains[c]
  BY <1>4 DEF Only
<1>8. \A q \in Ids : Chain(q) \in Chains
  BY ChainFacts DEF Chains
<1>9. Ruled(p)'
  BY <1>1, <1>2, <1>6 DEF Ruled
<1>10. \A q \in Ids : Ruled(q) => Ruled(q)'
  BY <1>6, <1>7, <1>8 DEF Ruled
<1>11. ASSUME NEW q \in Policies, Ruled(q)' PROVE Ruled(q) \/ q = p
  <2>1. q \in Ids /\ Rule(q) = q /\ q \notin FixedRows
    BY ChainFacts DEF Ids
  <2>2. tok = q => q = p
    <3>1. tok = p \/ tok = "gen"
      BY <1>2 DEF Rule
    <3>2. "gen" \in FixedRows
      BY DEF FixedRows
    <3>3. QED
      BY <2>1, <3>1, <3>2
  <2>3. QED
    BY <1>6, <1>7, <1>8, <1>11, <2>1, <2>2 DEF Ruled
<1>12. "FORWARD" # ch /\ "ROOT" # ch /\ "FORWARD" \in Chains /\ "ROOT" \in Chains /\ "EW" \in Chains /\ "OBS" \in Chains /\ "ENF" \in Chains
  BY DEF Chains
<1>13. chains'["FORWARD"] = chains["FORWARD"] /\ chains'["ROOT"] = chains["ROOT"]
  BY <1>7, <1>12
<1>14. Enforcing' <=> Enforcing
  BY <1>13 DEF Enforcing
<1>15. ASSUME NEW c \in Chains, NEW v, Ends(c, v) PROVE Ends(c, v)'
  <2>1. CASE chains'[c] = chains[c]
    BY <1>15, <2>1 DEF Ends
  <2>2. CASE chains'[c] # chains[c]
    <3>1. c = ch
      BY <1>7, <2>2
    <3>2. PICK new : new = <<tok>> \o row
      OBVIOUS
    <3>3. chains'[c] = new
      BY <1>4, <1>5, <2>2, <3>1, <3>2 DEF Row, Cmd
    <3>4. Len(new) = Len(row) + 1 /\ new[1] = tok /\ DOMAIN new = 1..(Len(row) + 1) /\ \A i \in 1..Len(row) : new[i + 1] = row[i]
      BY <3>2
    <3>9. PICK n \in Nat : n = Len(row) /\ DOMAIN row = 1..n
      OBVIOUS
    <3>10. PICK d \in DOMAIN row :
              /\ row[d] = v /\ v \in Verdicts
              /\ \A i \in DOMAIN row : IF i < d THEN row[i] \notin Verdicts \cup {""} ELSE row[i] \in Verdicts
      BY <1>5, <1>15, <3>1 DEF Ends, Leads
    <3>5. d \in 1..n
      BY <3>9
    <3>6. d + 1 \in DOMAIN new /\ new[d + 1] = v
      <4>1. d + 1 \in 1..(n + 1)
        BY <3>5
      <4>2. QED
        BY <3>4, <3>5, <3>9, <3>10, <4>1
    <3>7. ASSUME NEW i \in DOMAIN new
          PROVE  IF i < d + 1 THEN new[i] \notin Verdicts \cup {""} ELSE new[i] \in Verdicts
      <4>1. CASE i = 1
        <5>1. i < d + 1
          BY <3>5, <4>1
        <5>2. new[i] \notin Verdicts \cup {""}
          BY <1>3, <3>4, <4>1 DEF Verdicts
        <5>3. QED
          BY <5>1, <5>2
      <4>2. CASE i # 1
        <5>1. i - 1 \in 1..n /\ (i - 1) + 1 = i /\ (i < d + 1 <=> i - 1 < d)
          BY <3>4, <3>5, <3>9, <4>2
        <5>2. new[i] = row[i - 1]
          BY <3>4, <3>9, <5>1
        <5>3. QED
          BY <3>9, <3>10, <5>1, <5>2
      <4>3. QED
        BY <4>1, <4>2
    <3>8. Leads(new, v)
      BY <3>6, <3>7, <3>10 DEF Leads
    <3>11. QED
      BY <3>3, <3>8 DEF Ends
  <2>3. QED
    BY <2>1, <2>2
<1>16. Skeleton => Skeleton'
  BY <1>12, <1>13, <1>14, <1>15 DEF Skeleton
<1>17. QED
  BY <1>9, <1>10, <1>11, <1>14, <1>16

\* InsertPolicy keeps PolicyInv.
LEMMA InsertPolicyKeeps ==
    ASSUME PolicyInv, NEW t \in Threads, NEW p, InsertPolicy(t, p)
    PROVE  PolicyInv'
<1>1. th[t].pc = "each" /\ p \in DOMAIN th[t].todo /\ th[t].todo[p] # "remove" /\ UNCHANGED <<files, np, pod, inst, late, crossed>>
  BY DEF InsertPolicy
<1>2. /\ StoreInv /\ inst = "no" /\ (th[t].boot => t = Ctl) /\ th[t] \in PolicyThreads /\ th[t].chain \in {"EW", "OBS", "ENF"}
      /\ chains \in ChainsType /\ (th[t].clean => Inserting(t))
  BY <1>1, ListFacts
<1>3. PICK todo \in Lists : todo = th[t].todo
  BY <1>2 DEF PolicyThreads
<1>4. p \in Ids /\ Without(todo, p) \in Lists /\ DOMAIN Without(todo, p) = DOMAIN todo \ {p}
      /\ \A q \in DOMAIN todo \ {p} : Without(todo, p)[q] = todo[q]
  BY <1>1, <1>3, WithoutFacts
<1>5. CASE th' = [th EXCEPT ![t].todo = Without(@, p), ![t].clean = FALSE] /\ chains' = chains
  <2>1. PICK x : x = [th[t] EXCEPT !.todo = Without(todo, p), !.clean = FALSE]
    OBVIOUS
  <2>2. x \in PolicyThreads /\ x.pc = "each" /\ x.todo = Without(todo, p) /\ x.clean = FALSE /\ x.boot = th[t].boot
    BY <1>1, <1>2, <1>4, <2>1 DEF PolicyThreads
  <2>3. th' = [th EXCEPT ![t] = x]
    BY <1>2, <1>3, <1>5, <2>1 DEF StoreInv
  <2>4. Moved(t) /\ th'[t] = x
    BY <1>2, <2>2, <2>3, SetMoves
  <2>5. ThreadOK(t, th'[t], crossed)
    BY <1>2, <2>2, <2>4 DEF ThreadOK, CopyPcs
  <2>6. MarksOf(th'[t])
    BY <1>1, <1>2, <1>3, <1>4, <2>2, <2>4 DEF MarksOf, StoreInv, MarksHeld
  <2>7. StoreInv'
    BY <1>1, <1>2, <1>5, <2>2, <2>4, <2>5, <2>6, ListMoveKeeps DEF RevertPcs
  <2>8. QED
    BY <1>1, <1>2, <2>2, <2>4, <2>7, CommitEndKeeps DEF CommitPcs
<1>6. CASE /\ chains' = Ran(chains, Cmd("I", th[t].chain, Rule(p)))
           /\ th' = [th EXCEPT ![t].pc = "mark", ![t].cur = p, ![t].todo = Without(@, p)]
  <2>1. PICK x : x = [th[t] EXCEPT !.pc = "mark", !.cur = p, !.todo = Without(todo, p)]
    OBVIOUS
  <2>2. /\ x \in PolicyThreads /\ x.pc = "mark" /\ x.cur = p /\ x.todo = Without(todo, p) /\ x.chain = th[t].chain
        /\ x.clean = th[t].clean /\ x.boot = th[t].boot
    BY <1>1, <1>2, <1>4, <2>1 DEF PolicyThreads, PolicyPcs
  <2>3. th' = [th EXCEPT ![t] = x]
    BY <1>2, <1>3, <1>6, <2>1 DEF StoreInv
  <2>4. Moved(t) /\ th'[t] = x
    BY <1>2, <2>2, <2>3, SetMoves
  <2>5. ThreadOK(t, th'[t], crossed)
    BY <1>2, <1>4, <2>2, <2>4 DEF ThreadOK, CopyPcs
  <2>6. MarksOf(th'[t])
    BY <1>1, <1>2, <1>3, <1>4, <2>2, <2>4 DEF MarksOf, StoreInv, MarksHeld
  <2>7. chains' \in ChainsType
    <3>1. th[t].chain \in Chains /\ Rule(p) \in FixedRows \cup Policies
      BY <1>2, <1>4, ChainFacts DEF Chains
    <3>2. QED
      BY <1>2, <1>6, <3>1, RanInsert
  <2>8. StoreInv'
    BY <1>1, <1>2, <2>2, <2>4, <2>5, <2>6, <2>7, ListMoveKeeps DEF RevertPcs
  <2>9. CASE ~th[t].clean
    BY <1>1, <1>2, <2>2, <2>4, <2>8, <2>9, CommitEndKeeps DEF CommitPcs
  <2>10. CASE th[t].clean
    <3>1. Inserting(t)
      BY <1>2, <2>10
    <3>2. Chain(p) = th[t].chain /\ (p \in Policies => Status(p) # "none")
      BY <1>1, <3>1 DEF Inserting
    <3>3. \A q : Handled(t, q)' <=> Handled(t, q) \/ q = p
      BY <1>1, <1>3, <1>4, <2>2, <2>4, <3>2, TakenHandled
    <3>4. /\ (Skeleton => Skeleton') /\ (Enforcing' <=> Enforcing) /\ Ruled(p)'
          /\ \A q \in Ids : Ruled(q) => Ruled(q)'
          /\ \A q \in Policies : Ruled(q)' => Ruled(q) \/ q = p
      BY <1>2, <1>4, <1>6, <3>2, RuleInserted
    <3>5. Content' = Content /\ \A q : Status(q)' = Status(q)
      BY <1>1 DEF Content, Status
    <3>6. Inserting(t)'
      <4>1. Skeleton' /\ (Content' \in Stores => ModeShown(Content', Enforcing'))
        BY <3>1, <3>4, <3>5 DEF Inserting, ModeShown
      <4>2. \A q \in Ids : Status(q)' = "applied" /\ Handled(t, q)' => Ruled(q)'
        BY <3>1, <3>3, <3>4, <3>5 DEF Inserting
      <4>3. \A q \in Policies : Ruled(q)' => Handled(t, q)' /\ (Status(q)' \in {"applied", "remove"} \/ (q = p /\ Status(q)' # "none"))
        BY <1>1, <3>1, <3>2, <3>3, <3>4, <3>5 DEF Inserting
      <4>4. \A q \in DOMAIN th'[t].todo : Chain(q) = th'[t].chain /\ (q \in Policies => Status(q)' # "none")
        BY <1>1, <1>3, <1>4, <2>2, <2>4, <3>1, <3>5 DEF Inserting
      <4>5. Ruled(th[t].cur)' = Ruled(p)'
        BY <2>2, <2>4 DEF Ruled
      <4>6. QED
        BY <1>4, <2>2, <2>4, <3>2, <3>4, <4>1, <4>2, <4>3, <4>4, <4>5 DEF Inserting
    <3>7. Undisturbed(t)'
      BY <1>1, <2>2, <2>4, <3>6, StillAlone DEF Undisturbed, CommitPcs
    <3>8. QED
      BY <1>1, <1>2, <2>4, <2>8, <3>7, CommitStepKeeps DEF CommitPcs
  <2>11. QED
    BY <2>9, <2>10
<1>7. QED
  BY <1>5, <1>6 DEF InsertPolicy

-----------------------------------------------------------------------------
(***************************************************************************)
(* Backups, reverts and restarts                                            *)
(***************************************************************************)
LEMMA IdleChains == ASSUME NEW u \in Threads, th[u].pc \in {"idle", "rev2", "revopen", "rev3"} PROVE ThreadChains(u)
BY DEF ThreadChains, Undisturbed, CommitPcs, CopyPcs

\* A bootstrap leaves the others idle.
LEMMA AloneOthers ==
    ASSUME PolicyInv, NEW t \in Threads, Moved(t), th[t].boot
    PROVE  \A u \in Threads \ {t} : /\ th[u].pc = "idle" /\ ~th[u].boot /\ th'[u].pc = "idle" /\ ~th'[u].boot
                                    /\ ThreadChains(u)'
<1>1. \A u \in Threads \ {t} : th[u].pc = "idle" /\ ~th[u].boot
  BY DEF PolicyInv, StoreInv, Alone
<1>2. \A u \in Threads \ {t} : th'[u].pc = "idle" /\ ~th'[u].boot
  BY <1>1 DEF Moved, Like
<1>3. \A u \in Threads \ {t} : ThreadChains(u)'
  BY <1>2, IdleChains DEF ThreadChains, Undisturbed, CommitPcs, CopyPcs
<1>4. QED
  BY <1>1, <1>2, <1>3

\* OpenBackup keeps PolicyInv.
LEMMA OpenBackupKeeps ==
    ASSUME PolicyInv, NEW t \in Threads, OpenBackup(t)
    PROVE  PolicyInv'
<1>1. th[t].pc \in {"open", "revopen"} /\ th[t].pc \in WorkPcs /\ UNCHANGED <<np, pod, chains, inst, crossed, late>>
  BY DEF OpenBackup, kernel, WorkPcs, CommitPcs, RevertPcs
<1>2. /\ StoreInv /\ ThreadsOK /\ Alone /\ FilesOK /\ MarksHeld /\ PolicyTypeOK /\ th[t] \in PolicyThreads
      /\ ThreadChains(t) /\ Installed /\ (th[t].boot => t = Ctl /\ th[t].pc = "open") /\ Ctl \in Threads
  BY <1>1 DEF PolicyInv, StoreInv, Threads, ThreadsOK, ThreadOK
<1>3. Content \in Files
  BY <1>2 DEF PolicyTypeOK, Content, Files, Names
<1>4. files'["path"] = files["path"] /\ files' \in [Names -> Stores \cup {Broken, Absent}]
  BY <1>2 DEF OpenBackup, PolicyTypeOK, Names
<1>5. Content' = Content /\ \A p : Status(p)' = Status(p)
  BY <1>4 DEF Content, Status
<1>6. /\ (Skeleton' <=> Skeleton) /\ \A s : Shown(s)' <=> Shown(s)
  BY <1>1, SameChains
<1>7. ASSUME Moved(t), th'[t].pc \in {"idle", "copy", "revcopy"}, th'[t].boot => th[t].boot, ThreadOK(t, th'[t], crossed),
             FilesOK'
      PROVE  StoreInv' /\ \A u \in Threads \ {t} : ThreadChains(u)'
  <2>1. Alone'
    BY <1>1, <1>2, <1>7, AloneMoves
  <2>2. ThreadsOK'
    <3>1. ThreadOK(t, th'[t], crossed')
      BY <1>1, <1>7
    <3>2. QED
      BY <1>1, <1>2, <1>7, <3>1, ThreadsMove
  <2>3. MarksHeld'
    <3>1. MarksOf(th'[t])
      BY <1>7 DEF MarksOf
    <3>2. QED
      BY <1>1, <1>2, <1>5, <1>7, <3>1, MarksKept
  <2>4. PolicyTypeOK'
    BY <1>1, <1>2, <1>4, <1>7 DEF PolicyTypeOK, Moved
  <2>5. \A u \in Threads \ {t} : ThreadChains(u)'
    BY <1>1, <1>7, CommitOthers
  <2>6. QED
    BY <1>1, <1>2, <1>7, <2>1, <2>2, <2>3, <2>4, <2>5 DEF StoreInv, Moved
<1>8. CASE Content = Absent
  <2>1. Finish(t) /\ files' = files
    BY <1>8 DEF OpenBackup
  <2>2. Moved(t) /\ th'[t].pc = "idle" /\ ~th'[t].boot
    BY <1>2, <2>1, FinishMoves
  <2>3. \A u \in Threads \ {t} : th'[u].pc = th[u].pc
    BY <2>2 DEF Moved, Like
  <2>4. ThreadOK(t, th'[t], crossed)
    BY <2>2 DEF ThreadOK, CopyPcs
  <2>5. FilesOK'
    <3>1. CASE crossed
      BY <1>1, <3>1 DEF FilesOK
    <3>2. CASE ~crossed /\ (th[t].boot \/ th[t].pc = "revopen")
      <4>1. th[Ctl].pc = "setnp" \/ \E u \in Threads : th[u].pc = "rev2"
        BY <1>2, <1>8, <3>2 DEF FilesOK
      <4>2. th[Ctl].pc = "setnp" => th[Ctl].boot
        BY <1>2 DEF ThreadsOK, ThreadOK
      <4>3. th[Ctl].pc # "setnp"
        BY <1>1, <1>2, <3>2, <4>2 DEF Alone
      <4>4. PICK u \in Threads : th[u].pc = "rev2"
        BY <4>1, <4>3
      <4>5. u # t
        BY <1>1, <4>4
      <4>6. CASE th[t].boot
        BY <1>2, <4>4, <4>5, <4>6 DEF Alone
      <4>7. CASE th[t].pc = "revopen"
        BY <1>2, <3>2, <4>4, <4>5, <4>7 DEF FilesOK, RevertPcs
      <4>8. QED
        BY <3>2, <4>6, <4>7
    <3>3. CASE th[t].pc = "open" /\ ~th[t].boot
      BY <1>1, <1>2, <2>1, <2>2, <3>3, FilesKept DEF RevertPcs
    <3>4. QED
      BY <1>1, <3>1, <3>2, <3>3
  <2>6. StoreInv' /\ \A u \in Threads \ {t} : ThreadChains(u)'
    BY <1>7, <2>2, <2>4, <2>5
  <2>7. ThreadChains(t)'
    BY <2>2 DEF ThreadChains, Undisturbed, CommitPcs, CopyPcs
  <2>8. Installed'
    <3>1. inst # "no" => \E u \in Threads : th'[u].pc = "rev2"
      BY <1>1, <1>2, <1>8, <2>3 DEF Installed
    <3>2. Content' \notin Stores
      BY <1>5, <1>8, FileFacts
    <3>3. Shown(files["running"]) => Shown(files["running"])'
      BY <1>6, <2>1 DEF Shown
    <3>4. QED
      BY <1>1, <1>2, <1>6, <2>1, <3>1, <3>2, <3>3 DEF Installed
  <2>9. QED
    BY <2>6, <2>7, <2>8 DEF PolicyInv
<1>9. CASE Content # Absent
  <2>1. PICK pc \in CopyPcs : pc = IF th[t].pc = "open" THEN "copy" ELSE "revcopy"
    BY DEF CopyPcs
  <2>2. PICK x : x = [th[t] EXCEPT !.pc = pc, !.buf = Content, !.dst = "running"]
    OBVIOUS
  <2>3. /\ x \in PolicyThreads /\ x.pc = pc /\ x.buf = Content /\ x.clean = th[t].clean /\ x.boot = th[t].boot
        /\ x.dst = "running"
    <3>1. pc \in PolicyPcs /\ "running" \in Names \cup {"gone"}
      BY <2>1 DEF PolicyPcs, CopyPcs, Names
    <3>2. x \in PolicyThreads
      BY <1>2, <1>3, <2>2, <3>1 DEF PolicyThreads
    <3>3. x.pc = pc /\ x.buf = Content /\ x.clean = th[t].clean /\ x.boot = th[t].boot /\ x.dst = "running"
      BY <1>2, <2>2 DEF PolicyThreads
    <3>4. QED
      BY <3>2, <3>3
  <2>4. th' = [th EXCEPT ![t] = x] /\ files' = [files EXCEPT !["running"] = Broken]
    BY <1>2, <1>9, <2>1, <2>2 DEF OpenBackup, StoreInv
  <2>5. Moved(t) /\ th'[t] = x
    BY <1>2, <2>3, <2>4, SetMoves
  <2>6. files'["running"] = Broken
    BY <1>2, <2>4 DEF PolicyTypeOK, Names
  <2>7. \A u \in Threads \ {t} : th'[u].pc = th[u].pc
    BY <2>5 DEF Moved, Like
  <2>8. ThreadOK(t, th'[t], crossed)
    <3>1. Content = Broken => crossed
      BY <1>2 DEF FilesOK
    <3>2. QED
      BY <1>1, <1>2, <1>9, <2>1, <2>3, <2>5, <3>1 DEF ThreadOK, CopyPcs
  <2>9. FilesOK'
    <3>1. files'["running"] # Absent /\ Content' # Absent
      BY <1>5, <1>9, <2>6, FileFacts
    <3>2. CASE crossed
      BY <1>1, <1>2, <1>5, <3>2 DEF FilesOK
    <3>3. CASE ~crossed
      <4>1. \A u \in Threads : th'[u].pc # "rev2"
        BY <1>2, <1>9, <2>1, <2>3, <2>5, <2>7, <3>3 DEF FilesOK, CopyPcs
      <4>2. \A u \in Threads : th'[u].pc \in RevertPcs => th[u].pc \in RevertPcs
        BY <1>1, <2>1, <2>3, <2>5, <2>7 DEF RevertPcs
      <4>3. \E u \in Threads : th'[u].pc \in CopyPcs
        BY <2>1, <2>3, <2>5
      <4>4. QED
        BY <1>1, <1>2, <1>5, <3>1, <3>3, <4>1, <4>2, <4>3 DEF FilesOK
    <3>4. QED
      BY <3>2, <3>3
  <2>10. StoreInv' /\ \A u \in Threads \ {t} : ThreadChains(u)'
    BY <1>7, <2>1, <2>3, <2>5, <2>8, <2>9 DEF CopyPcs
  <2>11. ThreadChains(t)'
    <3>1. Undisturbed(t)'
      <4>1. CASE th[t].pc = "open"
        BY <1>5, <2>1, <2>3, <2>5, <4>1, StillAlone DEF Undisturbed, CommitPcs
      <4>2. CASE th[t].pc = "revopen"
        BY <2>1, <2>3, <2>5, <4>2 DEF Undisturbed, CommitPcs
      <4>3. QED
        BY <1>1, <4>1, <4>2
    <3>2. Shown(Content) => Shown(th[t].buf)'
      BY <1>6, <2>3, <2>5 DEF Shown
    <3>3. th'[t].pc = "copy" => th[t].pc = "open"
      BY <2>1, <2>3, <2>5
    <3>4. inst # "no" /\ Content \in Stores => Shown(Content)
      BY <1>2 DEF Installed
    <3>5. th'[t].pc \in {"copy", "revcopy"}
      BY <2>1, <2>3, <2>5 DEF CopyPcs
    <3>6. QED
      BY <1>1, <1>2, <2>3, <2>5, <3>1, <3>2, <3>3, <3>4, <3>5 DEF ThreadChains
  <2>12. Installed'
    <3>1. files'["running"] \notin Stores
      BY <2>6, FileFacts
    <3>2. Shown(Content) => Shown(Content)'
      BY <1>5, <1>6 DEF Shown
    <3>3. QED
      BY <1>1, <1>2, <1>5, <1>6, <1>9, <3>1, <3>2 DEF Installed
  <2>13. QED
    BY <2>10, <2>11, <2>12 DEF PolicyInv
<1>10. QED
  BY <1>8, <1>9

\* CopyBackup keeps PolicyInv.
LEMMA CopyBackupKeeps ==
    ASSUME PolicyInv, NEW t \in Threads, CopyBackup(t)
    PROVE  PolicyInv'
<1>1. /\ th[t].pc \in {"copy", "revcopy"} /\ th[t].pc \in WorkPcs /\ th[t].pc \in CopyPcs /\ UNCHANGED <<np, pod, chains, late>>
      /\ inst' = IF th[t].pc = "copy" /\ th[t].clean /\ inst = "built" THEN "saved" ELSE inst
  BY DEF CopyBackup, CopyPcs, WorkPcs, CommitPcs, RevertPcs
<1>2. /\ StoreInv /\ ThreadsOK /\ Alone /\ FilesOK /\ MarksHeld /\ PolicyTypeOK /\ th[t] \in PolicyThreads
      /\ ThreadChains(t) /\ Installed /\ ThreadOK(t, th[t], crossed) /\ Ctl \in Threads /\ Content \in Files
  BY ContentFacts DEF PolicyInv, StoreInv, Threads, ThreadsOK
<1>3. PICK buf \in CopySources(t) : \E o \in {buf, Broken} :
         /\ \/ th[t].dst # "gone" /\ files' = [files EXCEPT ![th[t].dst] = o]
            \/ th[t].dst = "gone" /\ UNCHANGED files
            \/ th[t].dst \in {"path", "org"} /\ files[th[t].dst] # Broken /\ UNCHANGED files
         /\ crossed' = (crossed \/ o # buf)
  BY DEF CopyBackup
<1>4. PICK out \in {buf, Broken} :
         /\ \/ th[t].dst # "gone" /\ files' = [files EXCEPT ![th[t].dst] = out]
            \/ th[t].dst = "gone" /\ UNCHANGED files
            \/ th[t].dst \in {"path", "org"} /\ files[th[t].dst] # Broken /\ UNCHANGED files
         /\ crossed' = (crossed \/ out # buf)
  BY <1>3
<1>5. /\ th[t].buf \in Files /\ th[t].buf # Absent /\ (th[t].buf = Broken \/ th[t].dst # "running" => crossed)
      /\ th[t].dst \in Names \cup {"gone"}
  BY <1>1, <1>2 DEF ThreadOK, PolicyThreads
<1>6. buf \in Files /\ buf # Absent /\ (buf = Broken => crossed) /\ (buf = th[t].buf \/ buf = Content)
  BY <1>2, <1>5 DEF CopySources
<1>7. /\ out \in Files /\ out # Absent /\ (out = Broken => crossed') /\ (out \in Stores => out = buf)
      /\ (crossed => crossed') /\ crossed' \in BOOLEAN
  <2>1. out \in Files /\ out # Absent /\ (out \in Stores => out = buf)
    BY <1>4, <1>6, FileFacts DEF Files
  <2>2. crossed' = (crossed \/ out # buf)
    BY <1>4
  <2>3. (out = Broken => crossed') /\ (crossed => crossed') /\ crossed' \in BOOLEAN
    BY <1>4, <1>6, <2>2
  <2>4. QED
    BY <2>1, <2>3
<1>8. files' \in [Names -> Stores \cup {Broken, Absent}] /\ (Content' = Content \/ Content' = out)
  BY <1>2, <1>4, <1>5, <1>7 DEF PolicyTypeOK, Names, Files, Content
<1>9. th[t].dst = "running" => /\ files'["path"] = files["path"] /\ files'["running"] = out /\ Content' = Content
                               /\ \A p : Status(p)' = Status(p)
  BY <1>2, <1>4 DEF PolicyTypeOK, Names, Content, Status
<1>10. th[t].dst # "running" => crossed' /\ inst = "no" /\ inst' = "no"
  BY <1>1, <1>2, <1>5, <1>7 DEF ThreadChains
<1>11. /\ inst' \in {"no", "built", "saved"} /\ (inst' # "no" => inst # "no") /\ inst' \in {inst, "saved"}
       /\ inst' # inst => th[t].pc = "copy" /\ th[t].clean
  BY <1>1, <1>2 DEF PolicyTypeOK
<1>12. (th[t].pc = "revcopy" /\ Goto(t, "rev3")) \/ (th[t].pc = "copy" /\ ((th[t].boot /\ StartCommit(t, "pre")) \/ (~th[t].boot /\ Finish(t))))
  BY <1>1 DEF CopyBackup
<1>13. /\ Moved(t) /\ th'[t].boot = th[t].boot /\ th'[t].pc \in {"rev3", "pre", "idle"} /\ (th'[t].pc = "rev3" => th[t].pc = "revcopy")
       /\ th'[t].pc = "pre" => th[t].boot /\ (th'[t].clean => Content # Absent /\ \A u \in Threads \ {t} : th[u].pc \notin WorkPcs)
       /\ th'[t].pc = "idle" => ~th[t].boot
  <2>1. CASE th[t].pc = "revcopy" /\ Goto(t, "rev3")
    BY <1>2, <2>1, GotoMoves DEF PolicyPcs
  <2>2. CASE th[t].boot /\ StartCommit(t, "pre")
    BY <1>2, <2>2, StartCommitMoves DEF PolicyPcs
  <2>3. CASE ~th[t].boot /\ Finish(t)
    <3>1. Moved(t) /\ th'[t].pc = "idle" /\ ~th'[t].boot
      BY <1>2, <2>3, FinishMoves
    <3>2. th[t].boot \in BOOLEAN /\ th'[t].boot \in BOOLEAN
      BY <1>2, <3>1 DEF Moved, PolicyThreads
    <3>3. QED
      BY <2>3, <3>1, <3>2
  <2>4. QED
    BY <1>12, <2>1, <2>2, <2>3
<1>14. \A u \in Threads \ {t} : th'[u].pc = th[u].pc
  BY <1>13 DEF Moved, Like
<1>15. StoreInv'
  <2>1. Alone'
    BY <1>1, <1>2, <1>13, AloneMoves
  <2>2. ThreadsOK'
    <3>1. th[t].boot => t = Ctl /\ th[t].pc = "copy"
      BY <1>1, <1>2 DEF ThreadOK, CopyPcs
    <3>2. ThreadOK(t, th'[t], crossed')
      BY <1>13, <3>1 DEF ThreadOK, CopyPcs
    <3>3. QED
      BY <1>2, <1>7, <1>13, <3>2, ThreadsMove
  <2>3. FilesOK'
    <3>1. CASE crossed'
      BY <3>1 DEF FilesOK
    <3>2. CASE ~crossed'
      <4>1. ~crossed /\ th[t].dst = "running" /\ out # Broken
        BY <1>7, <1>10, <3>2
      <4>2. \A u \in Threads : (th'[u].pc = "rev2" <=> th[u].pc = "rev2") /\ (th'[u].pc \in RevertPcs => th[u].pc \in RevertPcs)
        BY <1>1, <1>13, <1>14 DEF RevertPcs
      <4>3. th[Ctl].pc = "setnp" => th'[Ctl].pc = "setnp"
        BY <1>1, <1>2, <1>14
      <4>4. QED
        BY <1>2, <1>7, <1>9, <4>1, <4>2, <4>3 DEF FilesOK
    <3>3. QED
      BY <3>1, <3>2
  <2>4. MarksHeld'
    <3>1. CASE crossed'
      BY <3>1 DEF MarksHeld
    <3>2. CASE ~crossed'
      <4>1. MarksOf(th'[t])
        BY <1>13 DEF MarksOf
      <4>2. QED
        BY <1>1, <1>2, <1>7, <1>9, <1>10, <1>13, <3>2, <4>1, MarksKept
    <3>3. QED
      BY <3>1, <3>2
  <2>5. PolicyTypeOK'
    BY <1>1, <1>2, <1>7, <1>8, <1>11, <1>13 DEF PolicyTypeOK, Moved
  <2>6. QED
    BY <1>1, <1>2, <1>13, <2>1, <2>2, <2>3, <2>4, <2>5 DEF StoreInv, Moved
<1>16. /\ (Skeleton' <=> Skeleton) /\ \A s : Shown(s)' <=> Shown(s)
  BY <1>1, SameChains
<1>17. Installed'
  <2>1. CASE inst' = "no"
    BY <2>1 DEF Installed
  <2>2. CASE inst' # "no"
    <3>1. th[t].dst = "running" /\ inst # "no"
      BY <1>10, <1>11, <2>2
    <3>2. Shown(Content) => Shown(Content)'
      BY <1>9, <1>16, <3>1 DEF Shown
    <3>3. ASSUME out \in Stores PROVE Shown(files["running"])'
      <4>1. Shown(out)
        BY <1>1, <1>2, <1>6, <1>7, <3>1, <3>3 DEF ThreadChains, Installed
      <4>2. Shown(out)'
        BY <1>16, <4>1 DEF Shown
      <4>3. QED
        BY <1>9, <3>1, <4>2 DEF Shown
    <3>4. Content' = Absent => \E u \in Threads : th'[u].pc = "rev2"
      BY <1>1, <1>2, <1>9, <1>14, <3>1 DEF Installed
    <3>5. QED
      BY <1>2, <1>9, <1>16, <3>1, <3>2, <3>3, <3>4 DEF Installed
  <2>3. QED
    BY <2>1, <2>2
<1>18. ThreadChains(t)'
  <2>1. CASE th'[t].pc = "pre"
    <3>1. Undisturbed(t)'
      BY <1>7, <1>8, <1>13, <1>14, <2>1 DEF Undisturbed
    <3>2. QED
      BY <2>1, <3>1 DEF ThreadChains, CopyPcs
  <2>2. CASE th'[t].pc \in {"idle", "rev3"}
    BY <2>2 DEF ThreadChains, Undisturbed, CommitPcs, CopyPcs
  <2>3. QED
    BY <1>13, <2>1, <2>2
<1>19. \A u \in Threads \ {t} : ThreadChains(u)'
  BY <1>1, <1>11, <1>13, CommitOthers DEF CommitPcs
<1>20. QED
  BY <1>15, <1>17, <1>18, <1>19 DEF PolicyInv

\* A rename of a revert moves the copies under way and spoils the commits.
LEMMA RenameMoves ==
    ASSUME StoreInv, NEW t \in Threads, NEW from \in Names, NEW to \in Names, NEW pc \in {"rev2", "revopen"},
           Rename(t, from, to, pc)
    PROVE  /\ th' \in [Threads -> PolicyThreads] /\ th'[t].pc = pc /\ th'[t].boot = th[t].boot
           /\ \A u \in Threads \ {t} :
                 /\ th'[u].pc = th[u].pc /\ th'[u].boot = th[u].boot /\ th'[u].mode = th[u].mode
                 /\ th'[u].cmds = th[u].cmds /\ th'[u].cur = th[u].cur /\ th'[u].buf = th[u].buf
                 /\ th[u].pc \in WorkPcs => ~th'[u].clean
<1>1. \A u \in Threads : th[u] \in PolicyThreads
  BY DEF StoreInv
<1> DEFINE new(u) == IF th[u].pc \in CopyPcs THEN Renamed(th[u].dst, from, to) ELSE th[u].dst
<1> DEFINE moved(u) == [th[u] EXCEPT !.clean = FALSE, !.dst = new(u)]
<1> DEFINE x == [th[t] EXCEPT !.pc = pc]
<1>2. \A u \in Threads : new(u) \in Names \cup {"gone"}
  BY <1>1 DEF PolicyThreads, Renamed
<1>3. \A u \in Threads : /\ moved(u) \in PolicyThreads /\ moved(u).pc = th[u].pc /\ moved(u).boot = th[u].boot
                         /\ moved(u).mode = th[u].mode /\ moved(u).cmds = th[u].cmds /\ moved(u).cur = th[u].cur
                         /\ moved(u).buf = th[u].buf /\ ~moved(u).clean
  <2> HIDE DEF new
  <2>1. QED
    BY <1>1, <1>2 DEF PolicyThreads
<1>4. x \in PolicyThreads /\ x.pc = pc /\ x.boot = th[t].boot
  BY <1>1 DEF PolicyThreads, PolicyPcs
<1>5. th' = [u \in Threads |-> IF u = t THEN x ELSE IF th[u].pc \in WorkPcs THEN moved(u) ELSE th[u]]
  BY DEF Rename
<1>6. th'[t] = x /\ \A u \in Threads \ {t} : th'[u] = IF th[u].pc \in WorkPcs THEN moved(u) ELSE th[u]
  BY <1>5
<1> HIDE DEF moved, x
<1>7. th' \in [Threads -> PolicyThreads]
  <2>1. \A u \in Threads : th'[u] \in PolicyThreads
    BY <1>1, <1>3, <1>4, <1>6
  <2>2. th' = [u \in Threads |-> th'[u]]
    BY <1>5
  <2>3. QED
    BY <2>1, <2>2
<1>8. QED
  BY <1>3, <1>4, <1>6, <1>7

\* A rename of a revert keeps what does not concern the files: whoever it
\* meets is on record, and none of them counts as installed.
LEMMA RevertStep ==
    ASSUME PolicyInv, NEW t \in Threads, NEW from \in Names, NEW to \in Names, NEW pc \in {"rev2", "revopen"},
           Rename(t, from, to, pc), \A u \in Threads : ~th[u].boot, th[t].pc \in {"idle", "rev2"},
           UNCHANGED <<np, pod, chains>>, files' \in [Names -> Stores \cup {Broken, Absent}], late' \subseteq Policies,
           crossed' = (crossed \/ Meets(t)), inst' \in {"no", "built", "saved"}, inst' # "no" => inst' = inst /\ ~Working(t)
    PROVE  /\ th' \in [Threads -> PolicyThreads] /\ th'[t].pc = pc /\ Alone' /\ ThreadsOK' /\ MarksHeld' /\ PolicyTypeOK'
           /\ \A u \in Threads : ThreadChains(u)'
           /\ \A u \in Threads \ {t} : th'[u].pc = th[u].pc
<1>1. StoreInv /\ ThreadsOK /\ PolicyTypeOK /\ \A u \in Threads : ThreadOK(u, th[u], crossed)
  BY DEF PolicyInv, StoreInv, ThreadsOK
<1>2. /\ th' \in [Threads -> PolicyThreads] /\ th'[t].pc = pc /\ th'[t].boot = th[t].boot
      /\ \A u \in Threads \ {t} :
            /\ th'[u].pc = th[u].pc /\ th'[u].boot = th[u].boot /\ th'[u].mode = th[u].mode
            /\ th'[u].cmds = th[u].cmds /\ th'[u].cur = th[u].cur /\ th'[u].buf = th[u].buf
            /\ th[u].pc \in WorkPcs => ~th'[u].clean
  BY <1>1, RenameMoves
<1>3. \A u \in Threads : ~th'[u].boot
  BY <1>2
<1>4. Alone'
  BY <1>3 DEF Alone
<1>5. \A u \in Threads \ {t} : th[u].pc # "idle" => crossed'
  BY DEF Meets
<1>6. ThreadsOK'
  <2>1. ThreadOK(t, th'[t], crossed')
    BY <1>2, <1>3 DEF ThreadOK, CopyPcs
  <2>2. ASSUME NEW u \in Threads \ {t} PROVE ThreadOK(u, th'[u], crossed')
    <3>1. th[u].pc \in CopyPcs => crossed' /\ th[u].buf # Absent
      BY <1>1, <1>5 DEF ThreadOK, CopyPcs
    <3>2. QED
      BY <1>1, <1>2, <1>3, <3>1 DEF ThreadOK, CopyPcs
  <2>3. QED
    BY <2>1, <2>2 DEF ThreadsOK
<1>7. MarksHeld'
  <2>1. CASE crossed'
    BY <2>1 DEF MarksHeld
  <2>2. CASE ~crossed'
    <3>1. \A u \in Threads : th'[u].pc \notin {"each", "mark"}
      BY <1>2, <1>5, <2>2
    <3>2. QED
      BY <3>1 DEF MarksHeld
  <2>3. QED
    BY <2>1, <2>2
<1>8. PolicyTypeOK'
  BY <1>1, <1>2 DEF PolicyTypeOK
<1>9. ASSUME NEW u \in Threads PROVE ThreadChains(u)'
  <2>1. CASE u = t
    BY <1>2, <2>1 DEF ThreadChains, Undisturbed, CommitPcs, CopyPcs
  <2>2. CASE u # t /\ th[u].pc \in WorkPcs
    <3>1. inst' = "no" /\ ~th'[u].clean
      BY <1>2, <2>2 DEF Working
    <3>2. QED
      BY <3>1 DEF ThreadChains, Undisturbed
  <2>3. CASE u # t /\ th[u].pc \notin WorkPcs
    <3>1. th'[u].pc = th[u].pc
      BY <1>2, <2>3
    <3>2. QED
      BY <2>3, <3>1 DEF ThreadChains, Undisturbed, WorkPcs, CommitPcs, RevertPcs, CopyPcs
  <2>4. QED
    BY <2>1, <2>2, <2>3
<1>10. QED
  BY <1>2, <1>4, <1>6, <1>7, <1>8, <1>9


\* RevertPolicy keeps PolicyInv.
LEMMA RevertPolicyKeeps ==
    ASSUME PolicyInv, NEW r \in Requests, RevertPolicy(r)
    PROVE  PolicyInv'
<1>1. /\ r \in Threads /\ th[r].pc = "idle" /\ Serving /\ UNCHANGED <<np, pod, chains, late>> /\ Ctl \in Threads
  BY DEF RevertPolicy, Ready, Threads
<1>2. /\ StoreInv /\ FilesOK /\ PolicyTypeOK /\ Installed /\ ThreadsOK /\ Content \in Files
  BY ContentFacts DEF PolicyInv, StoreInv
<1>3. CASE Content = Absent
  BY <1>1, <1>2, <1>3, StillKeeps DEF RevertPolicy, PolicyTypeOK
<1>4. CASE Content # Absent
  <2>1. /\ files' = [files EXCEPT !["org"] = Content, !["path"] = Absent] /\ Rename(r, "path", "org", "rev2")
        /\ crossed' = (crossed \/ Meets(r)) /\ inst' = IF Working(r) THEN "no" ELSE inst
    BY <1>4 DEF RevertPolicy
  <2>2. \A u \in Threads : ~th[u].boot
    BY <1>1 DEF Serving, Booting
  <2>3. /\ files'["path"] = Absent /\ files'["running"] = files["running"] /\ files' \in [Names -> Stores \cup {Broken, Absent}]
    BY <1>2, <2>1 DEF PolicyTypeOK, Names, Files
  <2>4. /\ inst' \in {"no", "built", "saved"} /\ (inst' # "no" => inst' = inst /\ ~Working(r)) /\ late' \subseteq Policies
    BY <1>1, <1>2, <2>1 DEF PolicyTypeOK
  <2>5. /\ th' \in [Threads -> PolicyThreads] /\ th'[r].pc = "rev2" /\ Alone' /\ ThreadsOK' /\ MarksHeld' /\ PolicyTypeOK'
        /\ \A u \in Threads : ThreadChains(u)'
        /\ \A u \in Threads \ {r} : th'[u].pc = th[u].pc
    BY <1>1, <2>1, <2>2, <2>3, <2>4, RevertStep DEF Names
  <2>6. Content' = Absent /\ Content' # Broken /\ Content' \notin Stores
    BY <2>3, FileFacts DEF Content
  <2>7. FilesOK'
    <3>1. SUFFICES ASSUME ~crossed' PROVE FilesOK'
      BY <2>6 DEF FilesOK
    <3>2. ~crossed /\ \A u \in Threads : th[u].pc = "idle"
      BY <1>1, <2>1, <3>1 DEF Meets
    <3>3. \A u \in Threads \ {r} : th'[u].pc = "idle"
      BY <2>5, <3>2
    <3>4. files["running"] # Absent /\ files["running"] # Broken
      BY <1>1, <1>2, <3>2 DEF FilesOK, Restarted, CopyPcs
    <3>5. QED
      BY <1>1, <2>3, <2>5, <2>6, <3>3, <3>4 DEF FilesOK, RevertPcs
  <2>8. Installed'
    <3>1. (Skeleton' <=> Skeleton) /\ \A s : Shown(s)' <=> Shown(s)
      BY <1>1, SameChains
    <3>2. Shown(files["running"]) => Shown(files["running"])'
      BY <2>3, <3>1 DEF Shown
    <3>3. QED
      BY <1>1, <1>2, <2>3, <2>4, <2>5, <2>6, <3>1, <3>2 DEF Installed
  <2>9. QED
    BY <1>1, <1>2, <2>5, <2>7, <2>8 DEF PolicyInv, StoreInv
<1>5. QED
  BY <1>3, <1>4

\* RevertRunning keeps PolicyInv.
LEMMA RevertRunningKeeps ==
    ASSUME PolicyInv, NEW t \in Threads, RevertRunning(t)
    PROVE  PolicyInv'
<1>1. th[t].pc = "rev2" /\ UNCHANGED <<np, pod, chains>> /\ Ctl \in Threads
  BY DEF RevertRunning, Threads
<1>2. /\ StoreInv /\ FilesOK /\ PolicyTypeOK /\ Installed /\ ThreadsOK /\ ~th[t].boot /\ th[t].pc \in RevertPcs
  BY <1>1 DEF PolicyInv, StoreInv, ThreadsOK, ThreadOK, RevertPcs
<1>3. \A u \in Threads : ~th[u].boot
  BY <1>1, <1>2 DEF StoreInv, Alone
<1>4. ~Restarted
  BY <1>1, <1>2, <1>3 DEF Restarted, ThreadsOK, ThreadOK
<1>5. CASE files["running"] = Absent
  <2>1. Finish(t) /\ inst' = "no" /\ UNCHANGED <<files, late, crossed>>
    BY <1>5 DEF RevertRunning
  <2>2. crossed = TRUE
    BY <1>1, <1>2, <1>4, <1>5 DEF FilesOK, RevertPcs, PolicyTypeOK
  <2>3. Moved(t) /\ th'[t].pc = "idle" /\ ~th'[t].boot
    BY <1>2, <2>1, FinishMoves
  <2>4. ThreadOK(t, th'[t], TRUE)
    BY <2>3 DEF ThreadOK, CopyPcs
  <2>5. Reverting /\ crossed' = TRUE /\ late' \subseteq Policies /\ files' \in [Names -> Stores \cup {Broken, Absent}]
    BY <1>2, <2>1, <2>2 DEF Reverting, PolicyTypeOK
  <2>6. QED
    BY <1>1, <2>1, <2>3, <2>4, <2>5, OvertakenKeeps DEF CommitPcs
<1>6. CASE files["running"] # Absent
  <2>1. /\ files' = [files EXCEPT !["path"] = files["running"], !["running"] = Absent]
        /\ Rename(t, "running", "path", "revopen") /\ crossed' = (crossed \/ Meets(t)) /\ late' = {}
        /\ inst' = IF inst = "saved" /\ ~Working(t) THEN inst ELSE "no"
    BY <1>6 DEF RevertRunning
  <2>2. /\ files'["path"] = files["running"] /\ files'["running"] = Absent /\ files' \in [Names -> Stores \cup {Broken, Absent}]
    BY <1>2, <2>1 DEF PolicyTypeOK, Names
  <2>3. /\ inst' \in {"no", "built", "saved"} /\ (inst' # "no" => inst' = inst /\ ~Working(t)) /\ late' \subseteq Policies
        /\ inst' # "no" => inst = "saved"
    BY <2>1
  <2>4. /\ th' \in [Threads -> PolicyThreads] /\ th'[t].pc = "revopen" /\ Alone' /\ ThreadsOK' /\ MarksHeld' /\ PolicyTypeOK'
        /\ \A u \in Threads : ThreadChains(u)'
        /\ \A u \in Threads \ {t} : th'[u].pc = th[u].pc
    BY <1>1, <1>3, <2>1, <2>2, <2>3, RevertStep DEF Names
  <2>5. Content' = files["running"] /\ Content' # Absent
    BY <1>6, <2>2 DEF Content
  <2>6. FilesOK'
    <3>1. files'["running"] # Broken
      BY <2>2, FileFacts
    <3>2. CASE crossed'
      BY <3>2 DEF FilesOK
    <3>3. CASE ~crossed'
      <4>1. ~crossed /\ \A u \in Threads \ {t} : th[u].pc = "idle"
        BY <2>1, <3>3 DEF Meets
      <4>2. \A u \in Threads \ {t} : th'[u].pc = "idle"
        BY <2>4, <4>1
      <4>3. files["running"] # Broken
        BY <1>1, <1>2, <1>4, <4>1 DEF FilesOK, CopyPcs
      <4>4. QED
        BY <2>2, <2>4, <2>5, <3>1, <4>2, <4>3 DEF FilesOK, RevertPcs
    <3>4. QED
      BY <3>2, <3>3
  <2>7. Installed'
    <3>1. (Skeleton' <=> Skeleton) /\ \A s : Shown(s)' <=> Shown(s)
      BY <1>1, SameChains
    <3>2. files'["running"] \notin Stores
      BY <2>2, FileFacts
    <3>3. Shown(files["running"]) => Shown(Content)'
      BY <2>5, <3>1 DEF Shown
    <3>4. QED
      BY <1>2, <2>3, <2>5, <3>1, <3>2, <3>3 DEF Installed
  <2>8. QED
    BY <1>1, <1>2, <2>4, <2>6, <2>7 DEF PolicyInv, StoreInv
<1>7. QED
  BY <1>5, <1>6

\* RevertClean keeps PolicyInv.
LEMMA RevertCleanKeeps ==
    ASSUME PolicyInv, NEW t \in Threads, RevertClean(t)
    PROVE  PolicyInv'
<1>1. th[t].pc = "rev3" /\ UNCHANGED <<np, pod, chains, inst, late, crossed>> /\ Ctl \in Threads /\ Finish(t)
      /\ files' = [files EXCEPT !["org"] = Absent]
  BY DEF RevertClean, kernel, Threads
<1>2. StoreInv /\ FilesOK /\ PolicyTypeOK /\ Installed /\ ThreadsOK
  BY DEF PolicyInv, StoreInv
<1>3. Moved(t) /\ th'[t].pc = "idle" /\ ~th'[t].boot
  BY <1>1, <1>2, FinishMoves
<1>4. /\ files'["path"] = files["path"] /\ files'["running"] = files["running"] /\ files' \in [Names -> Stores \cup {Broken, Absent}]
      /\ \A p : Status(p)' = Status(p)
  BY <1>1, <1>2 DEF PolicyTypeOK, Names, Status, Content
<1>5. StoreInv'
  <2>1. Alone'
    BY <1>1, <1>2, <1>3, AloneMoves
  <2>2. ThreadsOK'
    <3>1. ThreadOK(t, th'[t], crossed')
      BY <1>3 DEF ThreadOK, CopyPcs
    <3>2. QED
      BY <1>1, <1>2, <1>3, <3>1, ThreadsMove
  <2>3. FilesOK'
    BY <1>1, <1>2, <1>3, <1>4, FilesKept DEF RevertPcs
  <2>4. MarksHeld'
    <3>1. MarksOf(th'[t])
      BY <1>3 DEF MarksOf
    <3>2. QED
      BY <1>1, <1>2, <1>3, <1>4, <3>1, MarksKept
  <2>5. PolicyTypeOK'
    BY <1>1, <1>2, <1>3, <1>4 DEF PolicyTypeOK, Moved
  <2>6. QED
    BY <1>1, <1>2, <1>3, <2>1, <2>2, <2>3, <2>4, <2>5 DEF StoreInv, Moved
<1>6. (\A u \in Threads : ThreadChains(u)') /\ Installed'
  BY <1>1, <1>3, <1>4, EditKeeps, SameEdited DEF CommitPcs, WorkPcs, RevertPcs, CopyPcs
<1>7. QED
  BY <1>5, <1>6 DEF PolicyInv

\* Crash keeps PolicyInv.
LEMMA CrashKeeps ==
    ASSUME PolicyInv, Crash
    PROVE  PolicyInv'
<1>1. /\ UNCHANGED <<files, np, pod, chains, late, crossed>> /\ th' = [t \in Threads |-> IF t = Ctl THEN Boot ELSE Idle]
      /\ inst' = (IF Reverting THEN "no" ELSE inst) /\ Ctl \in Threads
  BY DEF Crash, Threads
<1>2. StoreInv /\ FilesOK /\ PolicyTypeOK /\ Installed
  BY DEF PolicyInv, StoreInv
<1>3. th'[Ctl] = Boot /\ \A u \in Threads \ {Ctl} : th'[u] = Idle
  BY <1>1
<1>4. th' \in [Threads -> PolicyThreads]
  BY <1>1, IdleFacts
<1>5. th'[Ctl].pc = "setnp" /\ th'[Ctl].boot /\ \A u \in Threads \ {Ctl} : th'[u].pc = "idle" /\ ~th'[u].boot
  BY <1>3, IdleFacts
<1>6. inst' \in {"no", "built", "saved"} /\ (inst' # "no" => inst' = inst /\ ~Reverting)
  BY <1>1, <1>2 DEF PolicyTypeOK
<1>7. Content' = Content
  BY <1>1 DEF Content
<1>8. StoreInv'
  <2>1. Alone'
    BY <1>5 DEF Alone
  <2>2. ThreadsOK'
    BY <1>5 DEF ThreadsOK, ThreadOK, CopyPcs
  <2>3. FilesOK'
    BY <1>1, <1>2, <1>5, <1>7 DEF FilesOK, Restarted, RevertPcs
  <2>4. MarksHeld'
    BY <1>5 DEF MarksHeld
  <2>5. PolicyTypeOK'
    BY <1>1, <1>2, <1>4, <1>6 DEF PolicyTypeOK
  <2>6. QED
    BY <1>1, <1>2, <1>4, <2>1, <2>2, <2>3, <2>4, <2>5 DEF StoreInv
<1>9. \A u \in Threads : ThreadChains(u)'
  BY <1>5 DEF ThreadChains, Undisturbed, CommitPcs, CopyPcs
<1>10. Installed'
  <2>1. (Skeleton' <=> Skeleton) /\ \A s : Shown(s)' <=> Shown(s)
    BY <1>1, SameChains
  <2>2. (Shown(Content) => Shown(Content)') /\ (Shown(files["running"]) => Shown(files["running"])')
    BY <1>1, <1>7, <2>1 DEF Shown
  <2>3. inst' # "no" => Content' # Absent
    BY <1>2, <1>6, <1>7 DEF Installed, Reverting, RevertPcs
  <2>4. QED
    BY <1>1, <1>2, <1>6, <1>7, <2>1, <2>2, <2>3 DEF Installed
<1>11. QED
  BY <1>8, <1>9, <1>10 DEF PolicyInv

\* SetNetworkPolicy keeps PolicyInv.
LEMMA SetNetworkPolicyKeeps ==
    ASSUME PolicyInv, SetNetworkPolicy
    PROVE  PolicyInv'
<1>1. th[Ctl].pc = "setnp" /\ UNCHANGED <<np, pod, chains, inst, late, crossed>> /\ Ctl \in Threads /\ Goto(Ctl, "open")
      /\ IF Readable(Content) THEN Save(Load(Content)) ELSE UNCHANGED files
  BY DEF SetNetworkPolicy, kernel, Threads
<1>2. StoreInv /\ FilesOK /\ PolicyTypeOK /\ Installed /\ ThreadsOK /\ ThreadChains(Ctl)
  BY <1>1 DEF PolicyInv, StoreInv
<1>3. th[Ctl].boot
  BY <1>1, <1>2 DEF ThreadsOK, ThreadOK
<1>4. Moved(Ctl) /\ th'[Ctl].pc = "open" /\ th'[Ctl].boot = th[Ctl].boot
  BY <1>1, <1>2, GotoMoves DEF PolicyPcs
<1>5. \A u \in Threads \ {Ctl} : th[u].pc = "idle" /\ ~th[u].boot /\ th'[u].pc = "idle" /\ ~th'[u].boot /\ ThreadChains(u)'
  BY <1>1, <1>3, <1>4, AloneOthers
<1>6. Content \in Files /\ (Content = Absent => inst = "no")
  <2>1. Content = Absent /\ inst # "no" => \E u \in Threads : th[u].pc = "rev2"
    BY <1>2 DEF Installed
  <2>2. \A u \in Threads : th[u].pc # "rev2"
    BY <1>1, <1>5
  <2>3. QED
    BY <2>1, <2>2, ContentFacts
<1>7. /\ files'["running"] = files["running"] /\ files' \in [Names -> Stores \cup {Broken, Absent}]
      /\ Content' # Absent /\ (Content' = Broken => crossed) /\ (Content' = Content \/ Content = Absent)
  <2>1. CASE ~Readable(Content)
    BY <1>1, <1>2, <1>6, <2>1, FileFacts DEF Readable, FilesOK, Content, PolicyTypeOK
  <2>2. CASE Readable(Content)
    <3>1. Load(Content) \in Stores /\ (Content \in Stores => Load(Content) = Content) /\ Content \in Stores \cup {Absent}
      BY <1>6, <2>2, LoadFacts
    <3>2. files' = [files EXCEPT !["path"] = Load(Content)]
      BY <1>1, <2>2 DEF Save
    <3>3. Content' = Load(Content) /\ files'["running"] = files["running"] /\ files' \in [Names -> Stores \cup {Broken, Absent}]
      BY <1>2, <3>1, <3>2 DEF PolicyTypeOK, Content, Names
    <3>4. QED
      BY <3>1, <3>3, FileFacts
  <2>3. QED
    BY <2>1, <2>2
<1>8. StoreInv'
  <2>1. Alone'
    BY <1>4, <1>5 DEF Alone
  <2>2. ThreadsOK'
    <3>1. ThreadOK(Ctl, th'[Ctl], crossed')
      BY <1>1, <1>3, <1>4 DEF ThreadOK, CopyPcs
    <3>2. QED
      BY <1>1, <1>2, <1>4, <3>1, ThreadsMove
  <2>3. FilesOK'
    BY <1>1, <1>3, <1>4, <1>5, <1>7 DEF FilesOK, Restarted, RevertPcs
  <2>4. MarksHeld'
    BY <1>4, <1>5 DEF MarksHeld
  <2>5. PolicyTypeOK'
    BY <1>1, <1>2, <1>4, <1>7 DEF PolicyTypeOK, Moved
  <2>6. QED
    BY <1>1, <1>2, <1>4, <2>1, <2>2, <2>3, <2>4, <2>5 DEF StoreInv, Moved
<1>9. ThreadChains(Ctl)'
  BY <1>3, <1>4, <1>5, <1>7 DEF ThreadChains, Undisturbed, CommitPcs, WorkPcs, RevertPcs, CopyPcs
<1>10. Installed'
  <2>1. (Skeleton' <=> Skeleton) /\ \A s : Shown(s)' <=> Shown(s)
    BY <1>1, SameChains
  <2>2. Content' = Content => (Shown(Content) => Shown(Content)')
    BY <2>1 DEF Shown
  <2>3. Shown(files["running"]) => Shown(files["running"])'
    BY <1>7, <2>1 DEF Shown
  <2>4. QED
    BY <1>1, <1>2, <1>6, <1>7, <2>1, <2>2, <2>3 DEF Installed
<1>11. QED
  BY <1>5, <1>8, <1>9, <1>10 DEF PolicyInv

-----------------------------------------------------------------------------
(***************************************************************************)
(* Initial states and steps                                                 *)
(***************************************************************************)
LEMMA InitStore == PolicyInit => StoreInv
<1> SUFFICES ASSUME PolicyInit PROVE StoreInv
  OBVIOUS
<1>1. \A t \in Threads : th[t] = Idle
  BY DEF PolicyInit
<1>2. Content = DefaultStore /\ files["running"] = DefaultStore /\ files \in [Names -> Stores \cup {Broken, Absent}]
  BY FileFacts DEF PolicyInit, InitFiles, Content, Names
<1>3. chains \in [Chains -> Seq(FixedRows \cup Policies)]
  <2>1. /\ <<"ROOT">> \in Seq(FixedRows \cup Policies) /\ <<"est", "EW", "OBS", "RET">> \in Seq(FixedRows \cup Policies)
        /\ <<"DROP", "RET">> \in Seq(FixedRows \cup Policies) /\ <<"ACC", "RET">> \in Seq(FixedRows \cup Policies)
        /\ << >> \in Seq(FixedRows \cup Policies)
    BY DEF FixedRows
  <2>2. \A c \in Chains : chains[c] \in Seq(FixedRows \cup Policies)
    BY <2>1 DEF PolicyInit, DenyAll, Chains
  <2>3. chains = [c \in Chains |-> chains[c]]
    BY DEF PolicyInit, DenyAll
  <2>4. QED
    BY <2>2, <2>3
<1>4. th \in [Threads -> PolicyThreads]
  BY IdleFacts DEF PolicyInit
<1>5. PolicyTypeOK
  BY <1>2, <1>3 DEF PolicyInit, PolicyTypeOK
<1>6. ThreadsOK /\ Alone
  BY <1>1, IdleFacts DEF ThreadsOK, ThreadOK, Alone, CopyPcs
<1>7. FilesOK /\ MarksHeld
  BY <1>1, <1>2, IdleFacts, FileFacts DEF FilesOK, MarksHeld, RevertPcs
<1>8. QED
  BY <1>3, <1>4, <1>5, <1>6, <1>7 DEF StoreInv

\* The chains are as the invariant asks at the start.
LEMMA InitChains == PolicyInit => (\A t \in Threads : ThreadChains(t)) /\ Installed
<1> SUFFICES ASSUME PolicyInit PROVE (\A t \in Threads : ThreadChains(t)) /\ Installed
  OBVIOUS
<1>1. \A t \in Threads : th[t].pc = "idle"
  BY IdleFacts DEF PolicyInit
<1>2. /\ chains["FORWARD"] = <<"ROOT">> /\ chains["ROOT"] = RootRows(FALSE) /\ chains["EW"] = <<"DROP", "RET">>
      /\ chains["OBS"] = <<"ACC", "RET">> /\ chains["ENF"] = << >>
  BY DEF PolicyInit, DenyAll, Chains, RootRows
<1>3. ~Enforcing
  <2>1. RootRows(TRUE)[3] = "ENF" /\ RootRows(FALSE)[3] = "OBS"
    BY DEF RootRows
  <2>2. QED
    BY <1>2, <2>1 DEF Enforcing
<1>4. Skeleton
  <2>1. Contains(chains["FORWARD"], "ROOT")
    <3>1. 1 \in DOMAIN <<"ROOT">> /\ <<"ROOT">>[1] = "ROOT" /\ Len(<<"ROOT">>) = 1
      OBVIOUS
    <3>2. QED
      BY <1>2, <3>1 DEF Contains
  <2>2. Ends("EW", "DROP") /\ Ends("OBS", "ACC")
    BY <1>2, PairLeads DEF Ends, Verdicts
  <2>3. QED
    BY <1>2, <1>3, <2>1, <2>2 DEF Skeleton
<1>5. Shown(DefaultStore)
  <2>1. ModeShown(DefaultStore, Enforcing)
    BY <1>3 DEF ModeShown, DefaultStore
  <2>2. \A p \in Ids : DefaultStore.pol[p] # "applied"
    BY FileFacts
  <2>3. ASSUME NEW p \in Policies PROVE ~Ruled(p)
    <3>1. Chain(p) \in {"EW", "OBS", "ENF"} /\ Rule(p) = p /\ p # "DROP" /\ p # "RET" /\ p # "ACC"
      BY PolicyAssumption DEF Chain, Rule, FixedRows
    <3>2. ~Contains(<<"DROP", "RET">>, p) /\ ~Contains(<<"ACC", "RET">>, p) /\ ~Contains(<< >>, p)
      BY <3>1 DEF Contains
    <3>3. chains[Chain(p)] \in {<<"DROP", "RET">>, <<"ACC", "RET">>, << >>}
      BY <1>2, <3>1
    <3>4. QED
      BY <3>1, <3>2, <3>3 DEF Ruled
  <2>4. QED
    BY <2>1, <2>2, <2>3 DEF Shown
<1>6. Installed
  <2>1. Content = DefaultStore /\ files["running"] = DefaultStore
    BY DEF PolicyInit, InitFiles, Content, Names
  <2>2. QED
    BY <1>4, <1>5, <2>1, FileFacts DEF Installed
<1>7. \A t \in Threads : ThreadChains(t)
  BY <1>1 DEF ThreadChains, Undisturbed, CommitPcs, CopyPcs
<1>8. QED
  BY <1>6, <1>7

\* Every step of a thread keeps PolicyInv.
LEMMA ThreadStepKeeps ==
    ASSUME PolicyInv, NEW t \in Threads, PolicyThread(t)
    PROVE  PolicyInv'
<1>1. CASE WriteNSMode(t)
  BY <1>1, ModeKeeps, FixwKeeps DEF WriteNSMode
<1>2. CASE FixNSMode(t)
  BY <1>2, FixNSModeKeeps
<1>3. CASE BuildPredefinedPolicy(t)
  BY <1>3, BuildPredefinedPolicyKeeps
<1>4. CASE RunCommands(t)
  BY <1>4, RunCommandsKeeps
<1>5. CASE ReadPolicies(t)
  BY <1>5, ReadPoliciesKeeps
<1>6. CASE ChainDone(t)
  BY <1>6, ChainDoneKeeps
<1>7. CASE \E p \in Ids : DropOrUnresolve(t, p)
  BY <1>7, DropOrUnresolveKeeps
<1>8. CASE \E p \in Ids : InsertPolicy(t, p)
  BY <1>8, InsertPolicyKeeps
<1>9. CASE MarkApplied(t)
  BY <1>9, MarkAppliedKeeps
<1>10. CASE OpenBackup(t)
  BY <1>10, OpenBackupKeeps
<1>11. CASE CopyBackup(t)
  BY <1>11, CopyBackupKeeps
<1>12. CASE RevertRunning(t)
  BY <1>12, RevertRunningKeeps
<1>13. CASE RevertClean(t)
  BY <1>13, RevertCleanKeeps
<1>14. CASE GenerateBackendPolicies(t)
  BY <1>14, GenerateBackendPoliciesKeeps
<1>15. CASE EqualPolicySets(t)
  BY <1>15, EqualPolicySetsKeeps
<1>16. CASE ReplaceGenerated(t)
  BY <1>16, ReplaceGeneratedKeeps
<1>17. CASE UpdateGeneratedRuleIds(t)
  BY <1>17, UpdateGeneratedRuleIdsKeeps
<1>18. CASE UndoApply(t)
  BY <1>18, UndoApplyKeeps
<1>19. QED
  BY <1>1, <1>2, <1>3, <1>4, <1>5, <1>6, <1>7, <1>8, <1>9, <1>10, <1>11, <1>12, <1>13, <1>14, <1>15, <1>16, <1>17,
     <1>18 DEF PolicyThread

\* PolicyNext keeps PolicyInv.
LEMMA PolicyNextKeeps ==
    ASSUME PolicyInv, [PolicyNext]_policyVars
    PROVE  PolicyInv'
<1>1. \A r \in Requests : r \in Threads
  BY DEF Threads
<1>2. CASE \E p \in Policies : AddUserPolicy(p)
  BY <1>2, AddUserPolicyKeeps
<1>3. CASE \E p \in Policies : RemoveUserPolicy(p)
  BY <1>3, RemoveUserPolicyKeeps
<1>4. CASE RemoveNetworkPolicy
  BY <1>4, RemoveNetworkPolicyKeeps
<1>5. CASE \E r \in Requests : \E m \in {"observe", "enforce"} : ChangeNSMode(r, m)
  BY <1>1, <1>5, ChangeNSModeKeeps
<1>6. CASE \E r \in Requests : CommitPolicy(r)
  BY <1>1, <1>6, CommitPolicyKeeps
<1>7. CASE \E r \in Requests : RevertPolicy(r)
  BY <1>1, <1>7, RevertPolicyKeeps
<1>8. CASE \E r \in Requests : ApplyNetworkPolicy(r)
  BY <1>1, <1>8, ApplyNetworkPolicyKeeps
<1>9. CASE \E r \in Requests : \E a \in Pods : CreateContainerHook(r, a)
  BY <1>1, <1>9, HookCommitKeeps DEF CreateContainerHook
<1>10. CASE \E r \in Requests : \E a \in Pods : PoststopHook(r, a)
  BY <1>1, <1>10, HookCommitKeeps DEF PoststopHook
<1>11. CASE \E a \in Pods : StateHook(a)
  BY <1>11, StateHookKeeps
<1>12. CASE ReconcileOnce
  BY <1>12, ReconcileOnceKeeps
<1>13. CASE Crash
  BY <1>13, CrashKeeps
<1>14. CASE SetNetworkPolicy
  BY <1>14, SetNetworkPolicyKeeps
<1>15. CASE \E t \in Threads : PolicyThread(t)
  BY <1>15, ThreadStepKeeps
<1>16. CASE UNCHANGED policyVars
  <2>1. UNCHANGED <<files, chains, inst, crossed, late, th, np, pod>>
    BY <1>16 DEF policyVars
  <2>2. np' \in BOOLEAN /\ pod' \in [Pods -> {"down", "created", "ready"}]
    BY <2>1 DEF PolicyInv, StoreInv, PolicyTypeOK
  <2>3. QED
    BY <2>1, <2>2, StillKeeps
<1>17. QED
  BY <1>2, <1>3, <1>4, <1>5, <1>6, <1>7, <1>8, <1>9, <1>10, <1>11, <1>12, <1>13, <1>14, <1>15, <1>16 DEF PolicyNext

\* The invariant holds in every state of the policy service.
THEOREM PolicyInvariant == PolicySpec => []PolicyInv
<1>1. PolicyInit => PolicyInv
  BY InitStore, InitChains DEF PolicyInv
<1>2. PolicyInv /\ [PolicyNext]_policyVars => PolicyInv'
  BY PolicyNextKeeps
<1>3. QED
  BY <1>1, <1>2, PTL DEF PolicySpec

\* The policy store and its backup stay well-formed and readable: only two
\* backups written into one another, or a revert that meets other work on the
\* store, can spoil it, and only a revert or a bootstrap under way may find it
\* missing.
THEOREM PolicyStaysSound == PolicySpec => []PolicyStoreSound
<1>1. PolicyInv => PolicyStoreSound
  <2> SUFFICES ASSUME PolicyInv PROVE PolicyStoreSound
    OBVIOUS
  <2>1. PolicyTypeOK /\ FilesOK /\ ThreadsOK
    BY DEF PolicyInv, StoreInv
  <2>2. Ctl \in Threads
    BY DEF Threads
  <2>3. th[Ctl].pc = "setnp" => Booting
    BY <2>1, <2>2 DEF ThreadsOK, ThreadOK, Booting
  <2>4. (\E t \in Threads : th[t].pc = "rev2") => Reverting
    BY DEF Reverting, RevertPcs
  <2>5. QED
    BY <2>1, <2>3, <2>4 DEF PolicyStoreSound, StoreUsable, FilesOK
<1>2. QED
  BY <1>1, PolicyInvariant, PTL

-----------------------------------------------------------------------------
(***************************************************************************)
(* What the chains decide                                                   *)
(***************************************************************************)
\* A set of naturals has a least member: of the sets 1..i one contains no
\* other.
LEMMA MinFacts ==
    ASSUME NEW S \in SUBSET Nat, S # {}
    PROVE  Min(S) \in S /\ \A y \in S : Min(S) <= y
<1>1. PICK T : T = {1..i : i \in S}
  OBVIOUS
<1>2. T \subseteq FiniteSubsetsOf(Nat) /\ T # {}
  <2>1. \A i \in S : 1..i \in SUBSET Nat /\ IsFiniteSet(1..i)
    BY FS_Interval
  <2>2. QED
    BY <1>1, <2>1 DEF FiniteSubsetsOf
<1>3. PICK x \in T : \A y \in T : ~(<<y, x>> \in StrictSubsetOrdering(Nat))
  BY <1>2, FS_StrictSubsetOrderingWellFounded, WFMin
<1>4. PICK m \in S : x = 1..m
  BY <1>1
<1>5. ASSUME NEW y \in S PROVE m <= y
  <2>1. 1..y \in T /\ 1..y \in SUBSET Nat /\ x \in SUBSET Nat
    BY <1>1, <1>4
  <2>2. 1..y \subseteq x => 1..y = x
    BY <1>3, <2>1 DEF StrictSubsetOrdering
  <2>3. SUFFICES ASSUME y < m PROVE FALSE
    OBVIOUS
  <2>4. 1..y \subseteq 1..m /\ m \in 1..m /\ m \notin 1..y
    BY <2>3
  <2>5. QED
    BY <1>4, <2>2, <2>4
<1>6. QED
  BY <1>5 DEF Min

\* A packet that no policy matches meets the first verdict of a chain; one
\* that a policy of the chain matches meets that policy.
LEMMA FirstMatchFacts ==
    ASSUME chains \in ChainsType, NEW ch \in {"EW", "OBS", "ENF"}, NEW kind, (ch = "EW") <=> (kind = "ew"),
           NEW v, Ends(ch, v), NEW rule
    PROVE  /\ rule = "" => FirstMatch(ch, kind, rule) = v
           /\ Contains(chains[ch], rule) /\ rule \notin Verdicts =>
                FirstMatch(ch, kind, rule) = IF ch = "OBS" THEN "DROP" ELSE "ACC"
<1>1. PICK row \in Seq(FixedRows \cup Policies) : row = chains[ch]
  BY DEF ChainsType, Chains
<1>2. PICK n \in Nat : n = Len(row) /\ DOMAIN row = 1..n
  OBVIOUS
<1>3. PICK d \in DOMAIN row :
         /\ row[d] = v /\ v \in Verdicts
         /\ \A i \in DOMAIN row : IF i < d THEN row[i] \notin Verdicts \cup {""} ELSE row[i] \in Verdicts
  BY <1>1 DEF Ends, Leads
<1>4. PICK hits : hits = {i \in DOMAIN row : Matches(row[i], kind, rule)}
  OBVIOUS
<1>5. hits \in SUBSET Nat /\ hits \subseteq DOMAIN row /\ \A i \in DOMAIN row : i \in hits <=> row[i] \in Verdicts \/ row[i] = rule
  BY <1>2, <1>4 DEF Matches, Verdicts
<1>6. d \in hits
  BY <1>3, <1>5
<1>7. PICK m \in hits : m = Min(hits) /\ \A y \in hits : m <= y
  BY <1>5, <1>6, MinFacts
<1>8. FirstMatch(ch, kind, rule) = IF row[m] # rule THEN row[m] ELSE IF ch = "OBS" THEN "DROP" ELSE "ACC"
  BY <1>1, <1>4, <1>6, <1>7 DEF FirstMatch
<1>9. m \in DOMAIN row /\ m \in Nat /\ d \in Nat /\ m <= d
  BY <1>2, <1>5, <1>6, <1>7
<1>10. ASSUME rule = "" PROVE row[m] = v /\ v # rule
  <2>1. ~(m < d)
    BY <1>3, <1>5, <1>9, <1>10
  <2>2. m = d
    BY <1>9, <2>1
  <2>3. QED
    BY <1>3, <1>10, <2>2 DEF Verdicts
<1>11. ASSUME Contains(row, rule), rule \notin Verdicts PROVE row[m] = rule
  <2>1. PICK i \in DOMAIN row : row[i] = rule
    BY <1>2, <1>11 DEF Contains
  <2>2. i < d /\ i \in hits /\ i \in Nat
    BY <1>2, <1>3, <1>5, <1>11, <2>1
  <2>3. m < d
    BY <1>7, <1>9, <2>2
  <2>4. QED
    BY <1>3, <1>5, <1>9, <2>3
<1>12. QED
  BY <1>1, <1>8, <1>10, <1>11

\* A packet that reaches the root chain gets the verdict of the chain for its traffic.
LEMMA RootVerdict ==
    ASSUME Contains(chains["FORWARD"], "ROOT"), NEW e \in BOOLEAN, chains["ROOT"] = RootRows(e), NEW rule
    PROVE  /\ FirstMatch("EW", "ew", rule) # "RET" => Verdict("ew", rule) = FirstMatch("EW", "ew", rule)
           /\ FirstMatch(IF e THEN "ENF" ELSE "OBS", "ns", rule) # "RET" =>
                Verdict("ns", rule) = FirstMatch(IF e THEN "ENF" ELSE "OBS", "ns", rule)
<1>1. PICK ns \in {"ENF", "OBS"} : ns = IF e THEN "ENF" ELSE "OBS"
  OBVIOUS
<1>2. PICK root : root = <<"est", "EW", ns, "RET">>
  OBVIOUS
<1>3. chains["ROOT"] = root
  BY <1>1, <1>2 DEF RootRows
<1>4. DOMAIN root = 1..4 /\ root[1] = "est" /\ root[2] = "EW" /\ root[3] = ns /\ root[4] = "RET"
  BY <1>2
<1>5. PICK live : live = {i \in DOMAIN root : \A j \in 1..i : root[j] # "RET"}
  OBVIOUS
<1>6. live = {1, 2, 3}
  <2>1. 4 \notin live
    BY <1>4, <1>5
  <2>2. \A i \in 1..3 : i \in live
    <3> SUFFICES ASSUME NEW i \in 1..3 PROVE i \in live
      OBVIOUS
    <3>1. \A j \in 1..i : j = 1 \/ j = 2 \/ j = 3
      OBVIOUS
    <3>2. QED
      BY <1>4, <1>5, <3>1
  <2>3. live \subseteq 1..4
    BY <1>4, <1>5
  <2>4. 1 \in 1..3 /\ 2 \in 1..3 /\ 3 \in 1..3 /\ \A i \in 1..4 : i = 1 \/ i = 2 \/ i = 3 \/ i = 4
    OBVIOUS
  <2>5. \A i : i \in live <=> i = 1 \/ i = 2 \/ i = 3
    BY <2>1, <2>2, <2>3, <2>4, Zenon
  <2>6. QED
    BY <2>5
<1>7. FirstMatch(ns, "ew", rule) = "RET" /\ FirstMatch("EW", "ns", rule) = "RET"
  BY DEF FirstMatch
<1>8. \A i : Min({i}) = i
  BY DEF Min
<1>9. ASSUME FirstMatch("EW", "ew", rule) # "RET" PROVE Verdict("ew", rule) = FirstMatch("EW", "ew", rule)
  <2>1. PICK hits : hits = {i \in live : root[i] \in {"EW", "OBS", "ENF"} /\ FirstMatch(root[i], "ew", rule) # "RET"}
    OBVIOUS
  <2>2. hits = {2}
    BY <1>4, <1>6, <1>7, <1>9, <2>1
  <2>3. Verdict("ew", rule) = IF hits = {} THEN "RET" ELSE FirstMatch(root[Min(hits)], "ew", rule)
    BY <1>3, <1>5, <2>1 DEF Verdict
  <2>4. QED
    BY <1>4, <1>8, <2>2, <2>3
<1>10. ASSUME FirstMatch(ns, "ns", rule) # "RET" PROVE Verdict("ns", rule) = FirstMatch(ns, "ns", rule)
  <2>1. PICK hits : hits = {i \in live : root[i] \in {"EW", "OBS", "ENF"} /\ FirstMatch(root[i], "ns", rule) # "RET"}
    OBVIOUS
  <2>2. hits = {3}
    BY <1>4, <1>6, <1>7, <1>10, <2>1
  <2>3. Verdict("ns", rule) = IF hits = {} THEN "RET" ELSE FirstMatch(root[Min(hits)], "ns", rule)
    BY <1>3, <1>5, <2>1 DEF Verdict
  <2>4. QED
    BY <1>4, <1>8, <2>2, <2>3
<1>11. QED
  BY <1>1, <1>9, <1>10

\* The verdicts of installed chains, with and without policies.
LEMMA InstalledVerdicts ==
    ASSUME PolicyInv, Skeleton
    PROVE  /\ Verdict("ew", "") = "DROP"
           /\ Verdict("ns", "") = IF Enforcing THEN "DROP" ELSE "ACC"
           /\ \A p \in Ids : Ruled(p) /\ Chain(p) = "EW" => Verdict("ew", Rule(p)) = "ACC"
<1>1. chains \in ChainsType
  BY DEF PolicyInv, StoreInv, ChainsType
<1>2. PICK e \in BOOLEAN : chains["ROOT"] = RootRows(e) /\ (Enforcing <=> e)
  <2>1. RootRows(TRUE)[3] = "ENF" /\ RootRows(FALSE)[3] = "OBS"
    BY DEF RootRows
  <2>2. QED
    BY <2>1 DEF Skeleton, Enforcing
<1>3. Contains(chains["FORWARD"], "ROOT") /\ Ends("EW", "DROP") /\ IF e THEN Ends("ENF", "DROP") ELSE Ends("OBS", "ACC")
  BY <1>2 DEF Skeleton
<1>4. Verdict("ew", "") = "DROP"
  <2>1. FirstMatch("EW", "ew", "") = "DROP"
    BY <1>1, <1>3, FirstMatchFacts
  <2>2. QED
    BY <1>2, <1>3, <2>1, RootVerdict
<1>5. Verdict("ns", "") = IF e THEN "DROP" ELSE "ACC"
  <2>1. CASE e
    <3>1. FirstMatch("ENF", "ns", "") = "DROP"
      BY <1>1, <1>3, <2>1, FirstMatchFacts
    <3>2. QED
      BY <1>2, <1>3, <2>1, <3>1, RootVerdict
  <2>2. CASE ~e
    <3>1. FirstMatch("OBS", "ns", "") = "ACC"
      BY <1>1, <1>3, <2>2, FirstMatchFacts
    <3>2. QED
      BY <1>2, <1>3, <2>2, <3>1, RootVerdict
  <2>3. QED
    BY <2>1, <2>2
<1>6. ASSUME NEW p \in Ids, Ruled(p), Chain(p) = "EW" PROVE Verdict("ew", Rule(p)) = "ACC"
  <2>1. Rule(p) \notin Verdicts
    BY ChainFacts DEF Verdicts
  <2>2. FirstMatch("EW", "ew", Rule(p)) = "ACC"
    BY <1>1, <1>3, <1>6, <2>1, FirstMatchFacts DEF Ruled
  <2>3. QED
    BY <1>2, <1>3, <2>2, RootVerdict
<1>7. QED
  BY <1>2, <1>4, <1>5, <1>6

\* After a commit that no other commit, revert or failing command disturbed,
\* until the next commit or until a revert meets other work, the chains are
\* what the store says: deny between containers unless an applied policy
\* allows it, the mode's verdict towards the outside, a rule for every applied
\* policy and none for one that was never committed.
THEOREM PolicyCommitted == PolicySpec => []CommittedIsInstalled
<1>1. PolicyInv => CommittedIsInstalled
  <2> SUFFICES ASSUME PolicyInv, inst # "no", Content \in Stores
               PROVE  /\ Verdict("ew", "") = "DROP"
                      /\ GetNSMode = "enforce" => Verdict("ns", "") = "DROP"
                      /\ GetNSMode = "observe" => Verdict("ns", "") = "ACC"
                      /\ \A p \in Ids : Status(p) = "applied" => Contains(chains[Chain(p)], Rule(p))
                      /\ \A p \in Policies : Status(p) \in {"before", "unresolved"} => ~Contains(chains[Chain(p)], Rule(p))
                      /\ \A p \in Ids : Status(p) = "applied" /\ Chain(p) = "EW" => Verdict("ew", Rule(p)) = "ACC"
    BY DEF CommittedIsInstalled
  <2>1. Skeleton /\ Shown(Content)
    BY DEF PolicyInv, Installed
  <2>2. GetNSMode = Content.mode
    BY FileFacts DEF GetNSMode, Readable, Load
  <2>3. \A p \in Ids : Status(p) = Content.pol[p]
    BY DEF Status
  <2>4. \A p \in Ids : Status(p) = "applied" => Ruled(p)
    BY <2>1, <2>3 DEF Shown
  <2>5. \A p \in Policies : Ruled(p) => Status(p) \in {"applied", "remove"}
    BY <2>1, <2>3 DEF Shown, Ids
  <2>6. ModeShown(Content, Enforcing)
    BY <2>1 DEF Shown
  <2>7. QED
    BY <2>1, <2>2, <2>4, <2>5, <2>6, InstalledVerdicts DEF ModeShown, Ruled
<1>2. QED
  BY <1>1, PolicyInvariant, PTL

-----------------------------------------------------------------------------
(***************************************************************************)
(* The removal mark                                                         *)
(***************************************************************************)
\* An update of policy q leaves p alone, or sets a status that keeps the mark.
LEMMA UpdateKeepsMark ==
    ASSUME StoreInv, NEW p \in Policies, Status(p) = "remove", NEW q \in Ids, NEW st \in Statuses,
           UpdateStatus(Content, q, st), q # p \/ st \in {"remove", "none"}
    PROVE  files'["path"].pol[p] \in {"remove", "none"}
<1>1. Content \in Stores /\ Content.pol[p] = "remove" /\ p \in Ids /\ Content = files["path"]
  BY DEF Status, Content, Ids
<1>2. Readable(Content) /\ Load(Content) = Content
  BY <1>1, FileFacts DEF Readable, Load
<1>3. CASE ~Found(Content, q)
  BY <1>1, <1>3 DEF UpdateStatus
<1>4. CASE Found(Content, q)
  <2>1. files' = [files EXCEPT !["path"] = WithStatus(Content, q, st)]
    BY <1>2, <1>4 DEF UpdateStatus, Save
  <2>2. files'["path"] = WithStatus(Content, q, st)
    BY <2>1 DEF StoreInv, PolicyTypeOK, Names
  <2>3. QED
    BY <1>1, <2>2, WithStatusFacts
<1>5. QED
  BY <1>3, <1>4

\* A call that no revert has overtaken worked on what is on file, and every
\* step that leaves crossed unset found it unset.
LEMMA NotCrossed ==
    ASSUME StoreInv, PolicyNext, ~crossed'
    PROVE  ~crossed /\ \A c : Overtaken(c) => c = Content
<1>1. \A c : Overtaken(c) => c = Content /\ crossed' = crossed
  BY DEF Overtaken
<1>2. SUFFICES ~crossed
  BY <1>1
<1>3. ASSUME NEW c, Overtaken(c) PROVE ~crossed
  BY <1>1, <1>3
<1>4. CASE \E p \in Policies : AddUserPolicy(p)
  BY <1>3, <1>4 DEF AddUserPolicy
<1>5. CASE \E p \in Policies : RemoveUserPolicy(p)
  BY <1>3, <1>5 DEF RemoveUserPolicy
<1>6. CASE \E r \in Requests : RevertPolicy(r)
  BY <1>6 DEF RevertPolicy
<1>7. ASSUME NEW t \in Threads, PolicyThread(t) PROVE ~crossed
  <2>1. CASE WriteNSMode(t)
    BY <1>3, <2>1 DEF WriteNSMode
  <2>2. CASE \E p \in Ids : DropOrUnresolve(t, p)
    BY <1>3, <2>2 DEF DropOrUnresolve
  <2>3. CASE MarkApplied(t)
    BY <1>3, <2>3 DEF MarkApplied
  <2>4. CASE ReplaceGenerated(t)
    BY <1>3, <2>4 DEF ReplaceGenerated
  <2>5. CASE CopyBackup(t)
    <3>1. PICK buf, out : crossed' = (crossed \/ out # buf)
      BY <2>5 DEF CopyBackup
    <3>2. QED
      BY <3>1
  <2>6. CASE RevertRunning(t)
    BY <2>6 DEF RevertRunning
  <2>7. CASE crossed' = crossed
    BY <2>7
  <2>8. FixNSMode(t) \/ BuildPredefinedPolicy(t) \/ RunCommands(t) \/ ReadPolicies(t) \/ ChainDone(t) => crossed' = crossed
    BY DEF FixNSMode, BuildPredefinedPolicy, RunCommands, ReadPolicies, ChainDone, kernel
  <2>9. (\E p \in Ids : InsertPolicy(t, p)) \/ OpenBackup(t) \/ RevertClean(t) => crossed' = crossed
    BY DEF InsertPolicy, OpenBackup, RevertClean, kernel
  <2>10. GenerateBackendPolicies(t) \/ EqualPolicySets(t) \/ UpdateGeneratedRuleIds(t) \/ UndoApply(t) => crossed' = crossed
    BY DEF GenerateBackendPolicies, EqualPolicySets, UpdateGeneratedRuleIds, UndoApply, kernel
  <2>11. QED
    BY <1>7, <2>1, <2>2, <2>3, <2>4, <2>5, <2>6, <2>7, <2>8, <2>9, <2>10 DEF PolicyThread
<1>8. CASE crossed' = crossed
  BY <1>8
<1>9. RemoveNetworkPolicy \/ (\E a \in Pods : StateHook(a)) \/ ReconcileOnce \/ Crash \/ SetNetworkPolicy => crossed' = crossed
  BY DEF RemoveNetworkPolicy, StateHook, ReconcileOnce, Crash, SetNetworkPolicy, kernel
<1>10. ASSUME NEW r \in Requests,
             \/ \E m \in {"observe", "enforce"} : ChangeNSMode(r, m)
             \/ CommitPolicy(r) \/ ApplyNetworkPolicy(r)
             \/ \E a \in Pods : CreateContainerHook(r, a) \/ PoststopHook(r, a)
      PROVE  crossed' = crossed
  BY <1>10 DEF ChangeNSMode, CommitPolicy, ApplyNetworkPolicy, CreateContainerHook, PoststopHook, HookCommit, kernel
<1>11. QED
  BY <1>4, <1>5, <1>6, <1>7, <1>8, <1>9, <1>10 DEF PolicyNext

\* A step of a thread that meets no revert keeps the removal mark of a policy,
\* or removes it.
LEMMA ThreadKeepsMark ==
    ASSUME StoreInv, NEW t \in Threads, PolicyThread(t), NEW p \in Policies, Status(p) = "remove", p \notin late, ~crossed'
    PROVE  files'["path"].pol[p] \in {"remove", "none"}
<1>0. ~crossed /\ \A c : Overtaken(c) => c = Content
  BY NotCrossed DEF PolicyNext
<1>1. Content \in Stores /\ Content.pol[p] = "remove" /\ p \in Ids /\ Content = files["path"]
  BY DEF Status, Content, Ids
<1>2. Readable(Content) /\ Load(Content) = Content /\ Content # Absent
  BY <1>1, FileFacts DEF Readable, Load
<1>3. files \in [Names -> Stores \cup {Broken, Absent}] /\ "path" \in Names /\ "running" \in Names /\ "org" \in Names
  BY DEF StoreInv, PolicyTypeOK, Names
<1>4. "unresolved" \in Statuses /\ "none" \in Statuses /\ "applied" \in Statuses
  BY DEF Statuses
<1>5. CASE files' = files
  BY <1>1, <1>5
<1>6. CASE WriteNSMode(t)
  <2>1. files'["path"] = [Content EXCEPT !.mode = th[t].mode]
    BY <1>0, <1>2, <1>3, <1>6 DEF WriteNSMode, Save
  <2>2. QED
    BY <1>1, <2>1 DEF Stores
<1>7. CASE \E q \in Ids : DropOrUnresolve(t, q)
  <2>1. PICK q \in Ids : DropOrUnresolve(t, q)
    BY <1>7
  <2>2. th[t].pc = "each" /\ q \in DOMAIN th[t].todo
    BY <2>1 DEF DropOrUnresolve
  <2>3. q = p => th[t].todo[q] = "remove"
    BY <1>0, <2>2 DEF StoreInv, MarksHeld
  <2>4. CASE RemovePolicy(Content, q)
    <3>1. UpdateStatus(Content, q, "none")
      BY <2>4 DEF RemovePolicy, UpdateStatus
    <3>2. QED
      BY <1>4, <3>1, UpdateKeepsMark
  <2>5. CASE th[t].todo[q] # "remove" /\ UpdateStatus(Content, q, "unresolved")
    BY <1>4, <2>3, <2>5, UpdateKeepsMark
  <2>6. QED
    BY <1>0, <2>1, <2>4, <2>5 DEF DropOrUnresolve
<1>8. CASE MarkApplied(t)
  <2>1. th[t].pc = "mark" /\ UpdateStatus(Content, th[t].cur, "applied")
    BY <1>0, <1>8 DEF MarkApplied
  <2>2. th[t].cur \in Ids /\ th[t].cur # p
    BY <1>0, <2>1 DEF StoreInv, ThreadsOK, ThreadOK, MarksHeld
  <2>3. QED
    BY <1>4, <2>1, <2>2, UpdateKeepsMark
<1>9. CASE OpenBackup(t)
  <2>1. files' = [files EXCEPT !["running"] = Broken]
    BY <1>2, <1>9 DEF OpenBackup
  <2>2. QED
    BY <1>1, <1>3, <2>1
<1>10. CASE CopyBackup(t)
  <2>1. th[t].dst = "running"
    BY <1>0, <1>10 DEF CopyBackup, StoreInv, ThreadsOK, ThreadOK
  <2>2. PICK out : files' = [files EXCEPT !["running"] = out]
    BY <1>10, <2>1 DEF CopyBackup
  <2>3. QED
    BY <1>1, <1>3, <2>2
<1>11. CASE RevertRunning(t)
  BY <1>0, <1>2, <1>11 DEF RevertRunning, StoreInv, FilesOK
<1>12. CASE RevertClean(t)
  <2>1. files' = [files EXCEPT !["org"] = Absent]
    BY <1>12 DEF RevertClean
  <2>2. QED
    BY <1>1, <1>3, <2>1
<1>13. CASE ReplaceGenerated(t)
  <2>1. files'["path"] = Replaced(Content, th[t].want)
    BY <1>0, <1>2, <1>3, <1>13 DEF ReplaceGenerated, Save
  <2>2. Replaced(Content, th[t].want).pol[p] = Content.pol[p]
    BY <1>1 DEF Replaced, Stores
  <2>3. QED
    BY <1>1, <2>1, <2>2
<1>14. \/ files' = files \/ WriteNSMode(t) \/ (\E q \in Ids : DropOrUnresolve(t, q)) \/ MarkApplied(t) \/ OpenBackup(t)
       \/ CopyBackup(t) \/ RevertRunning(t) \/ RevertClean(t) \/ ReplaceGenerated(t)
  BY DEF PolicyThread, FixNSMode, BuildPredefinedPolicy, RunCommands, ReadPolicies, ChainDone, InsertPolicy,
         GenerateBackendPolicies, EqualPolicySets, UpdateGeneratedRuleIds, UndoApply
<1>15. QED
  BY <1>5, <1>6, <1>7, <1>8, <1>9, <1>10, <1>11, <1>12, <1>13, <1>14

\* A policy marked for removal keeps its mark until a commit removes it,
\* however many commits run at once; only a mark set while a commit already
\* held the policy in its list can be overwritten, or one that a revert brings
\* back or takes away while other threads are at work.
THEOREM PolicyMarkSticks == PolicySpec => MarkSticks
<1>1. ASSUME PolicyInv, PolicyNext, NEW p \in Policies, Status(p) = "remove", p \notin late,
             files'["path"] \in Stores, ~crossed'
      PROVE  files'["path"].pol[p] \in {"remove", "none"}
  <2>1. Content \in Stores /\ Content.pol[p] = "remove" /\ p \in Ids /\ Content = files["path"] /\ StoreInv
    BY <1>1 DEF Status, Content, Ids, PolicyInv
  <2>2. Readable(Content) /\ Load(Content) = Content /\ Content # Absent
    BY <2>1, FileFacts DEF Readable, Load
  <2>3. files \in [Names -> Stores \cup {Broken, Absent}] /\ "path" \in Names /\ "org" \in Names
    BY <2>1 DEF StoreInv, PolicyTypeOK, Names
  <2>0. \A c : Overtaken(c) => c = Content
    BY <1>1, <2>1, NotCrossed
  <2>4. CASE files' = files
    BY <2>1, <2>4
  <2>5. CASE \E q \in Policies : AddUserPolicy(q)
    <3>1. PICK q \in Policies : AddUserPolicy(q)
      BY <2>5
    <3>2. q # p
      <4>1. ~Referenced(q)
        BY <3>1 DEF AddUserPolicy
      <4>2. Referenced(p)
        BY <2>1, <2>3 DEF Referenced
      <4>3. QED
        BY <4>1, <4>2
    <3>3. files'["path"] = WithStatus(Content, q, "before")
      BY <2>0, <2>2, <2>3, <3>1 DEF AddUserPolicy, Save
    <3>4. q \in Ids /\ "before" \in Statuses
      BY DEF Ids, Statuses
    <3>5. QED
      BY <2>1, <3>2, <3>3, <3>4, WithStatusFacts
  <2>6. CASE \E q \in Policies : RemoveUserPolicy(q)
    <3>1. PICK q \in Policies : UpdateStatus(Content, q, "remove")
      BY <2>0, <2>6 DEF RemoveUserPolicy
    <3>2. q \in Ids /\ "remove" \in Statuses
      BY DEF Ids, Statuses
    <3>3. QED
      BY <1>1, <2>1, <3>1, <3>2, UpdateKeepsMark
  <2>7. CASE \E r \in Requests : RevertPolicy(r)
    <3>1. files' = [files EXCEPT !["org"] = Content, !["path"] = Absent]
      BY <2>2, <2>7 DEF RevertPolicy
    <3>2. files'["path"] = Absent
      BY <2>3, <3>1
    <3>3. QED
      BY <1>1, <3>2, FileFacts
  <2>8. CASE SetNetworkPolicy
    <3>1. files'["path"] = Content
      BY <2>2, <2>3, <2>8 DEF SetNetworkPolicy, Save
    <3>2. QED
      BY <2>1, <3>1
  <2>9. CASE \E t \in Threads : PolicyThread(t)
    BY <1>1, <2>1, <2>9, ThreadKeepsMark
  <2>10. QED
    BY <1>1, <2>4, <2>5, <2>6, <2>7, <2>8, <2>9
    DEF PolicyNext, RemoveNetworkPolicy, ChangeNSMode, CommitPolicy, ApplyNetworkPolicy, CreateContainerHook,
        PoststopHook, HookCommit, StateHook, ReconcileOnce, Crash
<1>2. PolicyInv /\ [PolicyNext]_policyVars =>
        [\A p \in Policies : Status(p) = "remove" /\ files'["path"] \in Stores
           => files'["path"].pol[p] \in {"remove", "none"} \/ p \in late \/ crossed']_policyVars
  BY <1>1
<1>3. QED
  BY <1>2, PolicyInvariant, PTL DEF PolicySpec, MarkSticks
=============================================================================
