----------------------------- MODULE PodProofs -----------------------------
(***************************************************************************)
(* Proofs about pods and their controller: whatever requests do while a     *)
(* tick of the controller decides on lists that are stale, a ReplicaSet has *)
(* no more pods than were asked for, and keeps its template.  And about     *)
(* bottles: their start order, and what a registration, a Stop and a Delete *)
(* leave behind while other requests go on.                                 *)
(***************************************************************************)
EXTENDS PodController, Bottle, FiniteSetTheorems, SequenceTheorems, TLAPS

-----------------------------------------------------------------------------
(***************************************************************************)
(* The inductive invariant                                                  *)
(***************************************************************************)
Frames == [pc : {"idle"} \cup ServicePcs \cup ControllerPcs, job : Jobs, own : BOOLEAN,
           p : Pods \cup {NoPod}, q : Pods \cup {NoPod}, t : Templates,
           found : SUBSET Kinds, todo : SUBSET Pods]
Lists == [pods : [Pods -> PodInfo], tpls : SUBSET Templates, listed : BOOLEAN, skip : BOOLEAN,
          replicas : 0 .. MaxReplicas, todo : SUBSET Pods, n : Nat, failed : BOOLEAN, cand : Pods \cup {NoPod}]

TickPcs == {"idle", "l_templates", "l_pods"}
RsPcs == {"rs_clean", "rs_more", "rs_less", "rs_pods"}
SoloPcs == {"solo", "solo_pods"}
CreatePcs == {"c_template", "c_name", "c_store"}
RemovePcs == {"r_mark", "r_list", "r_member", "r_infra", "r_pod", "r_template", "r_drop"}
StartPcs == {"s_read", "s_infra", "s_member", "s_list", "s_start", "s_flag"}
DeleteRsPcs == {"d_template", "d_drop", "d_list", "d_next"}
DeletePcs == {"x_mark", "x_containers", "x_pod"}
RecreatePcs == {"re_containers", "re_pod"}
RequestJobs == {"none", "apply", "start", "stop", "remove", "delete_rs"}
ListJobs == {"clean", "excess", "new"} \cup RsJobs

\* Whoever stores a pod of the ReplicaSet is the controller: a request stores
\* one of its own template, and what it makes room for has that template too.
\* A template found unreferenced is removed later, when it still is.
RequestOK(f, store) ==
    /\ f.job \in RequestJobs /\ ~f.own
    /\ f.pc \in {"idle"} \cup (ServicePcs \ {"c_owner"})
    /\ f.pc \in CreatePcs => f.job = "apply"
    /\ f.pc \in RemovePcs => f.job \in {"apply", "remove", "delete_rs"}
    /\ f.pc \in StartPcs => f.job \in {"apply", "start"}
    /\ f.pc \in DeleteRsPcs => f.job = "delete_rs"
    /\ f.job = "apply" /\ f.pc \in CreatePcs \cup RemovePcs => f.t = "solo"
    /\ f.job = "apply" /\ f.pc \in RemovePcs /\ f.q \in Pods => store[f.q].state = "none" \/ store[f.q].tpl = "solo"
    /\ f.pc = "d_drop" \/ (f.pc = "r_drop" /\ f.t = "web") => ~rs.exists

\* What the controller's call is for, and what it is about to store or own.
CallOK(f, store) ==
    /\ f.job \in {"none"} \cup ListJobs \cup SoloJobs
    /\ f.job = "none" => f.pc \in TickPcs \cup RsPcs \cup {"rs_end"} \cup SoloPcs
    /\ f.job \in {"clean", "excess"} => f.pc \in DeletePcs
    /\ f.job = "new" => f.pc \in {"c_template", "c_store", "c_owner"} \cup StartPcs \cup DeletePcs
    /\ f.job \in {"restart", "first_start", "solo_restart"} => f.pc \in StartPcs
    /\ f.job = "solo_new" => f.pc \in CreatePcs \cup RemovePcs
    /\ f.job \in {"recreate", "solo_recreate"} =>
           f.pc \in RecreatePcs \cup CreatePcs \cup {"c_owner"} \cup RemovePcs \cup StartPcs
    /\ f.pc \in RecreatePcs \cup RemovePcs => f.q \in Pods
    /\ f.job = "first_start" => f.p \in Pods
    /\ f.pc \in CreatePcs \cup RemovePcs /\ f.own => f.t = "web"
    /\ f.pc = "c_owner" => f.own /\ (f.p \in Pods => store[f.p].state = "none" \/ store[f.p].tpl = "web")
    /\ f.pc \in RemovePcs => store[f.q].state = "none" \/ store[f.q].tpl = f.t
    /\ f.pc = "r_drop" /\ f.t = "web" => ~rs.exists

OwnedAreWeb(list) == \A p \in Pods : list[p].owned => list[p].tpl = "web"
WebOf(list) == {p \in Pods : list[p].state # "none" /\ list[p].tpl = "web"}
SoloOf(list) == {p \in Pods : list[p].tpl = "solo"}
InList(f) == f.job \in ListJobs \/ f.pc \in RsPcs

\* The list is of pods the ReplicaSet had; a pod about to be replaced is one
\* of them that the loop has passed.
ListOK(f, l, store) ==
    /\ \A p \in WebOf(store) : store[p].owned \/ (f.pc = "c_owner" /\ f.p = p)
    /\ \A p \in WebOf(l.pods) : l.pods[p].owned
    /\ InList(f) => l.todo \subseteq WebOf(l.pods)
    /\ f.job = "first_start" => f.p \in WebOf(l.pods) \ l.todo
    /\ f.job = "recreate" /\ f.pc \in RecreatePcs => f.q \in WebOf(l.pods) \ l.todo
    /\ f.job \in {"new", "recreate"} /\ f.pc \in CreatePcs \cup RemovePcs => f.own
    /\ f.pc = "solo_pods" => l.todo \subseteq SoloOf(l.pods)
    /\ f.job \in SoloJobs /\ f.pc \in CreatePcs \cup RemovePcs => f.t = "solo"
    /\ f.job = "solo_recreate" /\ f.pc \in RecreatePcs => f.q \in SoloOf(l.pods)
    /\ f.pc = "rs_clean" => WebOf(store) \subseteq l.todo
    /\ f.job = "clean" => WebOf(store) \subseteq l.todo \cup {f.q}

\* The places that are taken: pods there are, pods the list still holds, and
\* the one about to be replaced; and how many pods are still to be stored.
Held(f, l) ==
    (IF InList(f) THEN l.todo ELSE {})
    \cup (IF f.job = "first_start" THEN {f.p} ELSE {})
    \cup (IF f.job = "recreate" /\ f.pc \in RecreatePcs THEN {f.q} ELSE {})
Owed(f, l) ==
    CASE f.job = "new" -> l.n + (IF f.pc \in CreatePcs THEN 1 ELSE 0)
      [] f.job = "recreate" -> IF f.pc \in CreatePcs \cup RemovePcs THEN 1 ELSE 0
      [] OTHER -> IF f.pc = "rs_more" THEN l.n ELSE 0
Within(f, l, store) == Cardinality(WebOf(store) \cup Held(f, l)) + Owed(f, l) <= MaxReplicas

\* While the ReplicaSet exists, its template does, and until it is scaled it
\* asks for what it was applied with.
RsOK(f, l, store) ==
    /\ ListOK(f, l, store) /\ Within(f, l, store)
    /\ "web" \in tpls
    /\ "scale" \in asked \/ rs.replicas = MaxReplicas

PodInv ==
    /\ PodTypeOK
    /\ \A x \in Reqs : RequestOK(th[x], pod)
    /\ CallOK(th["ctl"], pod)
    /\ OwnedAreWeb(pod) /\ OwnedAreWeb(ctl.pods)
    /\ rs.exists => RsOK(th["ctl"], ctl, pod)

-----------------------------------------------------------------------------
(***************************************************************************)
(* Counting                                                                 *)
(***************************************************************************)
LEMMA PodsFinite == IsFiniteSet(Pods) /\ \A S \in SUBSET Pods : IsFiniteSet(S) /\ Cardinality(S) \in Nat
  <1>1. IsFiniteSet(Pods)
    BY PodAssumption, FS_Interval DEF Pods
  <1>2. ASSUME NEW S \in SUBSET Pods PROVE IsFiniteSet(S) /\ Cardinality(S) \in Nat
    BY <1>1, FS_Subset, FS_CardinalityType
  <1> QED
    BY <1>1, <1>2

\* Fewer pods, and no more owed, stay within the bound.
LEMMA WithinShrinks ==
    ASSUME NEW S \in SUBSET Pods, NEW T \in SUBSET S, NEW a \in Nat, NEW b \in Nat, b <= a,
           Cardinality(S) + a <= MaxReplicas
    PROVE  Cardinality(T) + b <= MaxReplicas
  <1>1. IsFiniteSet(S) /\ Cardinality(S) \in Nat /\ Cardinality(T) \in Nat
    BY PodsFinite
  <1>2. Cardinality(T) <= Cardinality(S)
    BY <1>1, FS_Subset
  <1> QED
    BY <1>1, <1>2, PodAssumption

\* A pod stored that was owed stays within the bound.
LEMMA WithinStores ==
    ASSUME NEW S \in SUBSET Pods, NEW p \in Pods, NEW T \in SUBSET (S \cup {p}), NEW a \in Nat, NEW b \in Nat,
           b + 1 <= a, Cardinality(S) + a <= MaxReplicas
    PROVE  Cardinality(T) + b <= MaxReplicas
  <1>1. IsFiniteSet(S) /\ Cardinality(S) \in Nat
    BY PodsFinite
  <1>2. Cardinality(S \cup {p}) <= Cardinality(S) + 1
    BY <1>1, FS_AddElement
  <1>3. S \cup {p} \in SUBSET Pods
    OBVIOUS
  <1>4. Cardinality(S \cup {p}) \in Nat
    BY <1>3, PodsFinite
  <1>5. Cardinality(S \cup {p}) + b <= MaxReplicas
    BY <1>1, <1>2, <1>4, PodAssumption
  <1> QED
    BY <1>3, <1>5, WithinShrinks

\* A pod taken away and owed instead stays within the bound.
LEMMA WithinTakes ==
    ASSUME NEW S \in SUBSET Pods, NEW q \in S, NEW T \in SUBSET (S \ {q}), NEW a \in Nat, NEW b \in Nat,
           b <= a + 1, Cardinality(S) + a <= MaxReplicas
    PROVE  Cardinality(T) + b <= MaxReplicas
  <1>1. IsFiniteSet(S) /\ Cardinality(S) \in Nat
    BY PodsFinite
  <1>2. Cardinality(S \ {q}) = Cardinality(S) - 1
    BY <1>1, FS_RemoveElement
  <1>3. S \ {q} \in SUBSET Pods
    OBVIOUS
  <1>4. Cardinality(S \ {q}) \in Nat
    BY <1>3, PodsFinite
  <1>5. Cardinality(S \ {q}) + (a + 1) <= MaxReplicas
    BY <1>1, <1>2, <1>4, PodAssumption
  <1>6. a + 1 \in Nat
    OBVIOUS
  <1> QED
    BY <1>3, <1>5, <1>6, WithinShrinks

-----------------------------------------------------------------------------
(***************************************************************************)
(* What a step does to the stored pods                                      *)
(***************************************************************************)
Infos == [Pods -> PodInfo]
Tamed(store, next) ==
    \A p \in Pods : \/ next[p] = NoInfo
                    \/ /\ next[p].tpl = store[p].tpl /\ next[p].owned = store[p].owned
                       /\ next[p].state = "none" <=> store[p].state = "none"

\* What the record of a pod can be.
LEMMA InfoFacts ==
    /\ NoInfo \in PodInfo /\ NoInfo.state = "none" /\ ~NoInfo.owned
    /\ \A i \in PodInfo : i.tpl \in {"solo", "web"} /\ i.owned \in BOOLEAN
  BY DEF NoInfo, PodInfo, Templates

\* A tame change of the store adds no pod of the replica set and changes no owner.
LEMMA TamedKeepsSets ==
    ASSUME NEW store \in Infos, NEW next \in Infos, Tamed(store, next)
    PROVE  /\ WebOf(next) \subseteq WebOf(store)
           /\ OwnedAreWeb(store) => OwnedAreWeb(next)
           /\ \A p \in WebOf(next) : next[p].owned = store[p].owned
           /\ \A p \in Pods : store[p].state = "none" => next[p].state = "none"
           /\ \A p \in Pods : \A t : store[p].state = "none" \/ store[p].tpl = t => next[p].state = "none" \/ next[p].tpl = t
  BY InfoFacts DEF Tamed, WebOf, OwnedAreWeb

\* A tame change of the store keeps what every call under way relies on.
LEMMA TamedKeepsCalls ==
    ASSUME NEW store \in Infos, NEW next \in Infos, Tamed(store, next), NEW f \in Frames
    PROVE  /\ RequestOK(f, store) => RequestOK(f, next)
           /\ CallOK(f, store) => CallOK(f, next)
  <1>1. ASSUME RequestOK(f, store) PROVE RequestOK(f, next)
    BY <1>1, TamedKeepsSets DEF RequestOK
  <1>2. ASSUME CallOK(f, store) PROVE CallOK(f, next)
    <2>1. ASSUME f.pc \in RemovePcs PROVE next[f.q].state = "none" \/ next[f.q].tpl = f.t
      <3>1. f.q \in Pods /\ (store[f.q].state = "none" \/ store[f.q].tpl = f.t)
        BY <1>2, <2>1 DEF CallOK
      <3> QED
        BY <3>1, TamedKeepsSets
    <2>2. ASSUME f.pc = "c_owner", f.p \in Pods PROVE next[f.p].state = "none" \/ next[f.p].tpl = "web"
      BY <1>2, <2>2, TamedKeepsSets DEF CallOK
    <2> QED
      BY <1>2, <2>1, <2>2 DEF CallOK
  <1> QED
    BY <1>1, <1>2

\* What the controller holds are pods, and what it owes is a number.
LEMMA HeldArePods ==
    ASSUME NEW f \in Frames, NEW l \in Lists, NEW store \in Infos, ListOK(f, l, store)
    PROVE  Held(f, l) \in SUBSET Pods /\ Owed(f, l) \in Nat /\ WebOf(store) \cup Held(f, l) \in SUBSET Pods
  <1>1. l.n \in Nat /\ l.todo \in SUBSET Pods /\ WebOf(l.pods) \subseteq Pods /\ WebOf(store) \subseteq Pods
    BY DEF Lists, WebOf
  <1>2. Held(f, l) \in SUBSET Pods
    BY <1>1 DEF Held, ListOK
  <1>3. Owed(f, l) \in Nat
    BY <1>1 DEF Owed
  <1> QED
    BY <1>1, <1>2, <1>3

\* A tame change of the store keeps what the controller's list says.
LEMMA TamedKeepsList ==
    ASSUME NEW store \in Infos, NEW next \in Infos, Tamed(store, next), NEW f \in Frames, NEW l \in Lists,
           ListOK(f, l, store), Within(f, l, store)
    PROVE  ListOK(f, l, next) /\ Within(f, l, next)
  <1>1. ListOK(f, l, next)
    BY TamedKeepsSets DEF ListOK
  <1>2. WebOf(next) \cup Held(f, l) \in SUBSET (WebOf(store) \cup Held(f, l))
    BY TamedKeepsSets
  <1>3. Within(f, l, next)
    BY <1>2, HeldArePods, WithinShrinks DEF Within
  <1> QED
    BY <1>1, <1>3

-----------------------------------------------------------------------------
(***************************************************************************)
(* Steps                                                                    *)
(***************************************************************************)
Typed == /\ pod \in Infos /\ th \in [Threads -> Frames] /\ ctl \in Lists
         /\ tpls \in SUBSET Templates
         /\ rs \in [exists : BOOLEAN, replicas : 0 .. MaxReplicas, waiting : BOOLEAN]
         /\ ctr \in [Pods -> [Kinds -> {"none", "created", "running", "stopped"}]]
         /\ joined \in SUBSET Pods /\ asked \in SUBSET EventKinds /\ events \in 0 .. MaxEvents

\* The type invariant the runs check is the one the proofs use.
LEMMA TypedIsTypeOK == PodTypeOK <=> Typed
  BY DEF PodTypeOK, Typed, Infos, Frames, Lists

\* The rest of the state is well-typed, and the ReplicaSet goes on as it was.
Around ==
    /\ tpls' \in SUBSET Templates
    /\ rs' \in [exists : BOOLEAN, replicas : 0 .. MaxReplicas, waiting : BOOLEAN]
    /\ ctr' \in [Pods -> [Kinds -> {"none", "created", "running", "stopped"}]]
    /\ joined' \in SUBSET Pods /\ asked' \in SUBSET EventKinds /\ events' \in 0 .. MaxEvents
    /\ rs'.exists => /\ rs.exists
                     /\ "web" \in tpls => "web" \in tpls'
                     /\ "scale" \in asked \/ rs.replicas = MaxReplicas => "scale" \in asked' \/ rs'.replicas = MaxReplicas

ControllerOK(f, l, store) ==
    /\ CallOK(f, store) /\ OwnedAreWeb(l.pods)
    /\ rs.exists => ListOK(f, l, store) /\ Within(f, l, store)
MoveOK(x, f, l, store) ==
    IF x = "ctl" THEN ControllerOK(f, l, store) ELSE l = ctl /\ RequestOK(f, store)

\* The threads are the requests and the controller.
LEMMA ThreadFacts ==
    /\ \A x \in Reqs : x \in Threads /\ x # "ctl"
    /\ "ctl" \in Threads
    /\ \A x \in Threads : x = "ctl" \/ x \in Reqs
  BY PodAssumption DEF Threads

\* What the invariant says of the controller and of each thread.
LEMMA InvSays ==
    ASSUME PodInv
    PROVE  /\ Typed /\ OwnedAreWeb(pod)
           /\ ControllerOK(th["ctl"], ctl, pod)
           /\ \A x \in Threads : MoveOK(x, th[x], ctl, pod)
  BY TypedIsTypeOK, ThreadFacts DEF PodInv, RsOK, ControllerOK, MoveOK

\* A step of one thread, told by what becomes of every other.
LEMMA Assembled ==
    ASSUME PodInv, NEW x \in Threads, NEW f \in Frames, NEW l \in Lists, NEW next \in Infos,
           th' = [th EXCEPT ![x] = f], ctl' = l, pod' = next, Around, OwnedAreWeb(next),
           \A y \in Reqs \ {x} : RequestOK(th[y], next), x # "ctl" => RequestOK(f, next),
           ControllerOK(IF x = "ctl" THEN f ELSE th["ctl"], l, next)
    PROVE  PodInv'
  <1>1. th \in [Threads -> Frames] /\ th' \in [Threads -> Frames] /\ th'[x] = f /\ \A y \in Threads \ {x} : th'[y] = th[y]
    BY InvSays DEF Typed
  <1>2. Typed'
    BY <1>1 DEF Typed, Around
  <1>3. PodTypeOK'
    BY <1>2, TypedIsTypeOK, PTL
  <1>4. \A y \in Reqs : RequestOK(th'[y], next)
    BY <1>1, ThreadFacts
  <1>5. ControllerOK(th'["ctl"], l, next)
    BY <1>1, ThreadFacts
  <1>6. ASSUME rs'.exists PROVE RsOK(th["ctl"], ctl, pod)'
    <2>1. rs.exists /\ "web" \in tpls' /\ ("scale" \in asked' \/ rs'.replicas = MaxReplicas)
      BY <1>6 DEF PodInv, RsOK, Around
    <2>2. ListOK(th'["ctl"], l, next) /\ Within(th'["ctl"], l, next)
      BY <1>5, <2>1 DEF ControllerOK
    <2> QED
      BY <2>1, <2>2 DEF RsOK, ListOK, Within, Held, Owed, WebOf, InList, SoloOf
  <1>10. rs'.exists => rs.exists
    BY DEF Around
  <1>7. CallOK(th["ctl"], pod)'
    BY <1>5, <1>10 DEF CallOK, ControllerOK
  <1>8. \A y \in Reqs : RequestOK(th[y], pod)'
    BY <1>4, <1>10 DEF RequestOK
  <1>9. OwnedAreWeb(pod)' /\ OwnedAreWeb(ctl.pods)'
    BY <1>5 DEF OwnedAreWeb, ControllerOK
  <1> QED
    BY <1>3, <1>6, <1>7, <1>8, <1>9 DEF PodInv

\* A step of one thread that treats the stored pods as every step but three does.
LEMMA Moves ==
    ASSUME PodInv, NEW x \in Threads, NEW f \in Frames, NEW l \in Lists, NEW next \in Infos,
           th' = [th EXCEPT ![x] = f], ctl' = l, pod' = next, Tamed(pod, next), Around, MoveOK(x, f, l, pod)
    PROVE  PodInv'
  <1>1. pod \in Infos /\ OwnedAreWeb(pod) /\ \A y \in Threads : th[y] \in Frames
    BY InvSays DEF Typed
  <1>2. OwnedAreWeb(next)
    BY <1>1, TamedKeepsSets
  <1>3. ASSUME NEW y \in Reqs \ {x} PROVE RequestOK(th[y], next)
    BY <1>1, ThreadFacts, TamedKeepsCalls DEF PodInv
  <1>4. x # "ctl" => RequestOK(f, next)
    BY <1>1, TamedKeepsCalls DEF MoveOK
  <1>5. PICK c \in Frames : c = IF x = "ctl" THEN f ELSE th["ctl"]
    BY <1>1, ThreadFacts
  <1>6. ControllerOK(c, l, pod)
    BY <1>5, InvSays DEF MoveOK
  <1>7. ControllerOK(c, l, next)
    BY <1>1, <1>6, TamedKeepsCalls, TamedKeepsList DEF ControllerOK
  <1> QED
    BY <1>2, <1>3, <1>4, <1>5, <1>7, Assembled

-----------------------------------------------------------------------------
(***************************************************************************)
(* Where a call goes on, and where it returns to                            *)
(***************************************************************************)
AllPcs == {"idle"} \cup ServicePcs \cup ControllerPcs

\* A thread at rest holds nothing.
LEMMA FrameFacts ==
    /\ Idle \in Frames /\ Idle.pc = "idle" /\ Idle.job = "none" /\ ~Idle.own /\ Idle.found = {} /\ Idle.todo = {}
    /\ Idle.p = NoPod /\ Idle.q = NoPod /\ Idle.t = "web"
  BY DEF Idle, Frames, Jobs, Templates

\* A frame that goes on is a frame.
LEMMA GoesOn ==
    ASSUME NEW f \in Frames, NEW pc \in AllPcs
    PROVE  [f EXCEPT !.pc = pc] \in Frames
  BY DEF Frames, AllPcs

\* A loop of the controller, and a call it begins.
LoopFrame(f, pc) == [Idle EXCEPT !.pc = pc, !.todo = f.todo]
CallFrame(f, pc, j, q) == [Idle EXCEPT !.pc = pc, !.job = j, !.q = q, !.todo = f.todo]
FullFrame(f, pc, j, p, q) == [Idle EXCEPT !.pc = pc, !.job = j, !.p = p, !.q = q, !.todo = f.todo]

\* A frame back in the loop keeps what is still to do.
LEMMA LoopFrameIs ==
    ASSUME NEW f \in Frames, NEW pc \in AllPcs
    PROVE  /\ LoopFrame(f, pc) \in Frames
           /\ LoopFrame(f, pc).pc = pc /\ LoopFrame(f, pc).job = "none" /\ LoopFrame(f, pc).todo = f.todo
  <1>1. f.todo \in SUBSET Pods /\ Idle \in Frames
    BY FrameFacts DEF Frames
  <1>2. LoopFrame(f, pc) \in Frames
    BY <1>1 DEF Frames, AllPcs, LoopFrame
  <1> QED
    BY <1>1, <1>2, FrameFacts DEF Frames, LoopFrame

\* A frame that calls keeps what is still to do.
LEMMA CallFrameIs ==
    ASSUME NEW f \in Frames, NEW pc \in AllPcs, NEW j \in Jobs, NEW q \in Pods \cup {NoPod}
    PROVE  /\ CallFrame(f, pc, j, q) \in Frames /\ ~CallFrame(f, pc, j, q).own
           /\ CallFrame(f, pc, j, q).pc = pc /\ CallFrame(f, pc, j, q).job = j
           /\ CallFrame(f, pc, j, q).q = q /\ CallFrame(f, pc, j, q).todo = f.todo
  <1>1. f.todo \in SUBSET Pods /\ Idle \in Frames
    BY FrameFacts DEF Frames
  <1>2. CallFrame(f, pc, j, q) \in Frames
    BY <1>1 DEF Frames, AllPcs, CallFrame
  <1> QED
    BY <1>1, <1>2, FrameFacts DEF Frames, CallFrame

\* A frame that calls with both pods set keeps what is still to do.
LEMMA FullFrameIs ==
    ASSUME NEW f \in Frames, NEW pc \in AllPcs, NEW j \in Jobs, NEW p \in Pods \cup {NoPod}, NEW q \in Pods \cup {NoPod}
    PROVE  /\ FullFrame(f, pc, j, p, q) \in Frames /\ ~FullFrame(f, pc, j, p, q).own
           /\ FullFrame(f, pc, j, p, q).pc = pc /\ FullFrame(f, pc, j, p, q).job = j
           /\ FullFrame(f, pc, j, p, q).p = p /\ FullFrame(f, pc, j, p, q).q = q
           /\ FullFrame(f, pc, j, p, q).todo = f.todo
  <1>1. f.todo \in SUBSET Pods /\ Idle \in Frames
    BY FrameFacts DEF Frames
  <1>2. FullFrame(f, pc, j, p, q) \in Frames
    BY <1>1 DEF Frames, AllPcs, FullFrame
  <1> QED
    BY <1>1, <1>2, FrameFacts DEF Frames, FullFrame

\* Within one call, the pc moves on.
LEMMA StaysInCall ==
    ASSUME PodInv, NEW x \in Threads, NEW f \in Frames,
           f.job = th[x].job, f.own = th[x].own, f.p = th[x].p, f.q = th[x].q, f.t = th[x].t \/ f.pc \in StartPcs,
           \E part \in {StartPcs, RemovePcs, CreatePcs, DeletePcs, RecreatePcs} : th[x].pc \in part /\ f.pc \in part,
           f.pc # "c_name" \/ th[x].job # "new", f.pc = "r_drop" => ~Referenced(f.t)
    PROVE  MoveOK(x, f, ctl, pod)
  <1>1. MoveOK(x, th[x], ctl, pod)
    BY InvSays
  <1>2. CASE x # "ctl"
    <2>1. RequestOK(th[x], pod)
      BY <1>1, <1>2 DEF MoveOK
    <2>2. f.pc \in StartPcs \cup RemovePcs \cup CreatePcs
      BY <2>1 DEF RequestOK, DeleteRsPcs, StartPcs, RemovePcs, CreatePcs, DeletePcs, RecreatePcs, ServicePcs
    <2>3. RequestOK(f, pod)
      BY <2>1, <2>2 DEF RequestOK, Referenced, DeleteRsPcs, StartPcs, RemovePcs, CreatePcs, DeletePcs, RecreatePcs, ServicePcs
    <2> QED
      BY <2>3, <1>2 DEF MoveOK
  <1>3. CASE x = "ctl"
    <2>1. ControllerOK(th[x], ctl, pod)
      BY <1>1, <1>3 DEF MoveOK
    <2>2. CallOK(f, pod)
      BY <2>1 DEF ControllerOK, CallOK, Referenced, StartPcs, RemovePcs, CreatePcs, DeletePcs, RecreatePcs, TickPcs, RsPcs, SoloPcs,
                  ListJobs, RsJobs, SoloJobs
    <2>3. InList(f) <=> InList(th[x])
      BY DEF InList, StartPcs, RemovePcs, CreatePcs, DeletePcs, RecreatePcs, RsPcs
    <2>4. Held(f, ctl) = Held(th[x], ctl) /\ Owed(f, ctl) = Owed(th[x], ctl)
      BY <2>3 DEF Held, Owed, StartPcs, RemovePcs, CreatePcs, DeletePcs, RecreatePcs
    <2>5. ASSUME rs.exists PROVE ListOK(f, ctl, pod) /\ Within(f, ctl, pod)
      <3>1. ListOK(th[x], ctl, pod) /\ Within(th[x], ctl, pod)
        BY <2>1, <2>5 DEF ControllerOK
      <3>2. ListOK(f, ctl, pod)
        BY <3>1, <2>3 DEF ListOK, StartPcs, RemovePcs, CreatePcs, DeletePcs, RecreatePcs
      <3> QED
        BY <3>1, <3>2, <2>4 DEF Within
    <2> QED
      BY <2>1, <2>2, <2>5, <1>3 DEF MoveOK, ControllerOK
  <1> QED
    BY <1>2, <1>3

\* The controller's loop goes on over the list it has.
LEMMA Loops ==
    ASSUME pod \in Infos, NEW c \in Frames, NEW l \in Lists, ControllerOK(c, l, pod),
           NEW f \in Frames, NEW m \in Lists, m.pods = l.pods, m.todo \subseteq l.todo, m.n = l.n,
           f.job = "none", f.pc \in {"rs_more", "rs_less", "rs_pods", "rs_end", "solo"},
           f.pc = "rs_more" => c.job = "new", f.pc \in RsPcs => InList(c),
           c.pc # "c_owner" \/ c.p \notin WebOf(pod)
    PROVE  ControllerOK(f, m, pod)
  <1>1. CallOK(f, pod)
    BY DEF CallOK, RsPcs, SoloPcs, TickPcs, ListJobs, SoloJobs, RsJobs, CreatePcs, RemovePcs, RecreatePcs
  <1>2. ASSUME rs.exists PROVE ListOK(f, m, pod) /\ Within(f, m, pod)
    <2>1. ListOK(c, l, pod) /\ Within(c, l, pod) /\ CallOK(c, pod)
      BY <1>2 DEF ControllerOK
    <2>2. Held(f, m) \subseteq Held(c, l)
      BY DEF Held, InList, ListJobs, RsJobs
    <2>3. m.n \in Nat
      BY DEF Lists
    <2>4. Owed(f, m) <= Owed(c, l) /\ Owed(f, m) \in Nat
      <3>1. CASE f.pc = "rs_more"
        <4>1. c.job = "new"
          BY <3>1
        <4>2. Owed(f, m) = m.n /\ Owed(c, l) >= m.n
          BY <3>1, <4>1, <2>3 DEF Owed
        <4> QED
          BY <4>2, <2>3
      <3>2. CASE f.pc # "rs_more"
        <4>1. Owed(f, m) = 0
          BY <3>2 DEF Owed
        <4>2. Owed(c, l) \in Nat
          BY <2>1, HeldArePods
        <4> QED
          BY <4>1, <4>2
      <3> QED
        BY <3>1, <3>2
    <2>5. Within(f, m, pod)
      BY <2>1, <2>2, <2>4, HeldArePods, WithinShrinks DEF Within
    <2>6. \A p \in WebOf(pod) : pod[p].owned
      BY <2>1 DEF ListOK
    <2>7. ListOK(f, m, pod)
      BY <2>1, <2>6 DEF ListOK, InList, ListJobs, RsJobs, SoloJobs, RsPcs
    <2> QED
      BY <2>5, <2>7
  <1>3. OwnedAreWeb(m.pods)
    BY DEF ControllerOK
  <1> QED
    BY <1>1, <1>2, <1>3 DEF ControllerOK

\* Noting a failure changes nothing else in the list.
LEMMA ListFacts ==
    ASSUME NEW l \in Lists
    PROVE  /\ [l EXCEPT !.failed = TRUE] \in Lists
           /\ [l EXCEPT !.failed = TRUE].pods = l.pods /\ [l EXCEPT !.failed = TRUE].todo = l.todo
           /\ [l EXCEPT !.failed = TRUE].n = l.n
  BY DEF Lists

\* What the invariant says of a thread's frame.
LEMMA FrameOf ==
    ASSUME PodInv, NEW x \in Threads
    PROVE  /\ th[x] \in Frames /\ th["ctl"] \in Frames /\ ctl \in Lists /\ pod \in Infos
           /\ x # "ctl" => RequestOK(th[x], pod)
           /\ ControllerOK(th["ctl"], ctl, pod)
  BY InvSays, ThreadFacts DEF Typed, MoveOK

\* Leads(x): one thread's step, short of what it does to the stores.
Leads(x) == \E f \in Frames, l \in Lists : th' = [th EXCEPT ![x] = f] /\ ctl' = l /\ MoveOK(x, f, l, pod)

\* A request at rest relies on nothing.
LEMMA IdleOK == \A store : RequestOK(Idle, store)
  BY FrameFacts DEF RequestOK, DeleteRsPcs, RequestJobs, CreatePcs, RemovePcs, StartPcs

\* A request that returns is at rest.
LEMMA ReturnLeads ==
    ASSUME PodInv, NEW x \in Reqs, Return(x), ctl' = ctl
    PROVE  Leads(x)
  <1>1. x \in Threads /\ x # "ctl" /\ ctl \in Lists
    BY ThreadFacts, FrameOf
  <1> QED
    BY <1>1, FrameFacts, IdleOK DEF Leads, Return, MoveOK

\* The controller that goes back to its loop is where the loop allows.
LEMMA LoopLeads ==
    ASSUME PodInv, NEW pc \in {"rs_more", "rs_less", "rs_pods", "rs_end", "solo"}, Loop(pc), NEW m \in Lists,
           ctl' = m, m.pods = ctl.pods, m.todo \subseteq ctl.todo, m.n = ctl.n,
           pc = "rs_more" => th["ctl"].job = "new", pc \in RsPcs => InList(th["ctl"]),
           th["ctl"].pc # "c_owner" \/ th["ctl"].p \notin WebOf(pod)
    PROVE  Leads("ctl")
  <1>1. th["ctl"] \in Frames /\ ctl \in Lists /\ pod \in Infos /\ ControllerOK(th["ctl"], ctl, pod)
    BY FrameOf, ThreadFacts
  <1> DEFINE f == LoopFrame(th["ctl"], pc)
  <1>2. f \in Frames /\ f.pc = pc /\ f.job = "none"
    <2>1. pc \in AllPcs
      BY DEF AllPcs, ControllerPcs
    <2> QED
      BY <1>1, <2>1, LoopFrameIs
  <1>3. th' = [th EXCEPT !["ctl"] = f]
    BY DEF Loop, LoopFrame
  <1> HIDE DEF f
  <1>4. ControllerOK(f, m, pod)
    BY <1>1, <1>2, Loops
  <1> QED
    BY <1>2, <1>3, <1>4 DEF Leads, MoveOK

\* Which jobs the controller can be doing at which step.
LEMMA JobsOfCtl ==
    ASSUME PodInv
    PROVE  LET c == th["ctl"] IN
           /\ c.pc \in StartPcs => c.job \in {"new"} \cup RsJobs \cup SoloJobs
           /\ c.pc \in CreatePcs \cup {"c_owner"} \cup RemovePcs => c.job \in {"new", "recreate"} \cup SoloJobs
           /\ c.pc \in RemovePcs => c.job # "new"
  BY FrameOf, ThreadFacts DEF ControllerOK, CallOK, StartPcs, CreatePcs, RemovePcs, DeletePcs, RecreatePcs,
     TickPcs, RsPcs, SoloPcs, ListJobs, RsJobs, SoloJobs

\* A start that is done leads where its job goes on.
LEMMA StartDoneLeads ==
    ASSUME PodInv, NEW x \in Threads, th[x].pc \in StartPcs, StartDone(x)
    PROVE  Leads(x)
  <1>0. ctl \in Lists /\ ctl' = ctl
    BY FrameOf DEF StartDone
  <1>1. CASE x # "ctl"
    <2>1. th[x].job \in {"apply", "start"}
      BY <1>1, FrameOf DEF RequestOK
    <2>2. Return(x)
      BY <2>1 DEF StartDone, RsJobs, SoloJobs
    <2> QED
      BY <1>0, <1>1, <2>2, ThreadFacts, ReturnLeads
  <1>2. CASE x = "ctl"
    <2>1. th["ctl"].job \in {"new"} \cup RsJobs \cup SoloJobs /\ th["ctl"].pc # "c_owner"
      BY <1>2, JobsOfCtl DEF StartPcs
    <2>2. CASE th["ctl"].job = "new"
      <3>1. Loop("rs_more") /\ InList(th["ctl"])
        BY <1>2, <2>2 DEF StartDone, InList, ListJobs, RsJobs, SoloJobs
      <3> QED
        BY <1>0, <1>2, <2>1, <2>2, <3>1, LoopLeads
    <2>3. CASE th["ctl"].job \in RsJobs
      <3>1. Loop("rs_pods") /\ InList(th["ctl"])
        BY <1>2, <2>3 DEF StartDone, InList, ListJobs, RsJobs, SoloJobs
      <3> QED
        BY <1>0, <1>2, <2>1, <3>1, LoopLeads
    <2>4. CASE th["ctl"].job \in SoloJobs
      <3>1. Loop("solo")
        BY <1>2, <2>4 DEF StartDone, RsJobs, SoloJobs
      <3> QED
        BY <1>0, <1>2, <2>1, <3>1, LoopLeads DEF RsPcs
    <2> QED
      BY <2>1, <2>2, <2>3, <2>4
  <1> QED
    BY <1>1, <1>2

\* A failure noted touches only the controller's own list.
LEMMA FailedIs ==
    ASSUME PodInv, NEW x \in Threads, Failed(x)
    PROVE  /\ x # "ctl" => ctl' = ctl
           /\ \E m \in Lists : ctl' = m /\ m.pods = ctl.pods /\ m.todo = ctl.todo /\ m.n = ctl.n
  BY FrameOf, ListFacts DEF Failed

\* A create that failed leads where its job goes on.
LEMMA CreateFailedLeads ==
    ASSUME PodInv, NEW x \in Threads, th[x].pc \in CreatePcs \cup {"c_owner"}, CreateFailed(x),
           th[x].pc # "c_owner" \/ th[x].p \notin WebOf(pod)
    PROVE  Leads(x)
  <1>0. Failed(x)
    BY DEF CreateFailed
  <1>1. CASE x # "ctl"
    <2>1. th[x].job = "apply"
      BY <1>1, FrameOf DEF RequestOK, DeleteRsPcs, ServicePcs, CreatePcs
    <2>2. Return(x)
      BY <2>1 DEF CreateFailed, RsJobs, SoloJobs
    <2> QED
      BY <1>0, <1>1, <2>2, ThreadFacts, ReturnLeads, FailedIs
  <1>2. CASE x = "ctl"
    <2>0. PICK m \in Lists : ctl' = m /\ m.pods = ctl.pods /\ m.todo = ctl.todo /\ m.n = ctl.n
      BY <1>0, FailedIs
    <2>1. th["ctl"].job \in {"new", "recreate"} \cup SoloJobs
      BY <1>2, JobsOfCtl
    <2>2. CASE th["ctl"].job = "new"
      <3>1. Loop("rs_end")
        BY <1>2, <2>2 DEF CreateFailed, RsJobs, SoloJobs
      <3> QED
        BY <2>0, <1>2, <3>1, LoopLeads DEF RsPcs
    <2>3. CASE th["ctl"].job = "recreate"
      <3>1. Loop("rs_pods") /\ InList(th["ctl"])
        BY <1>2, <2>3 DEF CreateFailed, InList, ListJobs, RsJobs, SoloJobs
      <3> QED
        BY <2>0, <1>2, <3>1, LoopLeads
    <2>4. CASE th["ctl"].job \in SoloJobs
      <3>1. Loop("solo")
        BY <1>2, <2>4 DEF CreateFailed, RsJobs, SoloJobs
      <3> QED
        BY <2>0, <1>2, <3>1, LoopLeads DEF RsPcs
    <2> QED
      BY <2>1, <2>2, <2>3, <2>4
  <1> QED
    BY <1>1, <1>2

\* A removal that is done leads where its job goes on.
LEMMA RemoveDoneLeads ==
    ASSUME PodInv, NEW x \in Threads, th[x].pc \in RemovePcs, RemoveDone(x), ctl' = ctl
    PROVE  Leads(x)
  <1>0. ctl \in Lists /\ th[x] \in Frames
    BY FrameOf
  <1>1. CASE x # "ctl" /\ th[x].job = "remove"
    BY <1>1, ThreadFacts, ReturnLeads DEF RemoveDone
  <1>2. CASE x # "ctl" /\ th[x].job # "remove"
    <2>1. RequestOK(th[x], pod) /\ th[x].job \in {"apply", "delete_rs"}
      BY <1>2, FrameOf DEF RequestOK
    <2> DEFINE f == [th[x] EXCEPT !.pc = IF th[x].job = "delete_rs" THEN "d_next" ELSE "c_store"]
    <2>2. th' = [th EXCEPT ![x] = f]
      BY <1>2, <2>1, InvSays DEF RemoveDone, Goto, Typed
    <2>3. f \in Frames /\ f.pc = (IF th[x].job = "delete_rs" THEN "d_next" ELSE "c_store") /\ f.job = th[x].job
          /\ f.own = th[x].own /\ f.t = th[x].t
      BY <1>0, <2>1 DEF Frames, ServicePcs
    <2>4. RequestOK(f, pod)
      BY <2>1, <2>3 DEF RequestOK, DeleteRsPcs, ServicePcs, CreatePcs, RemovePcs, StartPcs
    <2> QED
      BY <1>0, <1>2, <2>2, <2>3, <2>4 DEF Leads, MoveOK
  <1>3. CASE x = "ctl"
    <2>1. ControllerOK(th[x], ctl, pod) /\ th[x].job \in {"recreate"} \cup SoloJobs
      BY <1>3, FrameOf, JobsOfCtl
    <2> DEFINE f == [th[x] EXCEPT !.pc = "c_store"]
    <2>2. th' = [th EXCEPT ![x] = f]
      BY <1>3, <2>1, InvSays DEF RemoveDone, Goto, Typed, SoloJobs
    <2>3. f \in Frames /\ f.pc = "c_store" /\ f.job = th[x].job
          /\ f.own = th[x].own /\ f.t = th[x].t /\ f.p = th[x].p /\ f.q = th[x].q
      BY <1>0, <2>1 DEF Frames, ServicePcs
    <2> HIDE DEF f
    <2>4. CallOK(f, pod)
      BY <2>1, <2>3 DEF ControllerOK, CallOK, StartPcs, RemovePcs, CreatePcs, DeletePcs, RecreatePcs, TickPcs, RsPcs, SoloPcs, ListJobs, RsJobs, SoloJobs
    <2>5. ASSUME rs.exists PROVE ListOK(f, ctl, pod) /\ Within(f, ctl, pod)
      <3>1. ListOK(th[x], ctl, pod) /\ Within(th[x], ctl, pod)
        BY <2>1, <2>5 DEF ControllerOK
      <3>2. InList(f) <=> InList(th[x])
        BY <2>3 DEF InList, RsPcs, RemovePcs
      <3>3. Held(f, ctl) = Held(th[x], ctl) /\ Owed(f, ctl) = Owed(th[x], ctl)
        BY <2>1, <2>3, <3>2 DEF Held, Owed, RemovePcs, CreatePcs, RecreatePcs, SoloJobs
      <3>4. ListOK(f, ctl, pod)
        BY <2>1, <2>3, <3>1, <3>2 DEF ListOK, RemovePcs, CreatePcs, RecreatePcs, RsPcs, SoloJobs
      <3> QED
        BY <3>1, <3>3, <3>4 DEF Within
    <2> QED
      BY <1>0, <1>3, <2>1, <2>2, <2>3, <2>4, <2>5 DEF Leads, MoveOK, ControllerOK
  <1> QED
    BY <1>1, <1>2, <1>3

\* A start that failed leads where its job goes on.
LEMMA StartFailedLeads ==
    ASSUME PodInv, NEW x \in Threads, th[x].pc \in StartPcs, StartFailed(x)
    PROVE  Leads(x)
  <1>0. Failed(x) /\ th[x] \in Frames /\ th[x].p \in Pods \cup {NoPod}
    BY FrameOf DEF StartFailed, Frames
  <1>1. CASE x # "ctl"
    <2>1. th[x].job \in {"apply", "start"}
      BY <1>1, FrameOf DEF RequestOK
    <2>2. CASE th[x].job = "start"
      <3>1. Return(x)
        BY <2>2 DEF StartFailed, RsJobs, SoloJobs
      <3> QED
        BY <1>0, <1>1, <3>1, ThreadFacts, ReturnLeads, FailedIs
    <2>3. CASE th[x].job = "apply"
      <3> DEFINE f == CallFrame(th[x], "r_mark", "remove", th[x].p)
      <3>1. th' = [th EXCEPT ![x] = f]
        BY <2>3 DEF StartFailed, RsJobs, SoloJobs, CallFrame
      <3>2. "r_mark" \in AllPcs /\ "remove" \in Jobs
        BY DEF AllPcs, ServicePcs, Jobs
      <3>3. f \in Frames /\ f.pc = "r_mark" /\ f.job = "remove" /\ ~f.own
        BY <1>0, <3>2, CallFrameIs
      <3> HIDE DEF f
      <3>4. RequestOK(f, pod)
        BY <3>3 DEF RequestOK, DeleteRsPcs, RequestJobs, ServicePcs, CreatePcs, RemovePcs, StartPcs
      <3> QED
        BY <1>0, <1>1, <3>1, <3>3, <3>4, FailedIs, FrameOf DEF Leads, MoveOK
    <2> QED
      BY <2>1, <2>2, <2>3
  <1>2. CASE x = "ctl"
    <2>0. PICK m \in Lists : ctl' = m /\ m.pods = ctl.pods /\ m.todo = ctl.todo /\ m.n = ctl.n
      BY <1>0, FailedIs
    <2>1. th["ctl"].job \in {"new"} \cup RsJobs \cup SoloJobs /\ th["ctl"].pc # "c_owner"
      BY <1>2, JobsOfCtl DEF StartPcs
    <2>2. ControllerOK(th["ctl"], ctl, pod) /\ OwnedAreWeb(m.pods)
      BY <2>0, FrameOf, ThreadFacts DEF ControllerOK
    <2>3. CASE th["ctl"].job = "new"
      <3> DEFINE f == CallFrame(th["ctl"], "x_mark", "new", th["ctl"].p)
      <3>1. th' = [th EXCEPT !["ctl"] = f]
        BY <1>2, <2>3 DEF StartFailed, RsJobs, SoloJobs, CallFrame
      <3>2. "x_mark" \in AllPcs /\ "new" \in Jobs
        BY DEF AllPcs, ControllerPcs, Jobs
      <3>3. f \in Frames /\ f.pc = "x_mark" /\ f.job = "new" /\ ~f.own
        BY <1>0, <1>2, <3>2, CallFrameIs
      <3> HIDE DEF f
      <3>4. CallOK(f, pod)
        BY <3>3 DEF CallOK, ListJobs, RsJobs, SoloJobs, CreatePcs, RemovePcs, DeletePcs, RecreatePcs
      <3>5. ASSUME rs.exists PROVE ListOK(f, m, pod) /\ Within(f, m, pod)
        <4>1. ListOK(th["ctl"], ctl, pod) /\ Within(th["ctl"], ctl, pod)
          BY <2>2, <3>5 DEF ControllerOK
        <4>2. Held(f, m) = Held(th["ctl"], ctl) /\ Owed(f, m) = Owed(th["ctl"], ctl)
          BY <1>2, <2>0, <2>3, <3>3 DEF Held, Owed, InList, ListJobs, RsJobs, CreatePcs, StartPcs
        <4>3. ListOK(f, m, pod)
          BY <2>0, <2>1, <2>3, <3>3, <4>1 DEF ListOK, InList, ListJobs, RsJobs, SoloJobs, CreatePcs, RemovePcs, RecreatePcs
        <4> QED
          BY <4>1, <4>2, <4>3, <2>0 DEF Within
      <3> QED
        BY <1>2, <2>0, <2>2, <3>1, <3>3, <3>4, <3>5 DEF Leads, MoveOK, ControllerOK
    <2>4. CASE th["ctl"].job = "first_start"
      <3> DEFINE f == CallFrame(th["ctl"], "re_containers", "recreate", th["ctl"].p)
      <3>1. th' = [th EXCEPT !["ctl"] = f]
        BY <1>2, <2>4 DEF StartFailed, RsJobs, SoloJobs, CallFrame
      <3>2. "re_containers" \in AllPcs /\ "recreate" \in Jobs
        BY DEF AllPcs, ControllerPcs, Jobs, RsJobs
      <3>3. f \in Frames /\ f.pc = "re_containers" /\ f.job = "recreate" /\ ~f.own /\ f.q = th["ctl"].p
        BY <1>0, <1>2, <3>2, CallFrameIs
      <3> HIDE DEF f
      <3>4. CallOK(f, pod)
        BY <2>2, <2>4, <3>3 DEF ControllerOK, CallOK, ListJobs, RsJobs, SoloJobs, CreatePcs, RemovePcs, DeletePcs, RecreatePcs
      <3>5. ASSUME rs.exists PROVE ListOK(f, m, pod) /\ Within(f, m, pod)
        <4>1. ListOK(th["ctl"], ctl, pod) /\ Within(th["ctl"], ctl, pod)
          BY <2>2, <3>5 DEF ControllerOK
        <4>2. Held(f, m) = Held(th["ctl"], ctl) /\ Owed(f, m) = Owed(th["ctl"], ctl)
          BY <1>2, <2>0, <2>4, <3>3 DEF Held, Owed, InList, ListJobs, RsJobs, CreatePcs, StartPcs, RecreatePcs, RemovePcs
        <4>3. ListOK(f, m, pod)
          BY <2>0, <2>1, <2>4, <3>3, <4>1 DEF ListOK, InList, ListJobs, RsJobs, SoloJobs, CreatePcs, RemovePcs, RecreatePcs
        <4> QED
          BY <4>1, <4>2, <4>3, <2>0 DEF Within
      <3> QED
        BY <1>2, <2>0, <2>2, <3>1, <3>3, <3>4, <3>5 DEF Leads, MoveOK, ControllerOK
    <2>5. CASE th["ctl"].job \in {"recreate", "restart"}
      <3>1. Loop("rs_pods") /\ InList(th["ctl"])
        BY <1>2, <2>5 DEF StartFailed, InList, ListJobs, RsJobs, SoloJobs
      <3> QED
        BY <2>0, <1>2, <2>1, <3>1, LoopLeads
    <2>6. CASE th["ctl"].job \in SoloJobs
      <3>1. Loop("solo")
        BY <1>2, <2>6 DEF StartFailed, RsJobs, SoloJobs
      <3> QED
        BY <2>0, <1>2, <2>1, <3>1, LoopLeads DEF RsPcs
    <2> QED
      BY <2>1, <2>3, <2>4, <2>5, <2>6 DEF RsJobs
  <1> QED
    BY <1>1, <1>2

-----------------------------------------------------------------------------
(***************************************************************************)
(* The calls of PodService                                                  *)
(***************************************************************************)
LEMMA LeadsKeeps ==
    ASSUME PodInv, NEW x \in Threads, Leads(x), pod' \in Infos, Tamed(pod, pod'), Around
    PROVE  PodInv'
  <1>1. PICK f \in Frames, l \in Lists : th' = [th EXCEPT ![x] = f] /\ ctl' = l /\ MoveOK(x, f, l, pod)
    BY DEF Leads
  <1>2. PICK next \in Infos : next = pod'
    OBVIOUS
  <1> QED
    BY <1>1, <1>2, Moves

\* The single changes of the store that are tame.
LEMMA TamedForms ==
    ASSUME PodInv
    PROVE  /\ pod \in Infos /\ Tamed(pod, pod)
           /\ \A p \in Pods : [pod EXCEPT ![p] = NoInfo] \in Infos /\ Tamed(pod, [pod EXCEPT ![p] = NoInfo])
           /\ \A p \in Pods : \A b \in BOOLEAN :
                  [pod EXCEPT ![p].stopped = b] \in Infos /\ Tamed(pod, [pod EXCEPT ![p].stopped = b])
           /\ \A p \in Pods : \A s \in {"created", "running", "stopped", "degraded"} : pod[p].state # "none" =>
                  [pod EXCEPT ![p].state = s] \in Infos /\ Tamed(pod, [pod EXCEPT ![p].state = s])
  <1>1. pod \in Infos
    BY InvSays DEF Typed
  <1>2. ASSUME NEW p \in Pods PROVE [pod EXCEPT ![p] = NoInfo] \in Infos /\ Tamed(pod, [pod EXCEPT ![p] = NoInfo])
    BY <1>1, InfoFacts DEF Infos, Tamed
  <1>3. ASSUME NEW p \in Pods, NEW b \in BOOLEAN
        PROVE  [pod EXCEPT ![p].stopped = b] \in Infos /\ Tamed(pod, [pod EXCEPT ![p].stopped = b])
    BY <1>1 DEF Infos, Tamed, PodInfo
  <1>4. ASSUME NEW p \in Pods, NEW s \in {"created", "running", "stopped", "degraded"}, pod[p].state # "none"
        PROVE  [pod EXCEPT ![p].state = s] \in Infos /\ Tamed(pod, [pod EXCEPT ![p].state = s])
    BY <1>1, <1>4 DEF Infos, Tamed, PodInfo
  <1>5. Tamed(pod, pod)
    BY DEF Tamed
  <1> QED
    BY <1>1, <1>2, <1>3, <1>4, <1>5

\* Setting a state, dropping a pod and changing nothing are tame.
LEMMA StatesKept ==
    ASSUME PodInv, NEW p, NEW s \in {"created", "running", "stopped", "degraded"}
    PROVE  /\ Exists(p) /\ SetState(p, s) => pod' \in Infos /\ Tamed(pod, pod')
           /\ Exists(p) /\ Drop(p) => pod' \in Infos /\ Tamed(pod, pod')
           /\ UNCHANGED pod => pod' \in Infos /\ Tamed(pod, pod')
           /\ \A b \in BOOLEAN : Exists(p) /\ pod' = [pod EXCEPT ![p].stopped = b] => pod' \in Infos /\ Tamed(pod, pod')
  BY TamedForms DEF Exists, SetState, Drop

CtrTyped == ctr' \in [Pods -> [Kinds -> {"none", "created", "running", "stopped"}]] /\ joined' \in SUBSET Pods
Asks == UNCHANGED <<asked, events>> \/ \E k \in EventKinds : Event(k)

\* What surrounds the store stands still while templates and replica set do.
LEMMA AroundStill ==
    ASSUME PodInv, UNCHANGED <<tpls, rs>>, CtrTyped, Asks
    PROVE  Around
  <1>1. Typed
    BY InvSays
  <1>2. asked' \in SUBSET EventKinds /\ events' \in 0 .. MaxEvents /\ asked \subseteq asked'
    BY <1>1, PodAssumption DEF Asks, Event, Typed
  <1> QED
    BY <1>1, <1>2 DEF Around, CtrTyped, Typed

\* The containers stay typed when they do not change.
LEMMA CtrUnchanged == ASSUME PodInv, UNCHANGED ctrVars PROVE CtrTyped
  BY InvSays DEF Typed, CtrTyped, ctrVars

\* The containers stay typed when one of them changes its state.
LEMMA CtrChanged ==
    ASSUME PodInv, NEW p, NEW k \in Kinds, NEW s \in {"none", "created", "running", "stopped"},
           ctr' = [ctr EXCEPT ![p][k] = s], joined' \in SUBSET Pods
    PROVE  CtrTyped
  BY InvSays DEF Typed, CtrTyped, Kinds

\* One thread's step that leaves templates and the ReplicaSet alone.
LEMMA StepKeeps ==
    ASSUME PodInv, NEW x \in Threads, Leads(x), pod' \in Infos, Tamed(pod, pod'), UNCHANGED <<tpls, rs>>, CtrTyped, Asks
    PROVE  PodInv'
  BY AroundStill, LeadsKeeps

\* The pc moves on within a call, perhaps with another set of containers.
NextFrame(f, pc, found) == [f EXCEPT !.pc = pc, !.found = found]
StepsTo(x, pc) == \E found \in SUBSET Kinds : th' = [th EXCEPT ![x] = NextFrame(th[x], pc, found)]
InOneCall(a, b) == \E part \in {StartPcs, RemovePcs, CreatePcs, DeletePcs, RecreatePcs} : a \in part /\ b \in part

\* A thread that goes on within one call is where the call allows.
LEMMA GoesOnLeads ==
    ASSUME PodInv, NEW x \in Threads, NEW pc, StepsTo(x, pc), UNCHANGED ctl, InOneCall(th[x].pc, pc),
           pc # "c_name" \/ th[x].job # "new", pc = "r_drop" => ~Referenced(th[x].t)
    PROVE  Leads(x)
  <1>0. PICK found \in SUBSET Kinds : th' = [th EXCEPT ![x] = NextFrame(th[x], pc, found)]
    BY DEF StepsTo
  <1> DEFINE f == NextFrame(th[x], pc, found)
  <1>1. pc \in AllPcs
    BY DEF InOneCall, AllPcs, ServicePcs, ControllerPcs, StartPcs, RemovePcs, CreatePcs, DeletePcs, RecreatePcs
  <1>2. f \in Frames /\ f.pc = pc /\ f.job = th[x].job /\ f.own = th[x].own /\ f.p = th[x].p /\ f.q = th[x].q
        /\ f.t = th[x].t /\ f.todo = th[x].todo
    BY <1>1, FrameOf DEF Frames, AllPcs, NextFrame
  <1>3. th' = [th EXCEPT ![x] = f]
    BY <1>0
  <1> HIDE DEF f
  <1>4. MoveOK(x, f, ctl, pod)
    BY <1>2, StaysInCall DEF InOneCall
  <1> QED
    BY <1>2, <1>3, <1>4, FrameOf DEF Leads

\* A thread that goes on keeps the rest of its frame.
LEMMA GotoIs == ASSUME PodInv, NEW x \in Threads, NEW pc, Goto(x, pc) PROVE StepsTo(x, pc)
  <1>1. th[x] \in Frames /\ th \in [Threads -> Frames]
    BY FrameOf, InvSays DEF Typed
  <1>2. NextFrame(th[x], pc, th[x].found) = [th[x] EXCEPT !.pc = pc]
    BY <1>1 DEF Frames, NextFrame
  <1>3. th' = [th EXCEPT ![x] = [th[x] EXCEPT !.pc = pc]]
    BY <1>1 DEF Goto
  <1>4. th[x].found \in SUBSET Kinds
    BY <1>1 DEF Frames
  <1> QED
    BY <1>2, <1>3, <1>4 DEF StepsTo

\* CreateTemplate keeps PodInv.
LEMMA CreateTemplateKeeps == ASSUME PodInv, NEW x \in Threads, CreateTemplate(x) PROVE PodInv'
  <1>1. th[x].pc = "c_template" /\ UNCHANGED <<pod, tpls, rs>> /\ UNCHANGED ctrVars /\ Asks
    BY DEF CreateTemplate, At, psmVars, eventVars, Asks
  <1>2. Leads(x)
    <2>1. CASE th[x].t \in tpls
      <3>1. PICK pc \in {"c_store", "c_name"} : Goto(x, pc) /\ UNCHANGED ctl /\ (pc # "c_name" \/ th[x].job # "new")
        BY <2>1 DEF CreateTemplate
      <3>2. InOneCall(th[x].pc, pc)
        BY <1>1 DEF InOneCall, CreatePcs
      <3> QED
        BY <3>1, <3>2, GotoIs, GoesOnLeads
    <2>2. CASE th[x].t \notin tpls
      <3>1. CreateFailed(x) /\ th[x].pc \in CreatePcs \cup {"c_owner"} /\ th[x].pc # "c_owner"
        BY <1>1, <2>2 DEF CreateTemplate, CreatePcs
      <3> QED
        BY <3>1, CreateFailedLeads
    <2> QED
      BY <2>1, <2>2
  <1> QED
    BY <1>1, <1>2, CtrUnchanged, TamedForms, StepKeeps

\* CreateName keeps PodInv.
LEMMA CreateNameKeeps == ASSUME PodInv, NEW x \in Threads, CreateName(x) PROVE PodInv'
  <1>1. th[x].pc = "c_name" /\ UNCHANGED <<pod, tpls, rs>> /\ UNCHANGED ctrVars /\ UNCHANGED ctl /\ Asks
    BY DEF CreateName, At, psmVars, eventVars, Asks
  <1>2. Leads(x)
    <2>1. CASE Goto(x, "c_store")
      <3>1. InOneCall(th[x].pc, "c_store")
        BY <1>1 DEF InOneCall, CreatePcs
      <3> QED
        BY <1>1, <2>1, <3>1, GotoIs, GoesOnLeads
    <2>2. ASSUME NEW q \in Pods, Exists(q), pod[q].tpl = th[x].t, th' = [th EXCEPT ![x].pc = "r_mark", ![x].q = q]
          PROVE  Leads(x)
      <3> DEFINE f == [th[x] EXCEPT !.pc = "r_mark", !.q = q]
      <3>0. th[x] \in Frames /\ th \in [Threads -> Frames] /\ ctl \in Lists
        BY FrameOf, InvSays DEF Typed
      <3>1. f \in Frames /\ f.pc = "r_mark" /\ f.job = th[x].job /\ f.own = th[x].own /\ f.p = th[x].p /\ f.q = q /\ f.t = th[x].t
        BY <3>0 DEF Frames, ServicePcs
      <3>2. th' = [th EXCEPT ![x] = f]
        BY <2>2, <3>0
      <3> HIDE DEF f
      <3>3. CASE x # "ctl"
        <4>1. RequestOK(th[x], pod) /\ th[x].job = "apply" /\ th[x].t = "solo"
          BY <1>1, <3>3, FrameOf DEF RequestOK, DeleteRsPcs, CreatePcs
        <4>2. RequestOK(f, pod)
          BY <2>2, <3>1, <4>1 DEF RequestOK, DeleteRsPcs, ServicePcs, CreatePcs, StartPcs, RequestJobs
        <4> QED
          BY <1>1, <3>0, <3>1, <3>2, <3>3, <4>2 DEF Leads, MoveOK
      <3>4. CASE x = "ctl"
        <4>1. ControllerOK(th[x], ctl, pod) /\ th[x].job \in {"recreate"} \cup SoloJobs
          <5>1. th[x].job # "new"
            BY <1>1, <3>4, FrameOf DEF ControllerOK, CallOK, StartPcs, DeletePcs
          <5> QED
            BY <1>1, <3>4, <5>1, FrameOf, JobsOfCtl DEF CreatePcs
        <4>2. CallOK(f, pod)
          BY <1>1, <2>2, <3>1, <4>1 DEF ControllerOK, CallOK, ListJobs, RsJobs, SoloJobs, CreatePcs, RemovePcs, StartPcs, RecreatePcs
        <4>3. ASSUME rs.exists PROVE ListOK(f, ctl, pod) /\ Within(f, ctl, pod)
          <5>1. ListOK(th[x], ctl, pod) /\ Within(th[x], ctl, pod)
            BY <4>1, <4>3 DEF ControllerOK
          <5>2. Held(f, ctl) = Held(th[x], ctl) /\ Owed(f, ctl) = Owed(th[x], ctl)
            BY <1>1, <3>1, <4>1 DEF Held, Owed, InList, RsPcs, RemovePcs, CreatePcs, RecreatePcs, SoloJobs
          <5>3. ListOK(f, ctl, pod)
            BY <1>1, <3>1, <4>1, <5>1 DEF ListOK, InList, ListJobs, RsJobs, RsPcs, RemovePcs, CreatePcs, RecreatePcs, SoloJobs
          <5> QED
            BY <5>1, <5>2, <5>3 DEF Within
        <4> QED
          BY <1>1, <3>0, <3>1, <3>2, <3>4, <4>1, <4>2, <4>3 DEF Leads, MoveOK, ControllerOK
      <3> QED
        BY <3>3, <3>4
    <2> QED
      BY <2>1, <2>2 DEF CreateName
  <1> QED
    BY <1>1, <1>2, CtrUnchanged, TamedForms, StepKeeps

\* RemoveMark keeps PodInv.
LEMMA RemoveMarkKeeps == ASSUME PodInv, NEW x \in Threads, RemoveMark(x) PROVE PodInv'
  <1>1. th[x].pc = "r_mark" /\ UNCHANGED <<tpls, rs>> /\ UNCHANGED ctrVars /\ UNCHANGED ctl /\ Asks
    BY DEF RemoveMark, At, eventVars, Asks
  <1>2. CASE ~Exists(th[x].q)
    <2>1. RemoveDone(x) /\ UNCHANGED pod /\ th[x].pc \in RemovePcs
      BY <1>1, <1>2 DEF RemoveMark, RemovePcs
    <2>2. Leads(x)
      BY <1>1, <2>1, RemoveDoneLeads
    <2> QED
      BY <1>1, <2>1, <2>2, CtrUnchanged, TamedForms, StepKeeps
  <1>3. CASE Exists(th[x].q)
    <2> DEFINE q == th[x].q
               f == [th[x] EXCEPT !.pc = "r_list", !.t = pod[q].tpl]
    <2>0. th[x] \in Frames /\ th \in [Threads -> Frames] /\ ctl \in Lists /\ pod \in Infos /\ q \in Pods
      BY <1>3, FrameOf, InvSays DEF Typed, Exists
    <2>1. pod' = [pod EXCEPT ![q].stopped = TRUE] /\ th' = [th EXCEPT ![x] = f]
      BY <1>3, <2>0 DEF RemoveMark
    <2>2. pod[q].tpl \in Templates
      BY <2>0 DEF Infos, PodInfo
    <2>3. f \in Frames /\ f.pc = "r_list" /\ f.job = th[x].job /\ f.own = th[x].own /\ f.p = th[x].p /\ f.q = q /\ f.t = pod[q].tpl
      BY <2>0, <2>2 DEF Frames, ServicePcs
    <2> HIDE DEF f, q
    <2>4. ASSUME x # "ctl" PROVE Leads(x)
      <3>1. RequestOK(th[x], pod)
        BY <2>4, FrameOf
      <3>2. f.job = "apply" => f.t = "solo"
        BY <1>1, <1>3, <2>0, <2>3, <3>1 DEF RequestOK, DeleteRsPcs, RemovePcs, Exists, q
      <3>3. RequestOK(f, pod)
        BY <1>1, <2>3, <3>1, <3>2 DEF RequestOK, DeleteRsPcs, ServicePcs, RemovePcs, StartPcs, CreatePcs, q
      <3>4. MoveOK(x, f, ctl, pod)
        BY <2>4, <3>3 DEF MoveOK
      <3> QED
        BY <1>1, <2>0, <2>1, <2>3, <3>4 DEF Leads
    <2>5. ASSUME x = "ctl" PROVE Leads(x)
      <3>1. ControllerOK(th[x], ctl, pod) /\ th[x].job \in {"recreate"} \cup SoloJobs
        BY <1>1, <2>5, FrameOf, JobsOfCtl DEF RemovePcs
      <3>2. pod[q].tpl = th[x].t
        BY <1>1, <1>3, <3>1 DEF ControllerOK, CallOK, RemovePcs, Exists, q
      <3>3. f.t = th[x].t
        BY <2>3, <3>2
      <3>4. th[x].pc \in RemovePcs /\ f.pc \in RemovePcs /\ f.pc # "c_name"
        BY <1>1, <2>3 DEF RemovePcs
      <3>5. CallOK(f, pod)
        BY <1>1, <2>3, <3>1, <3>3 DEF ControllerOK, CallOK, ListJobs, RsJobs, SoloJobs, CreatePcs, RemovePcs, StartPcs, RecreatePcs, q
      <3>6. ASSUME rs.exists PROVE ListOK(f, ctl, pod) /\ Within(f, ctl, pod)
        <4>1. ListOK(th[x], ctl, pod) /\ Within(th[x], ctl, pod)
          BY <3>1, <3>6 DEF ControllerOK
        <4>2. Held(f, ctl) = Held(th[x], ctl) /\ Owed(f, ctl) = Owed(th[x], ctl)
          BY <1>1, <2>3, <3>1 DEF Held, Owed, InList, RsPcs, RemovePcs, CreatePcs, RecreatePcs, SoloJobs
        <4>3. ListOK(f, ctl, pod)
          BY <1>1, <2>3, <3>1, <3>3, <4>1 DEF ListOK, InList, ListJobs, RsJobs, RsPcs, RemovePcs, CreatePcs, RecreatePcs, SoloJobs
        <4> QED
          BY <4>1, <4>2, <4>3 DEF Within
      <3>7. MoveOK(x, f, ctl, pod)
        BY <2>5, <3>1, <3>5, <3>6 DEF MoveOK, ControllerOK
      <3> QED
        BY <1>1, <2>0, <2>1, <2>3, <3>7 DEF Leads
    <2>6. pod' \in Infos /\ Tamed(pod, pod')
      BY <2>0, <2>1, TamedForms
    <2> QED
      BY <1>1, <2>4, <2>5, <2>6, CtrUnchanged, StepKeeps
  <1> QED
    BY <1>2, <1>3

\* RemoveList keeps PodInv.
LEMMA RemoveListKeeps == ASSUME PodInv, NEW x \in Threads, RemoveList(x) PROVE PodInv'
  <1>1. th[x].pc = "r_list" /\ UNCHANGED <<pod, tpls, rs>> /\ UNCHANGED ctrVars /\ UNCHANGED ctl /\ Asks
    BY DEF RemoveList, At, psmVars, eventVars, Asks
  <1>2. StepsTo(x, "r_member")
    <2> DEFINE found == {k \in Kinds : ctr[th[x].q][k] # "none"}
    <2>1. th' = [th EXCEPT ![x] = NextFrame(th[x], "r_member", found)]
      BY InvSays DEF RemoveList, Typed, NextFrame
    <2> QED
      BY <2>1 DEF StepsTo
  <1>3. InOneCall(th[x].pc, "r_member") /\ th[x].pc \in RemovePcs
    BY <1>1 DEF InOneCall, RemovePcs
  <1>4. Leads(x)
    BY <1>1, <1>2, <1>3, GoesOnLeads
  <1> QED
    BY <1>1, <1>4, CtrUnchanged, TamedForms, StepKeeps

\* Deleting a member is a tame change of the store.
LEMMA MemberDeleted ==
    ASSUME PodInv, NEW p, DeleteMember(p)
    PROVE  pod' \in Infos /\ Tamed(pod, pod') /\ CtrTyped
  <1>1. joined' \in SUBSET Pods
    BY InvSays DEF DeleteMember, Typed
  <1>2. ctr' = [ctr EXCEPT ![p]["member"] = "none"]
    BY DEF DeleteMember
  <1>3. CtrTyped
    BY <1>1, <1>2, CtrChanged DEF Kinds
  <1> QED
    BY <1>3, StatesKept DEF DeleteMember

\* RemoveMember keeps PodInv.
LEMMA RemoveMemberKeeps == ASSUME PodInv, NEW x \in Threads, RemoveMember(x) PROVE PodInv'
  <1>1. th[x].pc = "r_member" /\ UNCHANGED <<tpls, rs>> /\ UNCHANGED ctl /\ Asks /\ Goto(x, "r_infra")
    BY DEF RemoveMember, At, eventVars, Asks
  <1>2. pod' \in Infos /\ Tamed(pod, pod') /\ CtrTyped
    BY MemberDeleted, TamedForms, CtrUnchanged DEF RemoveMember
  <1>3. InOneCall(th[x].pc, "r_infra") /\ th[x].pc \in RemovePcs
    BY <1>1 DEF InOneCall, RemovePcs
  <1>4. Leads(x)
    BY <1>1, <1>3, GotoIs, GoesOnLeads
  <1> QED
    BY <1>1, <1>2, <1>4, StepKeeps

\* RemoveInfra keeps PodInv.
LEMMA RemoveInfraKeeps == ASSUME PodInv, NEW x \in Threads, RemoveInfra(x) PROVE PodInv'
  <1>1. th[x].pc = "r_infra" /\ UNCHANGED <<pod, tpls, rs>> /\ UNCHANGED ctl /\ Asks
    BY DEF RemoveInfra, At, psmVars, eventVars, Asks
  <1>2. CtrTyped
    <2>1. CASE DeleteInfra(th[x].q)
      <3>1. joined' \in SUBSET Pods
        BY <2>1, InvSays DEF DeleteInfra, Typed
      <3>2. ctr' = [ctr EXCEPT ![th[x].q]["infra"] = "none"]
        BY <2>1 DEF DeleteInfra
      <3> QED
        BY <3>1, <3>2, CtrChanged DEF Kinds
    <2> QED
      BY <2>1, CtrUnchanged DEF RemoveInfra
  <1>3. InOneCall(th[x].pc, "r_pod") /\ th[x].pc \in RemovePcs
    BY <1>1 DEF InOneCall, RemovePcs
  <1>4. Leads(x)
    <2>1. StepsTo(x, "r_pod")
      <3>1. th' = [th EXCEPT ![x] = NextFrame(th[x], "r_pod", {})]
        BY InvSays DEF RemoveInfra, Typed, NextFrame
      <3> QED
        BY <3>1 DEF StepsTo
    <2> QED
      BY <1>1, <1>3, <2>1, GoesOnLeads
  <1> QED
    BY <1>1, <1>2, <1>4, TamedForms, StepKeeps

\* RemovePod keeps PodInv.
LEMMA RemovePodKeeps == ASSUME PodInv, NEW x \in Threads, RemovePod(x) PROVE PodInv'
  <1>1. th[x].pc = "r_pod" /\ UNCHANGED <<tpls, rs>> /\ UNCHANGED ctrVars /\ UNCHANGED ctl /\ Asks
    BY DEF RemovePod, At, eventVars, Asks
  <1>2. pod' \in Infos /\ Tamed(pod, pod')
    BY StatesKept DEF RemovePod
  <1>3. InOneCall(th[x].pc, "r_template") /\ th[x].pc \in RemovePcs
    BY <1>1 DEF InOneCall, RemovePcs
  <1>4. Leads(x)
    BY <1>1, <1>3, GotoIs, GoesOnLeads, RemoveDoneLeads DEF RemovePod
  <1> QED
    BY <1>1, <1>2, <1>4, CtrUnchanged, StepKeeps

\* RemoveTemplate keeps PodInv.
LEMMA RemoveTemplateKeeps == ASSUME PodInv, NEW x \in Threads, RemoveTemplate(x) PROVE PodInv'
  <1>1. th[x].pc = "r_template" /\ UNCHANGED <<pod, tpls, rs>> /\ UNCHANGED ctrVars /\ UNCHANGED ctl /\ Asks
    BY DEF RemoveTemplate, At, psmVars, eventVars, Asks
  <1>2. th[x].pc \in RemovePcs /\ InOneCall(th[x].pc, "r_drop")
    BY <1>1 DEF RemovePcs, InOneCall
  <1>3. CASE Referenced(th[x].t)
    <2>1. Leads(x)
      BY <1>1, <1>2, <1>3, RemoveDoneLeads DEF RemoveTemplate
    <2> QED
      BY <1>1, <2>1, CtrUnchanged, TamedForms, StepKeeps
  <1>4. CASE ~Referenced(th[x].t)
    <2>1. Leads(x)
      BY <1>1, <1>2, <1>4, GotoIs, GoesOnLeads DEF RemoveTemplate
    <2> QED
      BY <1>1, <2>1, CtrUnchanged, TamedForms, StepKeeps
  <1> QED
    BY <1>3, <1>4

\* DropTemplate keeps PodInv.
LEMMA DropTemplateKeeps == ASSUME PodInv, NEW x \in Threads, DropTemplate(x) PROVE PodInv'
  <1>1. th[x].pc = "r_drop" /\ UNCHANGED <<pod, rs>> /\ UNCHANGED ctrVars /\ UNCHANGED ctl /\ UNCHANGED eventVars
        /\ RemoveDone(x) /\ tpls' = tpls \ {th[x].t}
    BY DEF DropTemplate, At
  <1>2. th[x].pc \in RemovePcs
    BY <1>1 DEF RemovePcs
  <1>3. Leads(x)
    BY <1>1, <1>2, RemoveDoneLeads
  <1>4. rs.exists => th[x].t # "web"
    BY <1>1, InvSays DEF MoveOK, ControllerOK, CallOK, RequestOK
  <1>5. tpls' \in SUBSET Templates /\ (rs.exists /\ "web" \in tpls => "web" \in tpls')
    BY <1>1, <1>4, InvSays DEF Typed
  <1>6. Around
    BY <1>1, <1>5, CtrUnchanged, InvSays DEF Around, CtrTyped, Typed, eventVars
  <1> QED
    BY <1>1, <1>3, <1>6, TamedForms, LeadsKeeps

\* StartRead keeps PodInv.
LEMMA StartReadKeeps == ASSUME PodInv, NEW x \in Threads, StartRead(x) PROVE PodInv'
  <1>1. th[x].pc = "s_read" /\ UNCHANGED <<pod, tpls, rs>> /\ UNCHANGED ctrVars /\ Asks
    BY DEF StartRead, At, psmVars, eventVars, Asks
  <1>2. th[x].pc \in StartPcs
    BY <1>1 DEF StartPcs
  <1>3. ASSUME Exists(th[x].p), th' = [th EXCEPT ![x].pc = "s_infra", ![x].t = pod[th[x].p].tpl], UNCHANGED ctl
        PROVE  Leads(x)
    <2> DEFINE f == [th[x] EXCEPT !.pc = "s_infra", !.t = pod[th[x].p].tpl]
    <2>1. th[x] \in Frames /\ th \in [Threads -> Frames] /\ ctl \in Lists /\ pod[th[x].p].tpl \in Templates
      BY <1>3, FrameOf, InvSays DEF Typed, Infos, PodInfo, Exists
    <2>2. f \in Frames /\ f.pc = "s_infra" /\ f.job = th[x].job /\ f.own = th[x].own /\ f.p = th[x].p /\ f.q = th[x].q
      BY <2>1 DEF Frames, ServicePcs
    <2>3. th' = [th EXCEPT ![x] = f]
      BY <1>3, <2>1
    <2> HIDE DEF f
    <2>4. MoveOK(x, f, ctl, pod)
      BY <1>2, <2>2, StaysInCall DEF StartPcs
    <2> QED
      BY <1>3, <2>1, <2>2, <2>3, <2>4 DEF Leads
  <1>4. Leads(x)
    BY <1>2, <1>3, StartFailedLeads DEF StartRead
  <1> QED
    BY <1>1, <1>4, CtrUnchanged, TamedForms, StepKeeps

\* StartInfra keeps PodInv.
LEMMA StartInfraKeeps == ASSUME PodInv, NEW x \in Threads, StartInfra(x) PROVE PodInv'
  <1>1. th[x].pc = "s_infra" /\ UNCHANGED <<pod, tpls, rs>>
    BY DEF StartInfra, At, psmVars
  <1>2. th[x].pc \in StartPcs /\ InOneCall(th[x].pc, "s_list") /\ InOneCall(th[x].pc, "s_member")
    BY <1>1 DEF StartPcs, InOneCall
  <1>3. CASE Goto(x, "s_list") /\ UNCHANGED <<ctrVars, ctl, eventVars>>
    <2>1. Leads(x) /\ CtrTyped /\ Asks
      BY <1>2, <1>3, GotoIs, GoesOnLeads, CtrUnchanged DEF Asks, eventVars
    <2> QED
      BY <1>1, <2>1, TamedForms, StepKeeps
  <1>4. CASE /\ ctr' = [ctr EXCEPT ![th[x].p].infra = "running"]
             /\ joined' = IF ctr[th[x].p].infra = "running" THEN joined ELSE joined \ {th[x].p}
             /\ Goto(x, "s_member") /\ UNCHANGED <<ctl, eventVars>>
    <2>1. ctr' = [ctr EXCEPT ![th[x].p]["infra"] = "running"] /\ joined' \in SUBSET Pods
      BY <1>4, InvSays DEF Typed
    <2>2. CtrTyped
      BY <2>1, CtrChanged DEF Kinds
    <2>3. Leads(x) /\ Asks
      BY <1>2, <1>4, GotoIs, GoesOnLeads DEF Asks, eventVars
    <2> QED
      BY <1>1, <2>2, <2>3, TamedForms, StepKeeps
  <1>5. CASE StartFailed(x) /\ UNCHANGED <<ctrVars, eventVars>>
    <2>1. Leads(x) /\ CtrTyped /\ Asks
      BY <1>2, <1>5, StartFailedLeads, CtrUnchanged DEF Asks, eventVars
    <2> QED
      BY <1>1, <2>1, TamedForms, StepKeeps
  <1>6. CASE /\ Event("container")
             /\ ctr' \in {ctr, [ctr EXCEPT ![th[x].p].infra = IF @ = "running" THEN @ ELSE "none"]}
             /\ StartFailed(x) /\ UNCHANGED joined
    <2>1. CtrTyped
      BY <1>6, InvSays DEF Typed, CtrTyped, Kinds
    <2>2. Leads(x) /\ Asks
      BY <1>2, <1>6, StartFailedLeads DEF Asks, EventKinds
    <2> QED
      BY <1>1, <2>1, <2>2, TamedForms, StepKeeps
  <1> QED
    BY <1>3, <1>4, <1>5, <1>6 DEF StartInfra

\* StartMember keeps PodInv.
LEMMA StartMemberKeeps == ASSUME PodInv, NEW x \in Threads, StartMember(x) PROVE PodInv'
  <1>1. th[x].pc = "s_member" /\ UNCHANGED <<pod, tpls, rs>>
    BY DEF StartMember, At, psmVars
  <1>2. th[x].pc \in StartPcs /\ InOneCall(th[x].pc, "s_list")
    BY <1>1 DEF StartPcs, InOneCall
  <1>3. CASE /\ Exists(th[x].p)
             /\ ctr' = [ctr EXCEPT ![th[x].p].member = "created"]
             /\ joined' = IF ctr[th[x].p].infra = "running" THEN joined \cup {th[x].p} ELSE joined
             /\ Goto(x, "s_list") /\ UNCHANGED <<ctl, eventVars>>
    <2>1. ctr' = [ctr EXCEPT ![th[x].p]["member"] = "created"] /\ joined' \in SUBSET Pods
      BY <1>3, InvSays DEF Typed, Exists
    <2>2. CtrTyped
      BY <2>1, CtrChanged DEF Kinds
    <2>3. Leads(x) /\ Asks
      BY <1>2, <1>3, GotoIs, GoesOnLeads DEF Asks, eventVars
    <2> QED
      BY <1>1, <2>2, <2>3, TamedForms, StepKeeps
  <1>4. CASE StartFailed(x) /\ UNCHANGED ctrVars /\ (UNCHANGED eventVars \/ Event("container"))
    <2>1. Leads(x) /\ CtrTyped /\ Asks
      BY <1>2, <1>4, StartFailedLeads, CtrUnchanged DEF Asks, eventVars, EventKinds
    <2> QED
      BY <1>1, <2>1, TamedForms, StepKeeps
  <1> QED
    BY <1>3, <1>4 DEF StartMember

\* StartList keeps PodInv.
LEMMA StartListKeeps == ASSUME PodInv, NEW x \in Threads, StartList(x) PROVE PodInv'
  <1>1. th[x].pc = "s_list" /\ UNCHANGED <<pod, tpls, rs>> /\ UNCHANGED ctrVars /\ UNCHANGED ctl /\ Asks
    BY DEF StartList, At, psmVars, eventVars, Asks
  <1>2. StepsTo(x, "s_start")
    <2> DEFINE found == {k \in Kinds : ctr[th[x].p][k] \in {"created", "stopped"}}
    <2>1. th' = [th EXCEPT ![x] = NextFrame(th[x], "s_start", found)]
      BY InvSays DEF StartList, Typed, NextFrame
    <2> QED
      BY <2>1 DEF StepsTo
  <1>3. InOneCall(th[x].pc, "s_start")
    BY <1>1 DEF InOneCall, StartPcs
  <1>4. Leads(x)
    BY <1>1, <1>2, <1>3, GoesOnLeads
  <1> QED
    BY <1>1, <1>4, CtrUnchanged, TamedForms, StepKeeps

\* StartContainer keeps PodInv.
LEMMA StartContainerKeeps == ASSUME PodInv, NEW x \in Threads, StartContainer(x) PROVE PodInv'
  <1>1. th[x].pc = "s_start" /\ UNCHANGED <<pod, tpls, rs>> /\ UNCHANGED joined
    BY DEF StartContainer, At, psmVars
  <1>2. th[x].pc \in StartPcs /\ InOneCall(th[x].pc, "s_start")
    BY <1>1 DEF StartPcs, InOneCall
  <1>3. ASSUME NEW k \in Kinds, ctr' = [ctr EXCEPT ![th[x].p][k] = "running"],
               th' = [th EXCEPT ![x].found = @ \ {k}], UNCHANGED <<ctl, eventVars>>
        PROVE  PodInv'
    <2>1. joined' \in SUBSET Pods
      BY <1>1, InvSays DEF Typed
    <2>2. CtrTyped
      BY <1>3, <2>1, CtrChanged DEF Kinds
    <2>3. StepsTo(x, "s_start")
      <3> DEFINE found == th[x].found \ {k}
      <3>1. th[x] \in Frames /\ th \in [Threads -> Frames]
        BY FrameOf, InvSays DEF Typed
      <3>2. [th[x] EXCEPT !.found = @ \ {k}] = NextFrame(th[x], "s_start", found)
        BY <1>1, <3>1 DEF NextFrame, Frames
      <3>3. th' = [th EXCEPT ![x] = NextFrame(th[x], "s_start", found)]
        BY <1>3, <3>1, <3>2
      <3>4. found \in SUBSET Kinds
        BY <3>1 DEF Frames
      <3> QED
        BY <3>3, <3>4 DEF StepsTo
    <2>4. Leads(x) /\ Asks
      BY <1>2, <1>3, <2>3, GoesOnLeads DEF Asks, eventVars
    <2> QED
      BY <1>1, <2>2, <2>4, TamedForms, StepKeeps
  <1>4. CASE StartFailed(x) /\ UNCHANGED ctr /\ (UNCHANGED eventVars \/ Event("container"))
    <2>1. Leads(x) /\ CtrTyped /\ Asks
      BY <1>1, <1>2, <1>4, StartFailedLeads, CtrUnchanged DEF Asks, eventVars, EventKinds, ctrVars
    <2> QED
      BY <1>1, <2>1, TamedForms, StepKeeps
  <1> QED
    BY <1>3, <1>4 DEF StartContainer, Kinds

\* StartState keeps PodInv.
LEMMA StartStateKeeps == ASSUME PodInv, NEW x \in Threads, StartState(x) PROVE PodInv'
  <1>1. th[x].pc = "s_start" /\ UNCHANGED <<tpls, rs>> /\ UNCHANGED ctrVars /\ Asks
    BY DEF StartState, At, eventVars, Asks
  <1>2. th[x].pc \in StartPcs /\ InOneCall(th[x].pc, "s_flag")
    BY <1>1 DEF StartPcs, InOneCall
  <1>3. pod' \in Infos /\ Tamed(pod, pod')
    BY StatesKept DEF StartState
  <1>4. Leads(x)
    BY <1>2, GotoIs, GoesOnLeads, StartFailedLeads DEF StartState
  <1> QED
    BY <1>1, <1>3, <1>4, CtrUnchanged, StepKeeps

\* StartFlag keeps PodInv.
LEMMA StartFlagKeeps == ASSUME PodInv, NEW x \in Threads, StartFlag(x) PROVE PodInv'
  <1>1. th[x].pc \in StartPcs /\ UNCHANGED <<tpls, rs>> /\ UNCHANGED ctrVars /\ Asks
    BY DEF StartFlag, At, eventVars, Asks, StartPcs
  <1>2. pod' \in Infos /\ Tamed(pod, pod')
    BY StatesKept DEF StartFlag
  <1>3. Leads(x)
    BY <1>1, StartDoneLeads DEF StartFlag
  <1> QED
    BY <1>1, <1>2, <1>3, CtrUnchanged, StepKeeps

-----------------------------------------------------------------------------
(***************************************************************************)
(* Storing a pod, and owning it                                             *)
(***************************************************************************)
Stores(store, next, p, t) ==
    /\ p \in Pods /\ store[p].state = "none"
    /\ next[p].tpl = t /\ ~next[p].owned /\ next[p].state # "none"
    /\ \A q \in Pods \ {p} : next[q] = store[q]

\* A thread that does not hold the id sees nothing of it.
LEMMA StoresKeepsCalls ==
    ASSUME NEW store \in Infos, NEW next \in Infos, NEW p, NEW t, Stores(store, next, p, t), NEW f \in Frames, f.p # p, f.q # p
    PROVE  /\ RequestOK(f, store) => RequestOK(f, next)
           /\ CallOK(f, store) => CallOK(f, next)
  <1>1. \A q \in Pods : q # p => next[q] = store[q]
    BY DEF Stores
  <1>2. ASSUME RequestOK(f, store) PROVE RequestOK(f, next)
    BY <1>1, <1>2 DEF RequestOK
  <1>3. ASSUME CallOK(f, store) PROVE CallOK(f, next)
    BY <1>1, <1>3 DEF CallOK
  <1> QED
    BY <1>2, <1>3

\* Storing a pod keeps owned pods within the replica set.
LEMMA StoresKeepsOwned ==
    ASSUME NEW store \in Infos, NEW next \in Infos, NEW p, NEW t, Stores(store, next, p, t), OwnedAreWeb(store)
    PROVE  OwnedAreWeb(next)
  BY DEF Stores, OwnedAreWeb

\* Storing a pod adds at most that pod to the replica set.
LEMMA StoresSets ==
    ASSUME NEW store \in Infos, NEW next \in Infos, NEW p, NEW t, Stores(store, next, p, t)
    PROVE  /\ t # "web" => WebOf(next) = WebOf(store)
           /\ WebOf(next) \subseteq WebOf(store) \cup {p}
           /\ \A q \in WebOf(next) \ {p} : next[q].owned = store[q].owned /\ q \in WebOf(store)
  BY DEF Stores, WebOf

\* A pod of another template is none of the controller's.
LEMMA SoloStored ==
    ASSUME NEW store \in Infos, NEW next \in Infos, NEW p, NEW t, Stores(store, next, p, t), t # "web",
           NEW f \in Frames, NEW l \in Lists, ListOK(f, l, store), Within(f, l, store)
    PROVE  ListOK(f, l, next) /\ Within(f, l, next)
  <1>1. WebOf(next) = WebOf(store) /\ p \notin WebOf(store)
    BY StoresSets DEF Stores, WebOf
  <1>2. \A q \in WebOf(next) : next[q].owned = store[q].owned
    BY <1>1, StoresSets
  <1> QED
    BY <1>1, <1>2 DEF ListOK, Within

UnusedIs(p) == p \in Pods /\ pod[p].state = "none" /\ \A x \in Threads : th[x].p # p /\ th[x].q # p

\* Where createWithTemplate goes once the pod is stored.
StoredFrame(f, p) == [f EXCEPT !.p = p, !.q = NoPod, !.pc = IF f.own THEN "c_owner" ELSE "s_read"]

\* The frame of a create that has stored its pod.
LEMMA StoredFrameIs ==
    ASSUME NEW f \in Frames, NEW p \in Pods
    PROVE  LET g == StoredFrame(f, p) IN
           /\ g \in Frames /\ g.job = f.job /\ g.own = f.own /\ g.t = f.t /\ g.todo = f.todo
           /\ g.p = p /\ g.q = NoPod /\ g.pc = IF f.own THEN "c_owner" ELSE "s_read"
  BY DEF StoredFrame, Frames, ServicePcs

\* The controller stores a pod for the ReplicaSet or for a template of its own.
LEMMA ControllerStores ==
    ASSUME NEW c \in Frames, NEW l \in Lists, NEW store \in Infos, ControllerOK(c, l, store), c.pc = "c_store", c.job # "solo_new",
           NEW p \in Pods, NEW next \in Infos, Stores(store, next, p, c.t),
           NEW g \in Frames, g.job = c.job, g.own = c.own, g.t = c.t, g.p = p, g.q = NoPod,
           g.pc = IF c.own THEN "c_owner" ELSE "s_read"
    PROVE  ControllerOK(g, l, next)
  <1>1. CallOK(c, store) /\ c.job \in {"new", "recreate", "solo_recreate"}
    BY DEF ControllerOK, CallOK, ListJobs, RsJobs, SoloJobs, TickPcs, RsPcs, SoloPcs, DeletePcs, StartPcs
  <1>2. c.own => c.t = "web"
    BY <1>1 DEF CallOK, CreatePcs
  <1>3. c.own => next[p].tpl = "web"
    BY <1>2 DEF Stores
  <1>4. CallOK(g, next)
    BY <1>1, <1>3 DEF CallOK, ListJobs, RsJobs, SoloJobs, StartPcs, CreatePcs, RemovePcs, RecreatePcs
  <1>5. ASSUME rs.exists PROVE ListOK(g, l, next) /\ Within(g, l, next)
    <2>1. ListOK(c, l, store) /\ Within(c, l, store)
      BY <1>5 DEF ControllerOK
    <2>2. InList(g) <=> InList(c)
      BY DEF InList, RsPcs
    <2>3. Held(g, l) \subseteq Held(c, l)
      BY <1>1, <2>2 DEF Held, RecreatePcs
    <2>4. CASE c.job = "solo_recreate"
      <3>1. c.t = "solo" /\ ~c.own
        BY <1>2, <2>1, <2>4 DEF ListOK, CreatePcs, SoloJobs
      <3>2. ListOK(c, l, next) /\ Within(c, l, next)
        BY <2>1, <3>1, SoloStored
      <3>3. ListOK(g, l, next)
        BY <2>2, <2>4, <3>1, <3>2 DEF ListOK, CreatePcs, RemovePcs, RecreatePcs
      <3>4. Owed(g, l) = 0 /\ Owed(c, l) = 0
        BY <2>4, <3>1 DEF Owed
      <3>5. Held(g, l) = Held(c, l)
        BY <2>2, <2>4, <3>1 DEF Held
      <3> QED
        BY <3>2, <3>3, <3>4, <3>5 DEF Within
    <2>5. CASE c.job \in {"new", "recreate"}
      <3>1. c.own
        BY <2>1, <2>5 DEF ListOK, CreatePcs
      <3>2. \A q \in WebOf(store) : store[q].owned
        BY <2>1 DEF ListOK
      <3>3. ListOK(g, l, next)
        BY <2>1, <2>2, <2>5, <3>1, <3>2, StoresSets DEF ListOK, CreatePcs, RemovePcs, RecreatePcs, SoloJobs
      <3>4. l.n \in Nat
        BY DEF Lists
      <3>5. Owed(g, l) + 1 <= Owed(c, l) /\ Owed(g, l) \in Nat /\ Owed(c, l) \in Nat
        BY <2>5, <3>1, <3>4 DEF Owed, CreatePcs, RemovePcs
      <3>6. WebOf(next) \cup Held(g, l) \in SUBSET ((WebOf(store) \cup Held(c, l)) \cup {p})
        BY <2>3, StoresSets
      <3>7. WebOf(store) \cup Held(c, l) \in SUBSET Pods
        BY <2>1, HeldArePods
      <3>8. Within(g, l, next)
        BY <2>1, <3>5, <3>6, <3>7, WithinStores DEF Within
      <3> QED
        BY <3>3, <3>8
    <2> QED
      BY <1>1, <2>4, <2>5
  <1> QED
    BY <1>4, <1>5 DEF ControllerOK

\* Stores keeps PodInv.
LEMMA StoresKeeps ==
    ASSUME PodInv, NEW x \in Threads, NEW f \in Frames, NEW p, NEW next \in Infos, UnusedIs(p), Stores(pod, next, p, th[x].t),
           th' = [th EXCEPT ![x] = f], UNCHANGED ctl, pod' = next, Around,
           x # "ctl" => th[x].t = "solo" /\ RequestOK(f, next),
           x = "ctl" => ControllerOK(f, ctl, next)
    PROVE  PodInv'
  <1>1. ctl \in Lists /\ pod \in Infos /\ OwnedAreWeb(pod) /\ (\A y \in Threads : th[y] \in Frames) /\ p \in Pods
    BY InvSays DEF Typed, UnusedIs
  <1>2. OwnedAreWeb(next)
    BY <1>1, StoresKeepsOwned
  <1>3. \A y \in Threads : th[y].p # p /\ th[y].q # p
    BY DEF UnusedIs
  <1>4. ASSUME NEW y \in Reqs \ {x} PROVE RequestOK(th[y], next)
    <2>1. y \in Threads /\ RequestOK(th[y], pod)
      BY ThreadFacts DEF PodInv
    <2> QED
      BY <1>1, <1>3, <2>1, StoresKeepsCalls
  <1>5. ASSUME x # "ctl" PROVE ControllerOK(th["ctl"], ctl, next)
    <2>1. ControllerOK(th["ctl"], ctl, pod) /\ "ctl" \in Threads
      BY FrameOf, ThreadFacts
    <2>2. CallOK(th["ctl"], next)
      BY <1>1, <1>3, <2>1, StoresKeepsCalls DEF ControllerOK
    <2>3. ASSUME rs.exists PROVE ListOK(th["ctl"], ctl, next) /\ Within(th["ctl"], ctl, next)
      <3>1. ListOK(th["ctl"], ctl, pod) /\ Within(th["ctl"], ctl, pod)
        BY <2>1, <2>3 DEF ControllerOK
      <3>2. th[x].t # "web"
        BY <1>5
      <3> QED
        BY <1>1, <2>1, <3>1, <3>2, SoloStored
    <2> QED
      BY <2>1, <2>2, <2>3 DEF ControllerOK
  <1>6. ControllerOK(IF x = "ctl" THEN f ELSE th["ctl"], ctl, next)
    BY <1>5
  <1> QED
    BY <1>1, <1>2, <1>4, <1>6, Assembled

\* CreateStore keeps PodInv.
LEMMA CreateStoreKeeps == ASSUME PodInv, NEW x \in Threads, CreateStore(x) PROVE PodInv'
  <1>1. th[x].pc = "c_store" /\ UNCHANGED <<tpls, rs>> /\ UNCHANGED ctrVars /\ UNCHANGED ctl /\ Asks
    BY DEF CreateStore, At, eventVars, Asks
  <1>2. PICK p \in Pods :
          /\ Unused(p)
          /\ pod' = [pod EXCEPT ![p] = [NoInfo EXCEPT !.tpl = th[x].t, !.state = "created", !.base = th[x].job # "new"]]
          /\ IF th[x].job = "solo_new"
               THEN Loop("solo")
               ELSE th' = [th EXCEPT ![x].p = p, ![x].q = NoPod, ![x].pc = IF th[x].own THEN "c_owner" ELSE "s_read"]
    BY Zenon DEF CreateStore
  <1>3. th[x] \in Frames /\ th \in [Threads -> Frames] /\ ctl \in Lists /\ pod \in Infos /\ th[x].t \in Templates
    BY FrameOf, InvSays DEF Typed, Frames
  <1>4. UnusedIs(p)
    BY <1>2 DEF UnusedIs, Unused, Exists
  <1> DEFINE info == [NoInfo EXCEPT !.tpl = th[x].t, !.state = "created", !.base = th[x].job # "new"]
             next == [pod EXCEPT ![p] = info]
  <1>5. info \in PodInfo /\ info.tpl = th[x].t /\ ~info.owned /\ info.state = "created"
    BY <1>3 DEF NoInfo, PodInfo, Templates
  <1>6. pod' = next
    BY <1>2
  <1> HIDE DEF info
  <1>7. next \in Infos /\ Stores(pod, next, p, th[x].t)
    BY <1>3, <1>4, <1>5 DEF Infos, Stores, UnusedIs
  <1> HIDE DEF next
  <1>8. Around
    BY <1>1, CtrUnchanged, AroundStill
  <1>9. CASE x # "ctl"
    <2>1. RequestOK(th[x], pod) /\ th[x].job = "apply" /\ th[x].t = "solo" /\ ~th[x].own
      BY <1>1, <1>9, FrameOf DEF RequestOK, DeleteRsPcs, CreatePcs
    <2> DEFINE f == StoredFrame(th[x], p)
    <2>2. th' = [th EXCEPT ![x] = f]
      BY <1>2, <1>3, <2>1 DEF StoredFrame
    <2>3. f \in Frames /\ f.job = "apply" /\ ~f.own /\ f.pc = "s_read"
      BY <1>3, <2>1, StoredFrameIs
    <2> HIDE DEF f
    <2>4. RequestOK(f, next)
      BY <2>3 DEF RequestOK, DeleteRsPcs, RequestJobs, ServicePcs, CreatePcs, RemovePcs, StartPcs
    <2> QED
      BY <1>1, <1>4, <1>6, <1>7, <1>8, <1>9, <2>1, <2>2, <2>3, <2>4, StoresKeeps
  <1>10. CASE x = "ctl" /\ th[x].job # "solo_new"
    <2>1. ControllerOK(th[x], ctl, pod)
      BY <1>10, FrameOf
    <2> DEFINE f == StoredFrame(th[x], p)
    <2>2. th' = [th EXCEPT ![x] = f]
      BY <1>2, <1>3, <1>10 DEF StoredFrame
    <2>3. f \in Frames /\ f.job = th[x].job /\ f.own = th[x].own /\ f.t = th[x].t /\ f.p = p /\ f.q = NoPod
          /\ f.pc = IF th[x].own THEN "c_owner" ELSE "s_read"
      BY <1>3, StoredFrameIs
    <2> HIDE DEF f
    <2>4. ControllerOK(f, ctl, next)
      BY <1>1, <1>3, <1>7, <1>10, <2>1, <2>3, ControllerStores
    <2> QED
      BY <1>1, <1>4, <1>6, <1>7, <1>8, <1>10, <2>2, <2>3, <2>4, StoresKeeps
  <1>11. CASE x = "ctl" /\ th[x].job = "solo_new"
    <2>1. ControllerOK(th[x], ctl, pod) /\ Loop("solo")
      BY <1>2, <1>11, FrameOf
    <2> DEFINE f == LoopFrame(th["ctl"], "solo")
    <2>2. "solo" \in AllPcs
      BY DEF AllPcs, ControllerPcs
    <2>3. f \in Frames /\ f.pc = "solo" /\ f.job = "none"
      BY <1>3, <1>11, <2>2, LoopFrameIs
    <2>4. th' = [th EXCEPT ![x] = f]
      BY <1>11, <2>1 DEF Loop, LoopFrame
    <2> HIDE DEF f
    <2>5. CallOK(f, next)
      BY <2>3 DEF CallOK, SoloPcs, ListJobs, RsJobs, SoloJobs, CreatePcs, RemovePcs, RecreatePcs
    <2>6. ASSUME rs.exists PROVE ListOK(f, ctl, next) /\ Within(f, ctl, next)
      <3>1. ListOK(th[x], ctl, pod) /\ Within(th[x], ctl, pod)
        BY <2>1, <2>6 DEF ControllerOK
      <3>2. th[x].t # "web"
        BY <1>1, <1>11, <3>1 DEF ListOK, SoloJobs, CreatePcs
      <3>3. ListOK(th[x], ctl, next) /\ Within(th[x], ctl, next)
        BY <1>3, <1>7, <3>1, <3>2, SoloStored
      <3>4. ListOK(f, ctl, next)
        BY <1>1, <2>3, <3>3 DEF ListOK, InList, ListJobs, RsJobs, SoloJobs, RsPcs
      <3>5. Held(f, ctl) = Held(th[x], ctl) /\ Owed(f, ctl) = Owed(th[x], ctl)
        BY <1>1, <1>11, <2>3 DEF Held, Owed, InList, ListJobs, RsJobs, RsPcs
      <3> QED
        BY <3>3, <3>4, <3>5 DEF Within
    <2>7. ControllerOK(f, ctl, next)
      BY <2>1, <2>5, <2>6 DEF ControllerOK
    <2> QED
      BY <1>1, <1>4, <1>6, <1>7, <1>8, <1>11, <2>3, <2>4, <2>7, StoresKeeps
  <1> QED
    BY <1>9, <1>10, <1>11

\* CreateOwner keeps PodInv.
LEMMA CreateOwnerKeeps == ASSUME PodInv, NEW x \in Threads, CreateOwner(x) PROVE PodInv'
  <1>1. th[x].pc = "c_owner" /\ UNCHANGED <<tpls, rs>> /\ UNCHANGED ctrVars /\ Asks
    BY DEF CreateOwner, At, eventVars, Asks
  <1>2. x = "ctl"
    <2>1. ASSUME x # "ctl" PROVE FALSE
      BY <1>1, <2>1, FrameOf DEF RequestOK
    <2> QED
      BY <2>1
  <1>3. th[x] \in Frames /\ th \in [Threads -> Frames] /\ ctl \in Lists /\ pod \in Infos /\ ControllerOK(th[x], ctl, pod) /\ OwnedAreWeb(pod)
    BY <1>2, FrameOf, InvSays DEF Typed
  <1>4. CASE ~Exists(th[x].p)
    <2>1. CreateFailed(x) /\ UNCHANGED pod /\ th[x].p \notin WebOf(pod)
      BY <1>4 DEF CreateOwner, Exists, WebOf
    <2>2. Leads(x)
      BY <1>1, <2>1, CreateFailedLeads
    <2> QED
      BY <1>1, <2>1, <2>2, CtrUnchanged, TamedForms, StepKeeps
  <1>5. CASE Exists(th[x].p)
    <2> DEFINE p == th[x].p
               next == [pod EXCEPT ![p].owned = TRUE]
               f == NextFrame(th[x], "s_read", th[x].found)
    <2>1. pod' = next /\ Goto(x, "s_read") /\ ctl' = ctl /\ p \in Pods /\ pod[p].state # "none"
      BY <1>5 DEF CreateOwner, Exists
    <2>2. th[x].own /\ pod[p].tpl = "web"
      BY <1>1, <1>3, <2>1 DEF ControllerOK, CallOK
    <2>3. next \in Infos /\ next[p].owned /\ (\A q \in Pods : next[q].state = pod[q].state /\ next[q].tpl = pod[q].tpl)
          /\ \A q \in Pods \ {p} : next[q] = pod[q]
      BY <1>3, <2>1 DEF Infos, PodInfo
    <2>4. f = [th[x] EXCEPT !.pc = "s_read"]
      BY <1>3 DEF Frames, NextFrame
    <2>5. th' = [th EXCEPT ![x] = f]
      BY <1>3, <2>1, <2>4 DEF Goto
    <2>6. f \in Frames /\ f.pc = "s_read" /\ f.job = th[x].job /\ f.own = th[x].own /\ f.p = p /\ f.q = th[x].q /\ f.t = th[x].t
      BY <1>3, <2>4 DEF Frames, ServicePcs
    <2> HIDE DEF f, next
    <2>7. OwnedAreWeb(next)
      BY <1>3, <2>2, <2>3 DEF OwnedAreWeb
    <2>8. ASSUME NEW y \in Reqs \ {x} PROVE RequestOK(th[y], next)
      BY <2>3, <2>8, ThreadFacts DEF PodInv, RequestOK
    <2>9. th[x].job \in {"new", "recreate"} \cup SoloJobs /\ th[x].job # "solo_new"
      BY <1>1, <1>3 DEF ControllerOK, CallOK, ListJobs, RsJobs, SoloJobs, TickPcs, RsPcs, SoloPcs, DeletePcs, StartPcs, CreatePcs, RemovePcs
    <2>10. CallOK(f, next)
      BY <1>3, <2>6, <2>9, <1>1 DEF ControllerOK, CallOK, ListJobs, RsJobs, SoloJobs, StartPcs, CreatePcs, RemovePcs, RecreatePcs
    <2>11. ASSUME rs.exists PROVE ListOK(f, ctl, next) /\ Within(f, ctl, next)
      <3>1. ListOK(th[x], ctl, pod) /\ Within(th[x], ctl, pod)
        BY <1>3, <2>11 DEF ControllerOK
      <3>2. WebOf(next) = WebOf(pod)
        BY <2>3 DEF WebOf
      <3>3. \A q \in WebOf(next) : next[q].owned
        BY <1>1, <2>3, <3>1, <3>2 DEF ListOK, WebOf
      <3>4. InList(f) <=> InList(th[x])
        BY <1>1, <2>6 DEF InList, RsPcs
      <3>5. Held(f, ctl) = Held(th[x], ctl) /\ Owed(f, ctl) = Owed(th[x], ctl)
        BY <1>1, <2>6, <3>4 DEF Held, Owed, RecreatePcs, CreatePcs, RemovePcs
      <3>6. ListOK(f, ctl, next)
        BY <2>6, <2>9, <3>1, <3>2, <3>3, <3>4 DEF ListOK, CreatePcs, RemovePcs, RecreatePcs
      <3> QED
        BY <3>1, <3>2, <3>5, <3>6 DEF Within
    <2>12. ControllerOK(f, ctl, next)
      BY <1>3, <2>10, <2>11 DEF ControllerOK
    <2>13. Around
      BY <1>1, CtrUnchanged, AroundStill
    <2> QED
      BY <1>2, <1>3, <2>1, <2>3, <2>5, <2>6, <2>7, <2>8, <2>12, <2>13, Assembled
  <1> QED
    BY <1>4, <1>5

-----------------------------------------------------------------------------
(***************************************************************************)
(* What only requests do                                                    *)
(***************************************************************************)
OwnPcs == {"t_stop", "t_degraded", "t_state", "t_flag", "d_template", "d_drop", "d_list", "d_next"}

\* A request goes on with what is no part of a start or a removal.
RequestFrame(f, pc, todo) == [f EXCEPT !.pc = pc, !.todo = todo]

\* A request that goes on with its own steps is where they allow.
LEMMA RequestGoesLeads ==
    ASSUME PodInv, NEW x \in Reqs, NEW pc \in OwnPcs, NEW todo \in SUBSET Pods,
           th' = [th EXCEPT ![x] = RequestFrame(th[x], pc, todo)], UNCHANGED ctl,
           pc \in DeleteRsPcs => th[x].pc \in DeleteRsPcs, pc = "d_drop" => ~rs.exists
    PROVE  Leads(x)
  <1>0. th[x] \in Frames /\ ctl \in Lists /\ x # "ctl" /\ RequestOK(th[x], pod)
    BY ThreadFacts, FrameOf
  <1> DEFINE f == RequestFrame(th[x], pc, todo)
  <1>1. f \in Frames /\ f.pc = pc /\ f.job = th[x].job /\ f.own = th[x].own
    BY <1>0 DEF RequestFrame, Frames, OwnPcs, ServicePcs
  <1> HIDE DEF f
  <1>2. RequestOK(f, pod)
    BY <1>0, <1>1 DEF RequestOK, OwnPcs, ServicePcs, CreatePcs, RemovePcs, StartPcs, DeleteRsPcs
  <1>3. MoveOK(x, f, ctl, pod)
    BY <1>0, <1>2 DEF MoveOK
  <1> QED
    BY <1>0, <1>1, <1>3 DEF Leads, f

\* The same, when only its step changes.
LEMMA RequestGotoLeads ==
    ASSUME PodInv, NEW x \in Reqs, NEW pc \in OwnPcs, Goto(x, pc), UNCHANGED ctl,
           pc \in DeleteRsPcs => th[x].pc \in DeleteRsPcs, pc = "d_drop" => ~rs.exists
    PROVE  Leads(x)
  <1>1. th[x] \in Frames /\ th \in [Threads -> Frames] /\ x \in Threads
    BY ThreadFacts, FrameOf, InvSays DEF Typed
  <1>2. RequestFrame(th[x], pc, th[x].todo) = [th[x] EXCEPT !.pc = pc] /\ th[x].todo \in SUBSET Pods
    BY <1>1 DEF Frames, RequestFrame
  <1>3. th' = [th EXCEPT ![x] = RequestFrame(th[x], pc, th[x].todo)]
    BY <1>1, <1>2 DEF Goto
  <1> QED
    BY <1>2, <1>3, RequestGoesLeads

\* StopMember keeps PodInv.
LEMMA StopMemberKeeps == ASSUME PodInv, NEW x \in Reqs, StopMember(x) PROVE PodInv'
  <1>1. x \in Threads /\ UNCHANGED <<pod, tpls, rs>> /\ UNCHANGED joined /\ UNCHANGED ctl /\ Asks
    BY ThreadFacts DEF StopMember, psmVars, eventVars, Asks
  <1>2. CASE Goto(x, "t_state") /\ UNCHANGED ctr
    <2>1. Leads(x)
      BY <1>1, <1>2, RequestGotoLeads DEF OwnPcs, DeleteRsPcs
    <2> QED
      BY <1>1, <1>2, <2>1, CtrUnchanged, TamedForms, StepKeeps DEF ctrVars
  <1>3. CASE ctr' = [ctr EXCEPT ![th[x].p].member = "stopped"] /\ Goto(x, "t_degraded")
    <2>1. Leads(x)
      BY <1>1, <1>3, RequestGotoLeads DEF OwnPcs, DeleteRsPcs
    <2>2. ctr' = [ctr EXCEPT ![th[x].p]["member"] = "stopped"] /\ joined' \in SUBSET Pods
      BY <1>1, <1>3, InvSays DEF Typed
    <2>3. CtrTyped
      BY <2>2, CtrChanged DEF Kinds
    <2> QED
      BY <1>1, <2>1, <2>3, TamedForms, StepKeeps
  <1>4. CASE Return(x) /\ UNCHANGED ctr
    <2>1. Leads(x)
      BY <1>1, <1>4, ReturnLeads
    <2> QED
      BY <1>1, <1>4, <2>1, CtrUnchanged, TamedForms, StepKeeps DEF ctrVars
  <1> QED
    BY <1>2, <1>3, <1>4 DEF StopMember

\* StopWrite keeps PodInv.
LEMMA StopWriteKeeps == ASSUME PodInv, NEW x \in Reqs, StopWrite(x) PROVE PodInv'
  <1>1. x \in Threads /\ UNCHANGED <<tpls, rs>> /\ UNCHANGED ctrVars /\ UNCHANGED ctl /\ Asks
    BY ThreadFacts DEF StopWrite, eventVars, Asks
  <1>2. pod' \in Infos /\ Tamed(pod, pod')
    BY StatesKept DEF StopWrite
  <1>3. Goto(x, "t_state") \/ Goto(x, "t_flag") \/ Return(x)
    BY DEF StopWrite
  <1>4. Leads(x)
    BY <1>1, <1>3, RequestGotoLeads, ReturnLeads DEF OwnPcs, DeleteRsPcs
  <1> QED
    BY <1>1, <1>2, <1>4, CtrUnchanged, StepKeeps

\* DeleteRsTemplate keeps PodInv.
LEMMA DeleteRsTemplateKeeps == ASSUME PodInv, NEW x \in Reqs, DeleteRsTemplate(x) PROVE PodInv'
  <1>1. x \in Threads /\ UNCHANGED <<pod, tpls, rs>> /\ UNCHANGED ctrVars /\ UNCHANGED ctl /\ Asks /\ th[x].pc = "d_template"
    BY ThreadFacts DEF DeleteRsTemplate, At, psmVars, eventVars, Asks
  <1>2. Goto(x, "d_list") \/ (Goto(x, "d_drop") /\ ~rs.exists)
    BY DEF DeleteRsTemplate, Referenced
  <1>3. Leads(x)
    BY <1>1, <1>2, RequestGotoLeads DEF OwnPcs, DeleteRsPcs
  <1> QED
    BY <1>1, <1>3, CtrUnchanged, TamedForms, StepKeeps

\* DeleteRsDrop keeps PodInv.
LEMMA DeleteRsDropKeeps == ASSUME PodInv, NEW x \in Reqs, DeleteRsDrop(x) PROVE PodInv'
  <1>1. x \in Threads /\ UNCHANGED <<pod, rs>> /\ UNCHANGED ctrVars /\ UNCHANGED ctl /\ UNCHANGED eventVars /\ Goto(x, "d_list")
        /\ th[x].pc = "d_drop" /\ tpls' = tpls \ {"web"}
    BY ThreadFacts DEF DeleteRsDrop, At
  <1>2. Leads(x)
    BY <1>1, RequestGotoLeads DEF OwnPcs, DeleteRsPcs
  <1>3. tpls' \in SUBSET Templates /\ ~rs.exists
    BY <1>1, InvSays DEF PodInv, RequestOK, Typed
  <1>4. Around
    BY <1>1, <1>3, CtrUnchanged, InvSays DEF Around, CtrTyped, Typed, eventVars
  <1> QED
    BY <1>1, <1>2, <1>4, TamedForms, LeadsKeeps

\* DeleteRsList keeps PodInv.
LEMMA DeleteRsListKeeps == ASSUME PodInv, NEW x \in Reqs, DeleteRsList(x) PROVE PodInv'
  <1>1. x \in Threads /\ UNCHANGED <<pod, tpls, rs>> /\ UNCHANGED ctrVars /\ UNCHANGED ctl /\ Asks /\ th[x].pc = "d_list"
    BY ThreadFacts DEF At, DeleteRsList, psmVars, eventVars, Asks
  <1> DEFINE todo == {p \in Pods : Exists(p) /\ pod[p].tpl = "web"}
  <1>2. th' = [th EXCEPT ![x] = RequestFrame(th[x], "d_next", todo)]
    BY <1>1, InvSays DEF DeleteRsList, Typed, RequestFrame
  <1>3. todo \in SUBSET Pods
    OBVIOUS
  <1> HIDE DEF todo
  <1>4. Leads(x)
    BY <1>1, <1>2, <1>3, RequestGoesLeads DEF OwnPcs, DeleteRsPcs
  <1> QED
    BY <1>1, <1>4, CtrUnchanged, TamedForms, StepKeeps

\* DeleteRsNext keeps PodInv.
LEMMA DeleteRsNextKeeps == ASSUME PodInv, NEW x \in Reqs, DeleteRsNext(x) PROVE PodInv'
  <1>1. x \in Threads /\ UNCHANGED <<pod, tpls, rs>> /\ UNCHANGED ctrVars /\ UNCHANGED ctl /\ Asks /\ th[x].pc = "d_next"
    BY ThreadFacts, Zenon DEF DeleteRsNext, psmVars, eventVars, Asks, At
  <1>2. CASE Return(x)
    <2>1. Leads(x)
      BY <1>1, <1>2, ReturnLeads
    <2> QED
      BY <1>1, <2>1, CtrUnchanged, TamedForms, StepKeeps
  <1>3. ASSUME NEW p \in th[x].todo, th' = [th EXCEPT ![x].pc = "r_mark", ![x].q = p, ![x].todo = @ \ {p}]
        PROVE  PodInv'
    <2>0. th[x] \in Frames /\ th \in [Threads -> Frames] /\ ctl \in Lists /\ x # "ctl" /\ RequestOK(th[x], pod) /\ p \in Pods
      BY <1>1, <1>3, ThreadFacts, FrameOf, InvSays DEF Typed, Frames
    <2> DEFINE f == [th[x] EXCEPT !.pc = "r_mark", !.q = p, !.todo = @ \ {p}]
    <2>1. f \in Frames /\ f.pc = "r_mark" /\ f.job = th[x].job /\ f.own = th[x].own
      BY <2>0 DEF Frames, ServicePcs
    <2>2. th' = [th EXCEPT ![x] = f]
      BY <1>3, <2>0
    <2> HIDE DEF f
    <2>3. th[x].job = "delete_rs"
      BY <1>1, <2>0 DEF RequestOK, DeleteRsPcs
    <2>4. RequestOK(f, pod)
      BY <2>0, <2>1, <2>3 DEF RequestOK, ServicePcs, CreatePcs, RemovePcs, StartPcs, DeleteRsPcs
    <2>5. Leads(x)
      BY <1>1, <2>0, <2>1, <2>2, <2>4 DEF Leads, MoveOK
    <2> QED
      BY <1>1, <2>5, CtrUnchanged, TamedForms, StepKeeps
  <1> QED
    BY <1>2, <1>3, Zenon DEF DeleteRsNext

-----------------------------------------------------------------------------
(***************************************************************************)
(* New requests, and what happens to the containers                         *)
(***************************************************************************)
BeginFrame(pc, j, p, q, t) == [Idle EXCEPT !.pc = pc, !.job = j, !.p = p, !.q = q, !.t = t]

\* The frame a request begins with.
LEMMA BeginFrameIs ==
    ASSUME NEW pc \in AllPcs, NEW j \in Jobs, NEW p \in Pods \cup {NoPod}, NEW q \in Pods \cup {NoPod}, NEW t \in Templates
    PROVE  LET f == BeginFrame(pc, j, p, q, t) IN
           f \in Frames /\ f.pc = pc /\ f.job = j /\ f.p = p /\ f.q = q /\ f.t = t /\ ~f.own
  <1>1. Idle \in Frames /\ ~Idle.own
    BY FrameFacts
  <1> QED
    BY <1>1 DEF Frames, AllPcs, BeginFrame

Requested(pc, job) ==
    \/ pc = "c_name" /\ job = "apply"
    \/ pc = "s_read" /\ job = "start"
    \/ pc = "t_stop" /\ job = "stop"
    \/ pc = "r_mark" /\ job = "remove"
    \/ pc = "d_template" /\ job = "delete_rs"

\* A request that begins is where its call allows.
LEMMA RequestBeginsLeads ==
    ASSUME PodInv, NEW x \in Reqs, UNCHANGED ctl,
           NEW pc, NEW job, NEW p \in Pods \cup {NoPod}, NEW q \in Pods \cup {NoPod}, NEW t \in Templates,
           Requested(pc, job), job = "apply" => t = "solo",
           th' = [th EXCEPT ![x] = BeginFrame(pc, job, p, q, t)]
    PROVE  Leads(x)
  <1> DEFINE f == BeginFrame(pc, job, p, q, t)
  <1>0. ctl \in Lists /\ x # "ctl"
    BY ThreadFacts, FrameOf
  <1>1. pc \in AllPcs /\ job \in Jobs
    BY DEF Requested, AllPcs, ServicePcs, Jobs
  <1>2. f \in Frames /\ f.pc = pc /\ f.job = job /\ f.t = t /\ ~f.own
    BY <1>1, BeginFrameIs
  <1> HIDE DEF f
  <1>3. RequestOK(f, pod)
    BY <1>2 DEF RequestOK, Requested, RequestJobs, DeleteRsPcs, ServicePcs, CreatePcs, RemovePcs, StartPcs
  <1> QED
    BY <1>0, <1>2, <1>3 DEF Leads, MoveOK, f

\* An event counted is within the bound.
LEMMA EventTyped ==
    ASSUME PodInv, NEW k \in EventKinds, Event(k)
    PROVE  asked' \in SUBSET EventKinds /\ events' \in 0 .. MaxEvents /\ asked' = asked \cup {k}
  BY InvSays, PodAssumption DEF Event, Typed

\* RequestApply keeps PodInv.
LEMMA RequestApplyKeeps == ASSUME PodInv, NEW x \in Reqs, RequestApply(x) PROVE PodInv'
  <1>1. /\ x \in Threads /\ UNCHANGED <<pod, rs>> /\ UNCHANGED ctrVars /\ UNCHANGED ctl /\ tpls' = tpls \cup {"solo"}
        /\ Event("apply") /\ th' = [th EXCEPT ![x] = [Idle EXCEPT !.pc = "c_name", !.job = "apply", !.t = "solo"]]
    BY ThreadFacts DEF RequestApply, Begin
  <1>2. BeginFrame("c_name", "apply", NoPod, NoPod, "solo") = [Idle EXCEPT !.pc = "c_name", !.job = "apply", !.t = "solo"]
    BY FrameFacts DEF BeginFrame, Frames
  <1>3. "solo" \in Templates
    BY DEF Templates
  <1>4. Leads(x)
    BY <1>1, <1>2, <1>3, RequestBeginsLeads DEF Requested
  <1>5. Around
    BY <1>1, <1>3, EventTyped, CtrUnchanged, InvSays DEF Around, CtrTyped, Typed, EventKinds
  <1> QED
    BY <1>1, <1>4, <1>5, TamedForms, LeadsKeeps

\* RequestPod keeps PodInv.
LEMMA RequestPodKeeps == ASSUME PodInv, NEW x \in Reqs, RequestPod(x) PROVE PodInv'
  <1>1. PICK p \in Pods :
          \/ Begin(x, "start", [Idle EXCEPT !.pc = "s_read", !.job = "start", !.p = p])
          \/ Begin(x, "stop", [Idle EXCEPT !.pc = "t_stop", !.job = "stop", !.p = p])
          \/ Begin(x, "remove", [Idle EXCEPT !.pc = "r_mark", !.job = "remove", !.q = p])
    BY Zenon DEF RequestPod
  <1>2. UNCHANGED <<pod, tpls, rs>> /\ x \in Threads
    BY ThreadFacts, Zenon DEF RequestPod, psmVars
  <1>3. /\ BeginFrame("s_read", "start", p, NoPod, "web") = [Idle EXCEPT !.pc = "s_read", !.job = "start", !.p = p]
        /\ BeginFrame("t_stop", "stop", p, NoPod, "web") = [Idle EXCEPT !.pc = "t_stop", !.job = "stop", !.p = p]
        /\ BeginFrame("r_mark", "remove", NoPod, p, "web") = [Idle EXCEPT !.pc = "r_mark", !.job = "remove", !.q = p]
    BY FrameFacts DEF BeginFrame, Frames
  <1>4. "web" \in Templates /\ p \in Pods \cup {NoPod} /\ NoPod \in Pods \cup {NoPod}
    BY DEF Templates
  <1>5. UNCHANGED ctrVars /\ UNCHANGED ctl /\ Asks
    BY <1>1 DEF Begin, Asks, EventKinds
  <1>6. Leads(x)
    <2>1. CASE Begin(x, "start", [Idle EXCEPT !.pc = "s_read", !.job = "start", !.p = p])
      <3>1. th' = [th EXCEPT ![x] = BeginFrame("s_read", "start", p, NoPod, "web")]
        BY <1>3, <2>1 DEF Begin
      <3>2. Requested("s_read", "start") /\ "start" # "apply"
        BY DEF Requested
      <3> QED
        BY <1>4, <1>5, <3>1, <3>2, RequestBeginsLeads
    <2>2. CASE Begin(x, "stop", [Idle EXCEPT !.pc = "t_stop", !.job = "stop", !.p = p])
      <3>1. th' = [th EXCEPT ![x] = BeginFrame("t_stop", "stop", p, NoPod, "web")]
        BY <1>3, <2>2 DEF Begin
      <3>2. Requested("t_stop", "stop") /\ "stop" # "apply"
        BY DEF Requested
      <3> QED
        BY <1>4, <1>5, <3>1, <3>2, RequestBeginsLeads
    <2>3. CASE Begin(x, "remove", [Idle EXCEPT !.pc = "r_mark", !.job = "remove", !.q = p])
      <3>1. th' = [th EXCEPT ![x] = BeginFrame("r_mark", "remove", NoPod, p, "web")]
        BY <1>3, <2>3 DEF Begin
      <3>2. Requested("r_mark", "remove") /\ "remove" # "apply"
        BY DEF Requested
      <3> QED
        BY <1>4, <1>5, <3>1, <3>2, RequestBeginsLeads
    <2> QED
      BY <1>1, <2>1, <2>2, <2>3
  <1> QED
    BY <1>2, <1>5, <1>6, CtrUnchanged, TamedForms, StepKeeps

\* RequestScale keeps PodInv.
LEMMA RequestScaleKeeps == ASSUME PodInv, NEW x \in Reqs, RequestScale(x) PROVE PodInv'
  <1>1. /\ x \in Threads /\ UNCHANGED <<pod, tpls>> /\ UNCHANGED ctrVars /\ UNCHANGED ctl /\ rs.exists
        /\ Event("scale") /\ Return(x)
    BY ThreadFacts DEF RequestScale, Begin, Return
  <1>2. Leads(x)
    BY <1>1, ReturnLeads
  <1>3. rs' \in [exists : BOOLEAN, replicas : 0 .. MaxReplicas, waiting : BOOLEAN]
    BY InvSays DEF Typed, RequestScale
  <1>4. Around
    BY <1>1, <1>3, EventTyped, CtrUnchanged, InvSays DEF Around, CtrTyped, Typed, EventKinds
  <1> QED
    BY <1>1, <1>2, <1>4, TamedForms, LeadsKeeps

\* RequestDeleteRs keeps PodInv.
LEMMA RequestDeleteRsKeeps == ASSUME PodInv, NEW x \in Reqs, RequestDeleteRs(x) PROVE PodInv'
  <1>1. /\ x \in Threads /\ UNCHANGED <<pod, tpls>> /\ UNCHANGED ctrVars /\ UNCHANGED ctl /\ Event("delete_rs")
        /\ th' = [th EXCEPT ![x] = [Idle EXCEPT !.pc = "d_template", !.job = "delete_rs"]]
        /\ rs' = [exists |-> FALSE, replicas |-> 0, waiting |-> FALSE]
    BY ThreadFacts DEF RequestDeleteRs, Begin
  <1>2. BeginFrame("d_template", "delete_rs", NoPod, NoPod, "web") = [Idle EXCEPT !.pc = "d_template", !.job = "delete_rs"]
    BY FrameFacts DEF BeginFrame, Frames
  <1>3. Leads(x)
    <2>1. "web" \in Templates /\ NoPod \in Pods \cup {NoPod}
      BY DEF Templates
    <2>2. Requested("d_template", "delete_rs") /\ "delete_rs" # "apply"
      BY DEF Requested
    <2>3. th' = [th EXCEPT ![x] = BeginFrame("d_template", "delete_rs", NoPod, NoPod, "web")]
      BY <1>1, <1>2
    <2> QED
      BY <1>1, <2>1, <2>2, <2>3, RequestBeginsLeads
  <1>4. Around
    BY <1>1, EventTyped, CtrUnchanged, InvSays, PodAssumption DEF Around, CtrTyped, Typed, EventKinds
  <1> QED
    BY <1>1, <1>3, <1>4, TamedForms, LeadsKeeps

\* Nothing becomes of any thread.
LEMMA StaysLeads == ASSUME PodInv, UNCHANGED th, UNCHANGED ctl PROVE Leads("ctl")
  <1>1. th["ctl"] \in Frames /\ ctl \in Lists /\ MoveOK("ctl", th["ctl"], ctl, pod) /\ th \in [Threads -> Frames]
    BY InvSays, ThreadFacts, FrameOf DEF Typed
  <1>2. th' = [th EXCEPT !["ctl"] = th["ctl"]]
    BY <1>1
  <1> QED
    BY <1>1, <1>2 DEF Leads

\* ContainerDies keeps PodInv.
LEMMA ContainerDiesKeeps == ASSUME PodInv, NEW p \in Pods, NEW k \in Kinds, ContainerDies(p, k) PROVE PodInv'
  <1>1. UNCHANGED <<tpls, rs>> /\ UNCHANGED th /\ UNCHANGED ctl /\ Asks
    BY DEF ContainerDies, Asks, Kinds, EventKinds
  <1>2. pod' \in Infos /\ Tamed(pod, pod')
    BY StatesKept DEF ContainerDies
  <1>3. ctr' = [ctr EXCEPT ![p][k] = "stopped"] /\ joined' \in SUBSET Pods
    BY InvSays DEF ContainerDies, Typed
  <1>4. CtrTyped
    BY <1>3, CtrChanged
  <1> QED
    BY <1>1, <1>2, <1>4, StaysLeads, ThreadFacts, StepKeeps

\* BackoffEnds keeps PodInv.
LEMMA BackoffEndsKeeps == ASSUME PodInv, BackoffEnds PROVE PodInv'
  <1>1. UNCHANGED <<pod, tpls>> /\ UNCHANGED ctrVars /\ UNCHANGED eventVars /\ UNCHANGED th /\ UNCHANGED ctl
        /\ rs' = [rs EXCEPT !.waiting = FALSE]
    BY DEF BackoffEnds
  <1>2. Around
    BY <1>1, CtrUnchanged, InvSays DEF Around, CtrTyped, Typed, eventVars
  <1> QED
    BY <1>1, <1>2, TamedForms, StaysLeads, ThreadFacts, LeadsKeeps

-----------------------------------------------------------------------------
(***************************************************************************)
(* The controller's tick                                                    *)
(***************************************************************************)
LEMMA CtlFacts ==
    ASSUME PodInv
    PROVE  /\ "ctl" \in Threads /\ th["ctl"] \in Frames /\ ctl \in Lists /\ pod \in Infos /\ th \in [Threads -> Frames]
           /\ OwnedAreWeb(pod)
           /\ ControllerOK(th["ctl"], ctl, pod)
           /\ CallOK(th["ctl"], pod)
           /\ OwnedAreWeb(ctl.pods)
           /\ th["ctl"].pc \in ControllerPcs \cup {"idle"} /\ th["ctl"].pc \notin DeletePcs \cup RecreatePcs => th["ctl"].job = "none"
  <1>1. "ctl" \in Threads /\ th["ctl"] \in Frames /\ ctl \in Lists /\ pod \in Infos /\ th \in [Threads -> Frames]
        /\ OwnedAreWeb(pod) /\ ControllerOK(th["ctl"], ctl, pod)
    BY FrameOf, ThreadFacts, InvSays DEF Typed
  <1>2. CallOK(th["ctl"], pod) /\ OwnedAreWeb(ctl.pods)
    BY <1>1 DEF ControllerOK
  <1>3. th["ctl"].pc \in ControllerPcs \cup {"idle"} /\ th["ctl"].pc \notin DeletePcs \cup RecreatePcs => th["ctl"].job = "none"
    BY <1>2 DEF CallOK, ListJobs, RsJobs, SoloJobs, ControllerPcs, StartPcs, CreatePcs, RemovePcs, DeletePcs, RecreatePcs
  <1> QED
    BY <1>1, <1>2, <1>3

\* The controller may go wherever its frame and list fit.
LEMMA CtlLeads ==
    ASSUME PodInv, NEW f \in Frames, NEW m \in Lists, th' = [th EXCEPT !["ctl"] = f], ctl' = m, ControllerOK(f, m, pod)
    PROVE  Leads("ctl")
  BY DEF Leads, MoveOK

\* The controller that goes on keeps the rest of its frame.
LEMMA CtlGoto ==
    ASSUME PodInv, NEW pc \in AllPcs, Goto("ctl", pc)
    PROVE  \E f \in Frames : /\ th' = [th EXCEPT !["ctl"] = f] /\ f.pc = pc /\ f.job = th["ctl"].job /\ f.own = th["ctl"].own
                             /\ f.p = th["ctl"].p /\ f.q = th["ctl"].q /\ f.t = th["ctl"].t /\ f.todo = th["ctl"].todo
  <1> DEFINE f == [th["ctl"] EXCEPT !.pc = pc]
  <1>1. th' = [th EXCEPT !["ctl"] = f]
    BY CtlFacts DEF Goto
  <1>2. f \in Frames /\ f.pc = pc /\ f.job = th["ctl"].job /\ f.own = th["ctl"].own
        /\ f.p = th["ctl"].p /\ f.q = th["ctl"].q /\ f.t = th["ctl"].t /\ f.todo = th["ctl"].todo
    BY CtlFacts DEF Frames, AllPcs
  <1> QED
    BY <1>1, <1>2

\* Between the ReplicaSet's part of a tick and the next one, nothing is held.
LEMMA Quiet ==
    ASSUME pod \in Infos, NEW c \in Frames, NEW l \in Lists, ControllerOK(c, l, pod), c.pc # "c_owner",
           NEW f \in Frames, NEW m \in Lists, f.job = "none", f.pc \in TickPcs \cup {"rs_end", "solo"},
           OwnedAreWeb(m.pods), rs.exists => \A p \in WebOf(m.pods) : m.pods[p].owned
    PROVE  ControllerOK(f, m, pod)
  <1>1. CallOK(f, pod)
    BY DEF CallOK, RsPcs, SoloPcs, TickPcs, ListJobs, SoloJobs, RsJobs, CreatePcs, RemovePcs, RecreatePcs
  <1>2. ASSUME rs.exists PROVE ListOK(f, m, pod) /\ Within(f, m, pod)
    <2>1. ListOK(c, l, pod) /\ Within(c, l, pod)
      BY <1>2 DEF ControllerOK
    <2>2. Held(f, m) = {} /\ Owed(f, m) = 0
      BY DEF Held, Owed, InList, ListJobs, RsJobs, RsPcs, TickPcs
    <2>3. WebOf(pod) \cup Held(f, m) \in SUBSET (WebOf(pod) \cup Held(c, l))
      BY <2>2
    <2>4. Within(f, m, pod)
      BY <2>1, <2>2, <2>3, HeldArePods, WithinShrinks DEF Within
    <2>5. \A p \in WebOf(pod) : pod[p].owned
      BY <2>1 DEF ListOK
    <2>6. ListOK(f, m, pod)
      BY <1>2, <2>5 DEF ListOK, InList, ListJobs, RsJobs, SoloJobs, RsPcs, TickPcs
    <2> QED
      BY <2>4, <2>6
  <1> QED
    BY <1>1, <1>2 DEF ControllerOK

\* Between its rounds the controller holds no list.
LEMMA CtlIdleIs ==
    /\ CtlIdle \in Lists /\ CtlIdle.todo = {}
    /\ \A p \in Pods : CtlIdle.pods[p] = NoInfo
    /\ OwnedAreWeb(CtlIdle.pods) /\ WebOf(CtlIdle.pods) = {}
  <1>1. CtlIdle \in Lists /\ CtlIdle.todo = {} /\ \A p \in Pods : CtlIdle.pods[p] = NoInfo
    BY InfoFacts, PodAssumption DEF CtlIdle, Lists
  <1> QED
    BY <1>1, InfoFacts DEF OwnedAreWeb, WebOf

\* TickBegin keeps PodInv.
LEMMA TickBeginKeeps == ASSUME PodInv, TickBegin PROVE PodInv'
  <1>1. th["ctl"].pc = "idle" /\ UNCHANGED <<pod, tpls, rs>> /\ UNCHANGED ctrVars /\ Asks /\ Goto("ctl", "l_templates")
    BY DEF TickBegin, At, psmVars, eventVars, Asks
  <1> DEFINE m == [CtlIdle EXCEPT !.listed = rs.exists, !.skip = rs.waiting, !.replicas = IF rs.exists THEN rs.replicas ELSE 0]
  <1>2. ctl' = m
    BY DEF TickBegin
  <1>3. m \in Lists /\ m.pods = CtlIdle.pods
    <2>1. rs.exists \in BOOLEAN /\ rs.waiting \in BOOLEAN /\ (IF rs.exists THEN rs.replicas ELSE 0) \in 0 .. MaxReplicas
      BY InvSays, PodAssumption DEF Typed
    <2> QED
      BY <2>1, CtlIdleIs DEF Lists
  <1> HIDE DEF m
  <1>4. PICK f \in Frames : th' = [th EXCEPT !["ctl"] = f] /\ f.pc = "l_templates" /\ f.job = th["ctl"].job
    <2>1. "l_templates" \in AllPcs
      BY DEF AllPcs, ControllerPcs
    <2> QED
      BY <1>1, <2>1, CtlGoto
  <1>5. f.job = "none"
    BY <1>1, <1>4, CtlFacts DEF DeletePcs, RecreatePcs
  <1>6. ControllerOK(f, m, pod)
    BY <1>1, <1>3, <1>4, <1>5, CtlFacts, CtlIdleIs, Quiet DEF TickPcs
  <1>7. Leads("ctl")
    BY <1>2, <1>3, <1>4, <1>6, CtlLeads
  <1> QED
    BY <1>1, <1>7, CtlFacts, CtrUnchanged, TamedForms, StepKeeps

\* TickTemplates keeps PodInv.
LEMMA TickTemplatesKeeps == ASSUME PodInv, TickTemplates PROVE PodInv'
  <1>1. th["ctl"].pc = "l_templates" /\ UNCHANGED <<pod, tpls, rs>> /\ UNCHANGED ctrVars /\ Asks
        /\ (Return("ctl") \/ Goto("ctl", "l_pods"))
    BY DEF TickTemplates, At, psmVars, eventVars, Asks
  <1> DEFINE m == [ctl EXCEPT !.tpls = tpls]
  <1>2. ctl' = m
    BY DEF TickTemplates
  <1>3. m \in Lists /\ m.pods = ctl.pods
    BY CtlFacts, InvSays DEF Lists, Typed
  <1> HIDE DEF m
  <1>4. PICK f \in Frames : th' = [th EXCEPT !["ctl"] = f] /\ f.pc \in TickPcs /\ f.job = "none"
    <2>1. CASE Return("ctl")
      BY <2>1, FrameFacts DEF Return, TickPcs
    <2>2. CASE Goto("ctl", "l_pods")
      <3>1. "l_pods" \in AllPcs
        BY DEF AllPcs, ControllerPcs
      <3>2. th["ctl"].job = "none"
        BY <1>1, CtlFacts DEF ControllerPcs, DeletePcs, RecreatePcs
      <3> QED
        BY <2>2, <3>1, <3>2, CtlGoto DEF TickPcs
    <2> QED
      BY <1>1, <2>1, <2>2
  <1>5. rs.exists => \A p \in WebOf(m.pods) : m.pods[p].owned
    BY <1>3, CtlFacts DEF ControllerOK, ListOK
  <1>6. ControllerOK(f, m, pod)
    BY <1>1, <1>3, <1>4, <1>5, CtlFacts, Quiet
  <1>7. Leads("ctl")
    BY <1>2, <1>3, <1>4, <1>6, CtlLeads
  <1> QED
    BY <1>1, <1>7, CtlFacts, CtrUnchanged, TamedForms, StepKeeps

\* TickPods keeps PodInv.
LEMMA TickPodsKeeps == ASSUME PodInv, TickPods PROVE PodInv'
  <1>1. th["ctl"].pc = "l_pods" /\ UNCHANGED <<pod, tpls, rs>> /\ UNCHANGED ctrVars /\ Asks
    BY DEF TickPods, At, psmVars, eventVars, Asks
  <1> DEFINE mine == {p \in Pods : Managed(pod[p])}
             on == ctl.listed /\ ~ctl.skip
             m == [ctl EXCEPT !.pods = pod, !.todo = IF on THEN mine ELSE {}]
  <1>2. ctl' = m /\ Goto("ctl", IF on THEN "rs_clean" ELSE "solo")
    BY DEF TickPods
  <1>3. m \in Lists /\ m.pods = pod /\ m.todo = IF on THEN mine ELSE {}
    <2>1. mine \in SUBSET Pods
      OBVIOUS
    <2> HIDE DEF mine, on
    <2> QED
      BY <2>1, CtlFacts DEF Lists, Infos
  <1>4. PICK f \in Frames : th' = [th EXCEPT !["ctl"] = f] /\ f.pc = (IF on THEN "rs_clean" ELSE "solo") /\ f.job = th["ctl"].job
    <2>1. "rs_clean" \in AllPcs /\ "solo" \in AllPcs
      BY DEF AllPcs, ControllerPcs
    <2> QED
      BY <1>2, <2>1, CtlGoto
  <1>5. f.job = "none"
    BY <1>1, <1>4, CtlFacts DEF ControllerPcs, DeletePcs, RecreatePcs
  <1>6. rs.exists => \A p \in WebOf(pod) : pod[p].owned
    BY <1>1, CtlFacts DEF ControllerOK, ListOK
  <1>7. rs.exists => mine = WebOf(pod)
    BY <1>6, CtlFacts DEF Managed, WebOf, OwnedAreWeb
  <1> HIDE DEF m, on, mine
  <1>8. ControllerOK(f, m, pod)
    <2>1. CASE ~on
      BY <1>1, <1>3, <1>4, <1>5, <1>6, <2>1, CtlFacts, Quiet
    <2>2. CASE on
      <3>1. CallOK(f, pod)
        BY <1>4, <1>5, <2>2 DEF CallOK, RsPcs, SoloPcs, TickPcs, ListJobs, SoloJobs, RsJobs, CreatePcs, RemovePcs, RecreatePcs
      <3>2. ASSUME rs.exists PROVE ListOK(f, m, pod) /\ Within(f, m, pod)
        <4>1. m.todo = WebOf(pod) /\ m.pods = pod
          BY <1>3, <1>7, <2>2, <3>2
        <4>2. ListOK(f, m, pod)
          BY <1>4, <1>5, <1>6, <2>2, <3>2, <4>1 DEF ListOK, SoloJobs
        <4>3. Held(f, m) = WebOf(pod) /\ Owed(f, m) = 0
          BY <1>4, <1>5, <2>2, <4>1 DEF Held, Owed, InList, RsPcs
        <4>4. ListOK(th["ctl"], ctl, pod) /\ Within(th["ctl"], ctl, pod)
          BY <3>2, CtlFacts DEF ControllerOK
        <4>5. WebOf(pod) \cup Held(f, m) \in SUBSET (WebOf(pod) \cup Held(th["ctl"], ctl))
          BY <4>3
        <4> QED
          BY <4>2, <4>3, <4>4, <4>5, CtlFacts, HeldArePods, WithinShrinks DEF Within
      <3> QED
        BY <1>3, <3>1, <3>2, CtlFacts DEF ControllerOK
    <2> QED
      BY <2>1, <2>2
  <1>9. Leads("ctl")
    BY <1>2, <1>3, <1>4, <1>8, CtlLeads
  <1> QED
    BY <1>1, <1>9, CtlFacts, CtrUnchanged, TamedForms, StepKeeps

-----------------------------------------------------------------------------
(***************************************************************************)
(* The ReplicaSet's part of a tick                                          *)
(***************************************************************************)
Trim(l, todo, n) == [l EXCEPT !.todo = todo, !.n = n]

\* A trimmed list keeps the pods it was made from.
LEMMA TrimIs ==
    ASSUME NEW l \in Lists, NEW todo \in SUBSET Pods, NEW n \in Nat
    PROVE  /\ Trim(l, todo, n) \in Lists
           /\ Trim(l, todo, n).pods = l.pods /\ Trim(l, todo, n).todo = todo /\ Trim(l, todo, n).n = n
  BY DEF Trim, Lists

\* The loop over the list goes on, or calls for a pod of it: what is held and
\* what is owed then is what was.
LEMMA ListCalls ==
    ASSUME pod \in Infos, NEW c \in Frames, NEW l \in Lists, ControllerOK(c, l, pod), c.job = "none", c.pc \in RsPcs,
           NEW f \in Frames, NEW m \in Lists, m.pods = l.pods, m.todo \subseteq l.todo, CallOK(f, pod), InList(f),
           f.job \in ListJobs \ {"clean"} \/ f.pc \in RsPcs \ {"rs_clean"},
           f.job = "first_start" => f.p \in l.todo \ m.todo,
           f.job = "recreate" => f.pc \in RecreatePcs /\ f.q \in l.todo \ m.todo,
           f.job = "new" => f.own \/ f.pc \notin CreatePcs \cup RemovePcs,
           Owed(f, m) \in Nat, Cardinality(WebOf(pod) \cup Held(c, l)) + Owed(f, m) <= MaxReplicas \/ Owed(f, m) <= Owed(c, l)
    PROVE  ControllerOK(f, m, pod)
  <1>1. ASSUME rs.exists PROVE ListOK(f, m, pod) /\ Within(f, m, pod)
    <2>1. ListOK(c, l, pod) /\ Within(c, l, pod)
      BY <1>1 DEF ControllerOK
    <2>2. l.todo \subseteq WebOf(l.pods)
      BY <2>1 DEF ListOK, InList
    <2>3. \A p \in WebOf(pod) : pod[p].owned
      BY <2>1 DEF ListOK, RsPcs
    <2>4. f.job \notin SoloJobs /\ f.job # "clean" /\ f.pc # "solo_pods" /\ f.pc # "rs_clean"
      BY DEF CallOK, ListJobs, RsJobs, SoloJobs, RsPcs, InList, SoloPcs, DeletePcs, StartPcs, CreatePcs, RemovePcs, RecreatePcs
    <2>5. ListOK(f, m, pod)
      <3>1. WebOf(m.pods) = WebOf(l.pods) /\ \A p \in WebOf(m.pods) : m.pods[p].owned
        BY <2>1 DEF ListOK
      <3>2. m.todo \subseteq WebOf(m.pods)
        BY <2>2, <3>1
      <3>3. f.job = "first_start" => f.p \in WebOf(m.pods) \ m.todo
        BY <2>2, <3>1
      <3>4. f.job = "recreate" => f.q \in WebOf(m.pods) \ m.todo
        BY <2>2, <3>1
      <3>5. f.job \in {"new", "recreate"} /\ f.pc \in CreatePcs \cup RemovePcs => f.own
        BY DEF RecreatePcs, CreatePcs, RemovePcs
      <3>6. f.job # "solo_recreate"
        BY <2>4 DEF SoloJobs
      <3> QED
        BY <2>3, <2>4, <3>1, <3>2, <3>3, <3>4, <3>5, <3>6 DEF ListOK
    <2>6. Held(c, l) = l.todo
      BY DEF Held, InList
    <2>7. Held(f, m) \subseteq Held(c, l)
      BY <2>6 DEF Held
    <2>8. WebOf(pod) \cup Held(f, m) \in SUBSET (WebOf(pod) \cup Held(c, l)) /\ WebOf(pod) \cup Held(c, l) \in SUBSET Pods /\ Owed(c, l) \in Nat
      BY <2>1, <2>7, HeldArePods
    <2>9. Within(f, m, pod)
      <3>1. CASE Cardinality(WebOf(pod) \cup Held(c, l)) + Owed(f, m) <= MaxReplicas
        BY <2>8, <3>1, WithinShrinks DEF Within
      <3>2. CASE Owed(f, m) <= Owed(c, l)
        BY <2>1, <2>8, <3>2, WithinShrinks DEF Within
      <3> QED
        BY <3>1, <3>2
    <2> QED
      BY <2>5, <2>9
  <1> QED
    BY <1>1 DEF ControllerOK

\* RsClean keeps PodInv.
LEMMA RsCleanKeeps == ASSUME PodInv, RsClean PROVE PodInv'
  <1> DEFINE c == th["ctl"]
             current == Cardinality(ctl.todo)
  <1>1. c.pc = "rs_clean" /\ UNCHANGED <<pod, tpls, rs>> /\ UNCHANGED ctrVars /\ Asks
    BY Zenon DEF RsClean, At, psmVars, eventVars, Asks
  <1>2. c.job = "none"
    BY <1>1, CtlFacts DEF ControllerPcs, DeletePcs, RecreatePcs
  <1>3. current \in Nat /\ ctl.todo \in SUBSET Pods /\ ctl.replicas \in 0 .. MaxReplicas /\ ctl.n \in Nat
    BY CtlFacts, PodsFinite DEF Lists
  <1>4. InList(c) /\ Held(c, ctl) = ctl.todo
    BY <1>1, <1>2 DEF InList, Held, RsPcs
  <1>5. rs.exists => ListOK(c, ctl, pod) /\ Within(c, ctl, pod) /\ WebOf(pod) \subseteq ctl.todo
    BY <1>1, CtlFacts DEF ControllerOK, ListOK
  <1>6. ASSUME NEW p \in ctl.todo, ctl' = [ctl EXCEPT !.todo = @ \ {p}], CtlCall("x_mark", "clean", NoPod, p)
        PROVE  Leads("ctl")
    <2> DEFINE f == FullFrame(c, "x_mark", "clean", NoPod, p)
               m == [ctl EXCEPT !.todo = @ \ {p}]
    <2>0. "x_mark" \in AllPcs /\ "clean" \in Jobs /\ p \in Pods \cup {NoPod} /\ NoPod \in Pods \cup {NoPod}
      BY <1>3 DEF AllPcs, ControllerPcs, Jobs
    <2>1. f \in Frames /\ f.pc = "x_mark" /\ f.job = "clean" /\ f.q = p /\ ~f.own
      BY <2>0, CtlFacts, FullFrameIs
    <2>2. th' = [th EXCEPT !["ctl"] = f]
      BY <1>6 DEF CtlCall, FullFrame
    <2>3. m \in Lists /\ m.pods = ctl.pods /\ m.todo = ctl.todo \ {p} /\ m.n = ctl.n
      BY CtlFacts DEF Lists
    <2> HIDE DEF f, m
    <2>4. CallOK(f, pod)
      BY <2>1 DEF CallOK, ListJobs, RsJobs, SoloJobs, CreatePcs, RemovePcs, DeletePcs, RecreatePcs
    <2>5. ASSUME rs.exists PROVE ListOK(f, m, pod) /\ Within(f, m, pod)
      <3>1. \A r \in WebOf(pod) : pod[r].owned
        BY <1>1, <1>5, <2>5 DEF ListOK
      <3>2. ListOK(f, m, pod)
        BY <1>4, <1>5, <2>1, <2>3, <2>5, <3>1 DEF ListOK, ListJobs, RsJobs, SoloJobs
      <3>3. Owed(f, m) = 0 /\ WebOf(pod) \cup Held(f, m) \in SUBSET (WebOf(pod) \cup Held(c, ctl))
        BY <1>4, <2>1, <2>3 DEF Owed, Held
      <3> QED
        BY <1>5, <2>5, <3>2, <3>3, CtlFacts, HeldArePods, WithinShrinks DEF Within
    <2>6. ControllerOK(f, m, pod)
      BY <2>3, <2>4, <2>5, CtlFacts DEF ControllerOK
    <2> QED
      BY <1>6, <2>1, <2>2, <2>3, <2>6, CtlLeads DEF m
  <1>7. ASSUME current < ctl.replicas, ctl' = [ctl EXCEPT !.n = ctl.replicas - current], Goto("ctl", "rs_more")
        PROVE  Leads("ctl")
    <2> DEFINE m == [ctl EXCEPT !.n = ctl.replicas - current]
    <2>1. m \in Lists /\ m.pods = ctl.pods /\ m.todo = ctl.todo /\ m.n = ctl.replicas - current
      <3>1. ctl.replicas - current \in Nat
        BY <1>3, <1>7, PodAssumption
      <3> QED
        BY <3>1, CtlFacts DEF Lists
    <2> HIDE DEF m
    <2>2. PICK f \in Frames : th' = [th EXCEPT !["ctl"] = f] /\ f.pc = "rs_more" /\ f.job = "none"
      <3>1. "rs_more" \in AllPcs
        BY DEF AllPcs, ControllerPcs
      <3> QED
        BY <1>2, <1>7, <3>1, CtlGoto
    <2>3. CallOK(f, pod) /\ InList(f)
      BY <2>2 DEF CallOK, InList, RsPcs, ListJobs, RsJobs, SoloJobs, CreatePcs, RemovePcs, RecreatePcs
    <2>4. ASSUME rs.exists PROVE ListOK(f, m, pod) /\ Within(f, m, pod)
      <3>1. \A r \in WebOf(pod) : pod[r].owned
        BY <1>1, <1>5, <2>4 DEF ListOK
      <3>2. ListOK(f, m, pod)
        BY <1>4, <1>5, <2>1, <2>2, <2>4, <3>1 DEF ListOK, SoloJobs
      <3>3. Held(f, m) = ctl.todo /\ Owed(f, m) = ctl.replicas - current
        BY <2>1, <2>2, <2>3 DEF Held, Owed
      <3>4. WebOf(pod) \cup Held(f, m) = ctl.todo
        BY <1>5, <2>4, <3>3
      <3>5. Cardinality(WebOf(pod) \cup Held(f, m)) = current
        BY <3>4
      <3>6. current + (ctl.replicas - current) <= MaxReplicas
        <4>1. \A a \in Nat, b \in 0 .. MaxReplicas : a + (b - a) <= MaxReplicas
          BY PodAssumption
        <4> QED
          BY <1>3, <4>1
      <3> QED
        BY <3>2, <3>3, <3>5, <3>6 DEF Within
    <2>5. ControllerOK(f, m, pod)
      BY <2>1, <2>3, <2>4, CtlFacts DEF ControllerOK
    <2> QED
      BY <1>7, <2>1, <2>2, <2>5, CtlLeads DEF m
  <1>8. ASSUME current >= ctl.replicas, ctl' = [ctl EXCEPT !.n = current - ctl.replicas],
               th' = [th EXCEPT !["ctl"].pc = "rs_less", !["ctl"].todo = ctl.todo]
        PROVE  Leads("ctl")
    <2> DEFINE m == [ctl EXCEPT !.n = current - ctl.replicas]
               f == [th["ctl"] EXCEPT !.pc = "rs_less", !.todo = ctl.todo]
    <2>1. m \in Lists /\ m.pods = ctl.pods /\ m.todo = ctl.todo
      <3>1. current - ctl.replicas \in Nat
        BY <1>3, <1>8, PodAssumption
      <3> QED
        BY <3>1, CtlFacts DEF Lists
    <2>2. f \in Frames /\ f.pc = "rs_less" /\ f.job = "none"
      BY <1>2, <1>3, CtlFacts DEF Frames, ControllerPcs
    <2>3. th' = [th EXCEPT !["ctl"] = f]
      BY <1>8, CtlFacts
    <2> HIDE DEF f, m
    <2>4. CallOK(f, pod) /\ InList(f)
      BY <2>2 DEF CallOK, InList, RsPcs, ListJobs, RsJobs, SoloJobs, CreatePcs, RemovePcs, RecreatePcs
    <2>5. Owed(f, m) = 0 /\ Owed(c, ctl) = 0
      BY <1>1, <1>2, <2>2 DEF Owed
    <2>6. c.pc \in RsPcs /\ f.pc \in RsPcs \ {"rs_clean"} /\ Owed(f, m) \in Nat /\ Owed(f, m) <= Owed(c, ctl)
          /\ f.job \notin {"first_start", "recreate", "new"}
      BY <1>1, <2>2, <2>5 DEF RsPcs
    <2>7. ControllerOK(f, m, pod)
      BY <1>2, <2>1, <2>2, <2>4, <2>6, CtlFacts, ListCalls
    <2> QED
      BY <1>8, <2>1, <2>2, <2>3, <2>7, CtlLeads DEF m
  <1>9. Leads("ctl")
    <2>1. \/ \E p \in ctl.todo : ctl' = [ctl EXCEPT !.todo = @ \ {p}] /\ CtlCall("x_mark", "clean", NoPod, p)
          \/ current < ctl.replicas /\ ctl' = [ctl EXCEPT !.n = ctl.replicas - current] /\ Goto("ctl", "rs_more")
          \/ /\ current >= ctl.replicas /\ ctl' = [ctl EXCEPT !.n = current - ctl.replicas]
             /\ th' = [th EXCEPT !["ctl"].pc = "rs_less", !["ctl"].todo = ctl.todo]
      BY Zenon DEF RsClean, StoppedByUser
    <2> QED
      BY <1>6, <1>7, <1>8, <2>1, Zenon
  <1> QED
    BY <1>1, <1>9, CtlFacts, CtrUnchanged, TamedForms, StepKeeps

NewFrame == [Idle EXCEPT !.pc = "c_template", !.job = "new", !.own = TRUE]
NextLess(f, p) == [Idle EXCEPT !.pc = "x_mark", !.job = "excess", !.q = p, !.todo = f.todo \ {p}]

\* RsMore keeps PodInv.
LEMMA RsMoreKeeps == ASSUME PodInv, RsMore PROVE PodInv'
  <1> DEFINE c == th["ctl"]
  <1>1. c.pc = "rs_more" /\ UNCHANGED <<pod, tpls, rs>> /\ UNCHANGED ctrVars /\ Asks
    BY DEF RsMore, At, psmVars, eventVars, Asks
  <1>2. c.job = "none" /\ c.pc \in RsPcs /\ Owed(c, ctl) = ctl.n /\ ctl.n \in Nat
    BY <1>1, CtlFacts DEF ControllerPcs, DeletePcs, RecreatePcs, RsPcs, Owed, Lists
  <1>3. CASE ctl.n = 0
    <2>1. PICK pc \in {"rs_end", "rs_pods"} : Goto("ctl", pc) /\ ctl' = ctl
      BY <1>3 DEF RsMore
    <2>2. PICK f \in Frames : th' = [th EXCEPT !["ctl"] = f] /\ f.pc = pc /\ f.job = "none"
      <3>1. pc \in AllPcs
        BY <2>1 DEF AllPcs, ControllerPcs
      <3> QED
        BY <1>2, <2>1, <3>1, CtlGoto
    <2>3. InList(c) /\ c.pc # "c_owner"
      BY <1>1, <1>2 DEF InList
    <2>4. ControllerOK(f, ctl, pod)
      BY <2>1, <2>2, <2>3, CtlFacts, Loops
    <2>5. Leads("ctl")
      BY <2>1, <2>2, <2>4, CtlFacts, CtlLeads
    <2> QED
      BY <1>1, <2>5, CtlFacts, CtrUnchanged, TamedForms, StepKeeps
  <1>4. CASE ctl.n # 0
    <2> DEFINE m == [ctl EXCEPT !.n = @ - 1]
    <2>1. ctl' = m /\ th' = [th EXCEPT !["ctl"] = NewFrame]
      BY <1>4 DEF RsMore, NewFrame
    <2>2. m \in Lists /\ m.pods = ctl.pods /\ m.todo = ctl.todo /\ m.n = ctl.n - 1
      <3>1. ctl.n - 1 \in Nat
        BY <1>2, <1>4
      <3> QED
        BY <3>1, CtlFacts DEF Lists
    <2> HIDE DEF m
    <2>3. NewFrame \in Frames /\ NewFrame.pc = "c_template" /\ NewFrame.job = "new" /\ NewFrame.own /\ NewFrame.t = "web"
      BY FrameFacts DEF NewFrame, Frames, ServicePcs, Jobs
    <2>4. CallOK(NewFrame, pod) /\ InList(NewFrame)
      BY <2>3 DEF CallOK, InList, ListJobs, RsJobs, SoloJobs, CreatePcs, RemovePcs, RecreatePcs
    <2>5. Owed(NewFrame, m) = ctl.n
      BY <1>2, <2>2, <2>3 DEF Owed, CreatePcs
    <2>6. NewFrame.job \in ListJobs \ {"clean"} /\ NewFrame.job \notin {"first_start", "recreate"}
          /\ Owed(NewFrame, m) \in Nat /\ Owed(NewFrame, m) <= Owed(c, ctl)
      BY <1>2, <2>3, <2>5 DEF ListJobs
    <2>7. ControllerOK(NewFrame, m, pod)
      BY <1>2, <2>2, <2>3, <2>4, <2>6, CtlFacts, ListCalls
    <2>8. Leads("ctl")
      BY <2>1, <2>2, <2>3, <2>7, CtlLeads
    <2> QED
      BY <1>1, <2>8, CtlFacts, CtrUnchanged, TamedForms, StepKeeps
  <1> QED
    BY <1>3, <1>4

\* RsLess keeps PodInv.
LEMMA RsLessKeeps == ASSUME PodInv, RsLess PROVE PodInv'
  <1> DEFINE c == th["ctl"]
  <1>1. c.pc = "rs_less" /\ UNCHANGED <<pod, tpls, rs>> /\ UNCHANGED ctrVars /\ Asks
    BY Zenon DEF RsLess, At, psmVars, eventVars, Asks
  <1>2. c.job = "none" /\ c.pc \in RsPcs /\ Owed(c, ctl) = 0 /\ ctl.n \in Nat /\ InList(c)
    BY <1>1, CtlFacts DEF ControllerPcs, DeletePcs, RecreatePcs, RsPcs, Owed, Lists, InList
  <1>3. ASSUME th' = [th EXCEPT !["ctl"] = [Idle EXCEPT !.pc = "rs_pods"]], UNCHANGED ctl PROVE Leads("ctl")
    <2> DEFINE f == [Idle EXCEPT !.pc = "rs_pods"]
    <2>1. f \in Frames /\ f.pc = "rs_pods" /\ f.job = "none"
      BY FrameFacts DEF Frames, ControllerPcs
    <2>2. th' = [th EXCEPT !["ctl"] = f]
      BY <1>3
    <2> HIDE DEF f
    <2>3. ControllerOK(f, ctl, pod)
      BY <1>1, <1>2, <2>1, CtlFacts, Loops
    <2> QED
      BY <1>3, <2>1, <2>2, <2>3, CtlFacts, CtlLeads
  <1>4. ASSUME ctl.n > 0, ctl' = [ctl EXCEPT !.n = @ - 1], NEW p \in c.todo, th' = [th EXCEPT !["ctl"] = NextLess(c, p)]
        PROVE  Leads("ctl")
    <2> DEFINE m == [ctl EXCEPT !.n = @ - 1]
               f == NextLess(c, p)
    <2>1. f \in Frames /\ f.pc = "x_mark" /\ f.job = "excess"
      <3>1. c.todo \ {p} \in SUBSET Pods /\ p \in Pods
        BY <1>4, CtlFacts DEF Frames
      <3> QED
        BY <3>1, FrameFacts DEF Frames, NextLess, ControllerPcs, Jobs
    <2>2. m \in Lists /\ m.pods = ctl.pods /\ m.todo = ctl.todo
      <3>1. ctl.n - 1 \in Nat
        BY <1>2, <1>4
      <3> QED
        BY <3>1, CtlFacts DEF Lists
    <2>3. ctl' = m /\ th' = [th EXCEPT !["ctl"] = f]
      BY <1>4
    <2> HIDE DEF f, m
    <2>4. CallOK(f, pod) /\ InList(f)
      BY <2>1 DEF CallOK, InList, ListJobs, RsJobs, SoloJobs, CreatePcs, RemovePcs, DeletePcs, RecreatePcs
    <2>5. f.job \in ListJobs \ {"clean"} /\ f.job \notin {"first_start", "recreate", "new"} /\ Owed(f, m) = 0
      BY <2>1 DEF ListJobs, Owed
    <2>6. Owed(f, m) \in Nat /\ Owed(f, m) <= Owed(c, ctl)
      BY <1>2, <2>5
    <2>7. ControllerOK(f, m, pod)
      BY <1>2, <2>1, <2>2, <2>4, <2>5, <2>6, CtlFacts, ListCalls
    <2> QED
      BY <2>1, <2>2, <2>3, <2>7, CtlLeads
  <1>5. Leads("ctl")
    <2>1. \/ th' = [th EXCEPT !["ctl"] = [Idle EXCEPT !.pc = "rs_pods"]] /\ UNCHANGED ctl
          \/ /\ ctl.n > 0 /\ ctl' = [ctl EXCEPT !.n = @ - 1]
             /\ \E p \in c.todo : th' = [th EXCEPT !["ctl"] = NextLess(c, p)]
      BY Zenon DEF RsLess, NextLess
    <2> QED
      BY <1>3, <1>4, <2>1, Zenon
  <1> QED
    BY <1>1, <1>5, CtlFacts, CtrUnchanged, TamedForms, StepKeeps

\* RsPods keeps PodInv.
LEMMA RsPodsKeeps == ASSUME PodInv, RsPods PROVE PodInv'
  <1> DEFINE c == th["ctl"]
             Listed(p) == [ctl EXCEPT !.todo = @ \ {p}]
  <1>1. c.pc = "rs_pods" /\ UNCHANGED <<pod, tpls, rs>> /\ UNCHANGED ctrVars /\ Asks
    BY Zenon DEF RsPods, At, psmVars, eventVars, Asks
  <1>2. c.job = "none" /\ c.pc \in RsPcs /\ Owed(c, ctl) = 0 /\ InList(c) /\ c.pc # "c_owner"
    BY <1>1, CtlFacts DEF ControllerPcs, DeletePcs, RecreatePcs, RsPcs, Owed, InList
  <1>3. CASE Loop("rs_end") /\ UNCHANGED ctl
    <2>1. Leads("ctl")
      BY <1>2, <1>3, CtlFacts, LoopLeads DEF RsPcs
    <2> QED
      BY <1>1, <2>1, CtlFacts, CtrUnchanged, TamedForms, StepKeeps
  <1>4. ASSUME NEW p \in ctl.todo, NEW m, m = [ctl EXCEPT !.todo = @ \ {p}], ctl' = m,
               \/ CtlCall("re_containers", "recreate", NoPod, p)
               \/ CtlCall("s_read", "restart", p, NoPod)
               \/ CtlCall("s_read", "first_start", p, NoPod)
               \/ Loop("rs_pods")
        PROVE  Leads("ctl")
    <2>1. m \in Lists /\ m.pods = ctl.pods /\ m.todo = ctl.todo \ {p} /\ m.n = ctl.n /\ p \in Pods
      BY <1>4, CtlFacts DEF Lists
    <2>2. CASE Loop("rs_pods")
      BY <1>2, <1>4, <2>1, <2>2, LoopLeads
    <2>3. ASSUME NEW pc, NEW j, NEW s \in Pods \cup {NoPod}, NEW r \in Pods \cup {NoPod}, CtlCall(pc, j, s, r),
                 \/ pc = "re_containers" /\ j = "recreate" /\ r = p
                 \/ pc = "s_read" /\ j = "restart"
                 \/ pc = "s_read" /\ j = "first_start" /\ s = p
          PROVE  Leads("ctl")
      <3> DEFINE f == FullFrame(c, pc, j, s, r)
      <3>1. pc \in AllPcs /\ j \in Jobs
        BY <2>3 DEF AllPcs, ControllerPcs, ServicePcs, Jobs, RsJobs
      <3>2. f \in Frames /\ f.pc = pc /\ f.job = j /\ f.p = s /\ f.q = r /\ ~f.own
        BY <3>1, CtlFacts, FullFrameIs
      <3>3. th' = [th EXCEPT !["ctl"] = f]
        BY <2>3 DEF CtlCall, FullFrame
      <3> HIDE DEF f
      <3>4. CallOK(f, pod) /\ InList(f)
        BY <2>1, <2>3, <3>2 DEF CallOK, InList, ListJobs, RsJobs, SoloJobs, CreatePcs, RemovePcs, StartPcs, RecreatePcs
      <3>5. f.job \in ListJobs \ {"clean"} /\ f.job # "new" /\ Owed(f, m) = 0
            /\ (f.job = "first_start" => f.p \in ctl.todo \ m.todo)
            /\ (f.job = "recreate" => f.pc \in RecreatePcs /\ f.q \in ctl.todo \ m.todo)
        BY <2>1, <2>3, <3>2 DEF ListJobs, RsJobs, Owed, RecreatePcs, CreatePcs, RemovePcs
      <3>6. Owed(f, m) \in Nat /\ Owed(f, m) <= Owed(c, ctl) /\ m.todo \subseteq ctl.todo
        BY <1>2, <2>1, <3>5
      <3>7. ControllerOK(f, m, pod)
        BY <1>2, <2>1, <3>2, <3>4, <3>5, <3>6, CtlFacts, ListCalls
      <3> QED
        BY <1>4, <2>1, <3>2, <3>3, <3>7, CtlLeads
    <2>4. NoPod \in Pods \cup {NoPod} /\ p \in Pods \cup {NoPod}
      BY <2>1
    <2> QED
      BY <1>4, <2>2, <2>3, <2>4
  <1>5. CASE ~(Loop("rs_end") /\ UNCHANGED ctl)
    <2>1. PICK p \in ctl.todo :
            /\ ctl' = [ctl EXCEPT !.todo = @ \ {p}]
            /\ CASE ~InfraRunning(p) -> CtlCall("re_containers", "recreate", NoPod, p)
                 [] InfraRunning(p) /\ ctl.pods[p].state \in {"degraded", "stopped"} ->
                        CtlCall("s_read", "restart", p, NoPod)
                 [] InfraRunning(p) /\ ctl.pods[p].state = "created" ->
                        CtlCall("s_read", "first_start", p, NoPod)
                 [] OTHER -> Loop("rs_pods")
      BY <1>5, Zenon DEF RsPods
    <2>2. \/ CtlCall("re_containers", "recreate", NoPod, p)
          \/ CtlCall("s_read", "restart", p, NoPod)
          \/ CtlCall("s_read", "first_start", p, NoPod)
          \/ Loop("rs_pods")
      BY <2>1
    <2>3. Leads("ctl")
      BY <1>4, <2>1, <2>2
    <2> QED
      BY <1>1, <2>3, CtlFacts, CtrUnchanged, TamedForms, StepKeeps
  <1> QED
    BY <1>3, <1>5

\* RsEnd keeps PodInv.
LEMMA RsEndKeeps == ASSUME PodInv, RsEnd PROVE PodInv'
  <1>1. th["ctl"].pc = "rs_end" /\ UNCHANGED <<pod, tpls>> /\ UNCHANGED ctrVars /\ UNCHANGED eventVars
    BY DEF RsEnd, At
  <1> DEFINE m == [ctl EXCEPT !.failed = FALSE, !.todo = {}, !.n = 0, !.replicas = 0]
             f == [Idle EXCEPT !.pc = "solo"]
  <1>2. ctl' = m /\ th' = [th EXCEPT !["ctl"] = f]
    BY DEF RsEnd
  <1>3. m \in Lists /\ m.pods = ctl.pods
    <2>1. 0 \in 0 .. MaxReplicas /\ 0 \in Nat /\ {} \in SUBSET Pods
      BY PodAssumption
    <2> QED
      BY <2>1, CtlFacts DEF Lists
  <1>4. f \in Frames /\ f.pc = "solo" /\ f.job = "none"
    BY FrameFacts DEF Frames, ControllerPcs
  <1> HIDE DEF f, m
  <1>5. rs.exists => \A p \in WebOf(m.pods) : m.pods[p].owned
    BY <1>3, CtlFacts DEF ControllerOK, ListOK
  <1>6. ControllerOK(f, m, pod)
    BY <1>1, <1>3, <1>4, <1>5, CtlFacts, Quiet
  <1>7. Leads("ctl")
    BY <1>2, <1>3, <1>4, <1>6, CtlLeads
  <1>8. rs' \in [exists : BOOLEAN, replicas : 0 .. MaxReplicas, waiting : BOOLEAN]
        /\ rs'.exists = rs.exists /\ rs'.replicas = rs.replicas
    BY CtlFacts, InvSays DEF RsEnd, Typed, Lists
  <1>9. Around
    BY <1>1, <1>8, CtrUnchanged, InvSays DEF Around, CtrTyped, Typed, eventVars
  <1> QED
    BY <1>1, <1>7, <1>9, CtlFacts, TamedForms, LeadsKeeps

-----------------------------------------------------------------------------
(***************************************************************************)
(* Templates of their own                                                   *)
(***************************************************************************)
\* Nothing is held and nothing is owed, and the template is not the ReplicaSet's.
LEMMA SoloCalls ==
    ASSUME pod \in Infos, NEW c \in Frames, NEW l \in Lists, ControllerOK(c, l, pod), c.pc # "c_owner",
           NEW f \in Frames, NEW m \in Lists, m.pods = l.pods, CallOK(f, pod),
           f.job \in SoloJobs \/ (f.job = "none" /\ f.pc = "solo_pods"),
           rs.exists /\ f.pc = "solo_pods" => m.todo \subseteq SoloOf(m.pods),
           rs.exists /\ f.job \in SoloJobs /\ f.pc \in CreatePcs \cup RemovePcs => f.t = "solo",
           rs.exists /\ f.job = "solo_recreate" /\ f.pc \in RecreatePcs => f.q \in SoloOf(m.pods)
    PROVE  ControllerOK(f, m, pod)
  <1>1. ASSUME rs.exists PROVE ListOK(f, m, pod) /\ Within(f, m, pod)
    <2>1. ListOK(c, l, pod) /\ Within(c, l, pod)
      BY <1>1 DEF ControllerOK
    <2>2. f.pc \notin RsPcs /\ ~InList(f) /\ f.job \notin ListJobs
      BY DEF CallOK, InList, ListJobs, RsJobs, SoloJobs, RsPcs, StartPcs, CreatePcs, RemovePcs, RecreatePcs
    <2>3. Held(f, m) = {} /\ Owed(f, m) = 0
      BY <2>2 DEF Held, Owed, ListJobs, RsJobs, RsPcs
    <2>4. WebOf(pod) \cup Held(f, m) \in SUBSET (WebOf(pod) \cup Held(c, l))
      BY <2>3
    <2>5. Within(f, m, pod)
      BY <2>1, <2>3, <2>4, HeldArePods, WithinShrinks DEF Within
    <2>6. \A p \in WebOf(pod) : pod[p].owned
      BY <2>1 DEF ListOK
    <2>7. \A p \in WebOf(m.pods) : m.pods[p].owned
      BY <2>1 DEF ListOK
    <2>8. f.job \notin {"first_start", "recreate", "new", "clean"} /\ f.pc # "rs_clean"
      BY <2>2 DEF ListJobs, RsJobs, RsPcs
    <2>9. ListOK(f, m, pod)
      BY <1>1, <2>2, <2>6, <2>7, <2>8 DEF ListOK
    <2> QED
      BY <2>5, <2>9
  <1> QED
    BY <1>1 DEF ControllerOK

NewSolo(t) == [Idle EXCEPT !.pc = "c_template", !.job = "solo_new", !.t = t]
LessTpl(l, t) == [l EXCEPT !.tpls = @ \ {t}]
SoloListed(l, t, todo) == [l EXCEPT !.tpls = @ \ {t}, !.todo = todo, !.cand = NoPod]

\* Solo keeps PodInv.
LEMMA SoloKeeps == ASSUME PodInv, Solo PROVE PodInv'
  <1> DEFINE c == th["ctl"]
             List(t) == {p \in Pods : ctl.pods[p].state # "none" /\ ctl.pods[p].tpl = t}
  <1>1. c.pc = "solo" /\ UNCHANGED <<pod, tpls, rs>> /\ UNCHANGED ctrVars /\ Asks
    BY Zenon DEF Solo, At, psmVars, eventVars, Asks
  <1>2. c.job = "none" /\ c.pc # "c_owner"
    BY <1>1, CtlFacts DEF ControllerPcs, DeletePcs, RecreatePcs
  <1>3. rs.exists => \A p \in WebOf(ctl.pods) : ctl.pods[p].owned
    BY CtlFacts DEF ControllerOK, ListOK
  <1>4. ASSUME ctl' = CtlIdle, Return("ctl") PROVE Leads("ctl")
    <2>1. ControllerOK(Idle, CtlIdle, pod)
      BY <1>1, CtlFacts, CtlIdleIs, FrameFacts, Quiet DEF TickPcs
    <2> QED
      BY <1>4, <2>1, CtlIdleIs, FrameFacts, CtlLeads DEF Return
  <1>5. ASSUME NEW t, ctl' = LessTpl(ctl, t), UNCHANGED th PROVE Leads("ctl")
    <2>1. LessTpl(ctl, t) \in Lists /\ LessTpl(ctl, t).pods = ctl.pods
      BY CtlFacts DEF Lists, LessTpl
    <2>2. th' = [th EXCEPT !["ctl"] = c]
      BY <1>5, CtlFacts
    <2>3. ControllerOK(c, LessTpl(ctl, t), pod)
      BY <1>1, <1>2, <1>3, <2>1, CtlFacts, Quiet
    <2> QED
      BY <1>5, <2>1, <2>2, <2>3, CtlFacts, CtlLeads
  <1>6. ASSUME NEW t \in ctl.tpls, ~Referenced(t), ctl' = SoloListed(ctl, t, List(t)),
               th' = [th EXCEPT !["ctl"] = NewSolo(t)] \/ Goto("ctl", "solo_pods")
        PROVE  Leads("ctl")
    <2> DEFINE m == SoloListed(ctl, t, List(t))
    <2>1. t \in Templates /\ (rs.exists => t = "solo") /\ List(t) \in SUBSET Pods
      BY <1>6, CtlFacts DEF Lists, Templates, Referenced
    <2>2. rs.exists => List(t) \subseteq SoloOf(ctl.pods)
      BY <2>1 DEF SoloOf
    <2> HIDE DEF List
    <2>3. m \in Lists /\ m.pods = ctl.pods /\ m.todo = List(t)
      BY <2>1, CtlFacts DEF Lists, SoloListed
    <2> HIDE DEF m
    <2>4. CASE th' = [th EXCEPT !["ctl"] = NewSolo(t)]
      <3>1. NewSolo(t) \in Frames /\ NewSolo(t).pc = "c_template" /\ NewSolo(t).job = "solo_new" /\ NewSolo(t).t = t /\ ~NewSolo(t).own
        BY <2>1, FrameFacts DEF NewSolo, Frames, ServicePcs, Jobs, SoloJobs
      <3>2. CallOK(NewSolo(t), pod)
        BY <3>1 DEF CallOK, ListJobs, RsJobs, SoloJobs, CreatePcs, RemovePcs, RecreatePcs
      <3>3. NewSolo(t).job \in SoloJobs /\ NewSolo(t).pc # "solo_pods" /\ NewSolo(t).job # "solo_recreate"
        BY <3>1 DEF SoloJobs
      <3>4. ControllerOK(NewSolo(t), m, pod)
        BY <1>2, <2>1, <2>3, <3>1, <3>2, <3>3, CtlFacts, SoloCalls
      <3> QED
        BY <1>6, <2>3, <2>4, <3>1, <3>4, CtlLeads DEF m
    <2>5. CASE Goto("ctl", "solo_pods")
      <3>1. PICK f \in Frames : th' = [th EXCEPT !["ctl"] = f] /\ f.pc = "solo_pods" /\ f.job = "none"
        <4>1. "solo_pods" \in AllPcs
          BY DEF AllPcs, ControllerPcs
        <4> QED
          BY <1>2, <2>5, <4>1, CtlGoto
      <3>2. CallOK(f, pod)
        BY <3>1 DEF CallOK, SoloPcs, ListJobs, RsJobs, SoloJobs, CreatePcs, RemovePcs, RecreatePcs
      <3>3. ControllerOK(f, m, pod)
        BY <1>2, <2>2, <2>3, <3>1, <3>2, CtlFacts, SoloCalls DEF SoloJobs
      <3> QED
        BY <1>6, <2>3, <3>1, <3>3, CtlLeads DEF m
    <2> QED
      BY <1>6, <2>4, <2>5
  <1>7. Leads("ctl")
    <2>1. \/ ctl' = CtlIdle /\ Return("ctl")
          \/ \E t \in ctl.tpls :
                \/ ctl' = LessTpl(ctl, t) /\ UNCHANGED th
                \/ /\ ~Referenced(t) /\ ctl' = SoloListed(ctl, t, List(t))
                   /\ th' = [th EXCEPT !["ctl"] = NewSolo(t)] \/ Goto("ctl", "solo_pods")
      BY Zenon DEF Solo, LessTpl, SoloListed, NewSolo
    <2> QED
      BY <1>4, <1>5, <1>6, <2>1, Zenon
  <1> QED
    BY <1>1, <1>7, CtlFacts, CtrUnchanged, TamedForms, StepKeeps

Over(l) == [l EXCEPT !.todo = {}, !.cand = NoPod]
LessCand(l) == [l EXCEPT !.cand = NoPod]
NextCand(l, p) == [l EXCEPT !.todo = @ \ {p}, !.cand = IF l.pods[p].stopped \/ @ # NoPod THEN @ ELSE p]

\* What the loop over the pods of a template leaves of its list.
SoloList(m) == m \in Lists /\ m.pods = ctl.pods /\ m.todo \subseteq ctl.todo /\ m.n = ctl.n

\* Each way the loop goes on leaves such a list.
LEMMA SoloListIs ==
    ASSUME PodInv
    PROVE  /\ SoloList(Over(ctl)) /\ SoloList(LessCand(ctl))
           /\ \A p \in ctl.todo : SoloList(NextCand(ctl, p))
  <1>1. SoloList(Over(ctl)) /\ SoloList(LessCand(ctl))
    BY CtlFacts DEF Lists, SoloList, Over, LessCand
  <1>2. ASSUME NEW p \in ctl.todo PROVE SoloList(NextCand(ctl, p))
    <2>1. p \in Pods
      BY CtlFacts DEF Lists
    <2> QED
      BY <2>1, CtlFacts DEF Lists, SoloList, NextCand
  <1> QED
    BY <1>1, <1>2

\* SoloPods keeps PodInv.
LEMMA SoloPodsKeeps == ASSUME PodInv, SoloPods PROVE PodInv'
  <1> DEFINE c == th["ctl"]
  <1>1. c.pc = "solo_pods" /\ UNCHANGED <<pod, tpls, rs>> /\ UNCHANGED ctrVars /\ Asks
    BY Zenon DEF SoloPods, At, psmVars, eventVars, Asks
  <1>2. c.job = "none" /\ c.pc # "c_owner"
    BY <1>1, CtlFacts DEF ControllerPcs, DeletePcs, RecreatePcs
  <1>3. rs.exists => ctl.todo \subseteq SoloOf(ctl.pods)
    BY <1>1, CtlFacts DEF ControllerOK, ListOK
  <1>4. ASSUME NEW m, ctl' = m, SoloList(m), Loop("solo") PROVE Leads("ctl")
    BY <1>2, <1>4, LoopLeads DEF SoloList, RsPcs
  <1>5. ASSUME NEW m, ctl' = m, SoloList(m), UNCHANGED th PROVE Leads("ctl")
    <2>1. th' = [th EXCEPT !["ctl"] = c] /\ m \in Lists /\ m.pods = ctl.pods /\ (rs.exists => m.todo \subseteq SoloOf(m.pods))
      BY <1>3, <1>5, CtlFacts DEF SoloList
    <2>2. ControllerOK(c, m, pod)
      BY <1>1, <1>2, <2>1, CtlFacts, SoloCalls DEF SoloJobs
    <2> QED
      BY <1>5, <2>1, <2>2, CtlFacts, CtlLeads
  <1>6. ASSUME NEW m, ctl' = m, SoloList(m), NEW pc, NEW j, NEW s \in Pods \cup {NoPod}, NEW r \in Pods \cup {NoPod}, CtlCall(pc, j, s, r),
               \/ pc = "re_containers" /\ j = "solo_recreate" /\ r \in ctl.todo
               \/ pc = "s_read" /\ j = "solo_restart"
        PROVE  Leads("ctl")
    <2> DEFINE f == FullFrame(c, pc, j, s, r)
    <2>1. pc \in AllPcs /\ j \in Jobs
      BY <1>6 DEF AllPcs, ControllerPcs, ServicePcs, Jobs, SoloJobs
    <2>2. f \in Frames /\ f.pc = pc /\ f.job = j /\ f.p = s /\ f.q = r /\ ~f.own
      BY <2>1, CtlFacts, FullFrameIs
    <2>3. th' = [th EXCEPT !["ctl"] = f]
      BY <1>6 DEF CtlCall, FullFrame
    <2> HIDE DEF f
    <2>4. ctl.todo \subseteq Pods
      BY CtlFacts DEF Lists
    <2>5. CallOK(f, pod)
      BY <1>6, <2>2, <2>4 DEF CallOK, ListJobs, RsJobs, SoloJobs, CreatePcs, RemovePcs, StartPcs, RecreatePcs
    <2>6. m \in Lists /\ m.pods = ctl.pods /\ f.job \in SoloJobs /\ f.pc \notin {"solo_pods"} \cup CreatePcs \cup RemovePcs
          /\ (rs.exists /\ f.job = "solo_recreate" => f.q \in SoloOf(m.pods))
      BY <1>3, <1>6, <2>2 DEF SoloList, SoloJobs, CreatePcs, RemovePcs
    <2>7. ControllerOK(f, m, pod)
      BY <1>2, <2>2, <2>5, <2>6, CtlFacts, SoloCalls
    <2> QED
      BY <1>6, <2>2, <2>3, <2>6, <2>7, CtlLeads
  <1>7. ctl.cand \in Pods \cup {NoPod} /\ NoPod \in Pods \cup {NoPod} /\ ctl.todo \subseteq Pods
    BY CtlFacts DEF Lists
  <1>8. ASSUME Loop("solo") \/ CtlCall("s_read", "solo_restart", ctl.cand, NoPod), ctl' = LessCand(ctl)
        PROVE  Leads("ctl")
    <2>1. CASE Loop("solo")
      BY <1>4, <1>8, <2>1, SoloListIs
    <2>2. CASE CtlCall("s_read", "solo_restart", ctl.cand, NoPod)
      BY <1>6, <1>7, <1>8, <2>2, SoloListIs
    <2> QED
      BY <1>8, <2>1, <2>2
  <1>9. ASSUME NEW p \in ctl.todo,
               \/ /\ ctl' = Over(ctl)
                  /\ \/ Loop("solo") \/ CtlCall("re_containers", "solo_recreate", NoPod, p)
                     \/ CtlCall("s_read", "solo_restart", p, NoPod)
               \/ ctl' = NextCand(ctl, p) /\ UNCHANGED th
        PROVE  Leads("ctl")
    <2>1. p \in Pods \cup {NoPod}
      BY <1>7
    <2> QED
      BY <1>4, <1>5, <1>6, <1>7, <1>9, <2>1, SoloListIs
  <1>10. Leads("ctl")
    <2>1. \/ /\ Loop("solo") \/ CtlCall("s_read", "solo_restart", ctl.cand, NoPod)
             /\ ctl' = LessCand(ctl)
          \/ \E p \in ctl.todo :
               \/ /\ ctl' = Over(ctl)
                  /\ \/ Loop("solo") \/ CtlCall("re_containers", "solo_recreate", NoPod, p)
                     \/ CtlCall("s_read", "solo_restart", p, NoPod)
               \/ ctl' = NextCand(ctl, p) /\ UNCHANGED th
      <3>1. CASE ctl' = LessCand(ctl) /\ (Loop("solo") \/ CtlCall("s_read", "solo_restart", ctl.cand, NoPod))
        BY <3>1
      <3>2. ASSUME NEW p \in ctl.todo,
                   LET info == ctl.pods[p]
                       over == ctl' = [ctl EXCEPT !.todo = {}, !.cand = NoPod]
                   IN
                   CASE info.state = "created" -> over /\ Loop("solo")
                     [] info.state # "created" /\ ~info.stopped /\ ~InfraRunning(p) ->
                           over /\ CtlCall("re_containers", "solo_recreate", NoPod, p)
                     [] info.state = "degraded" /\ ~info.stopped /\ InfraRunning(p) ->
                           over /\ CtlCall("s_read", "solo_restart", p, NoPod)
                     [] info.state = "stopped" /\ (info.stopped \/ InfraRunning(p)) ->
                           /\ ctl' = [ctl EXCEPT !.todo = @ \ {p},
                                       !.cand = IF info.stopped \/ @ # NoPod THEN @ ELSE p]
                           /\ UNCHANGED th
                     [] OTHER -> over /\ Loop("solo")
            PROVE  \/ /\ ctl' = Over(ctl)
                      /\ \/ Loop("solo") \/ CtlCall("re_containers", "solo_recreate", NoPod, p)
                         \/ CtlCall("s_read", "solo_restart", p, NoPod)
                   \/ ctl' = NextCand(ctl, p) /\ UNCHANGED th
        BY <3>2 DEF Over, NextCand
      <3> QED
        BY <3>1, <3>2, Zenon DEF SoloPods, LessCand
    <2>2. ASSUME ~(ctl' = LessCand(ctl) /\ (Loop("solo") \/ CtlCall("s_read", "solo_restart", ctl.cand, NoPod)))
          PROVE  Leads("ctl")
      BY <1>9, <2>1, <2>2
    <2> QED
      BY <1>8, <2>2
  <1> QED
    BY <1>1, <1>10, CtlFacts, CtrUnchanged, TamedForms, StepKeeps

-----------------------------------------------------------------------------
(***************************************************************************)
(* deletePod and recreatePod                                                *)
(***************************************************************************)
\* A step of the controller that is told by the pods it leaves.
LEMMA CtlMoves ==
    ASSUME PodInv, NEW f \in Frames, NEW l \in Lists, NEW next \in Infos,
           th' = [th EXCEPT !["ctl"] = f], ctl' = l, pod' = next, Tamed(pod, next), Around, ControllerOK(f, l, next)
    PROVE  PodInv'
  <1>1. pod \in Infos /\ OwnedAreWeb(pod) /\ (\A y \in Threads : th[y] \in Frames) /\ "ctl" \in Threads
    BY InvSays, ThreadFacts DEF Typed
  <1>2. OwnedAreWeb(next)
    BY <1>1, TamedKeepsSets
  <1>3. ASSUME NEW y \in Reqs \ {"ctl"} PROVE RequestOK(th[y], next)
    BY <1>1, ThreadFacts, TamedKeepsCalls DEF PodInv
  <1> QED
    BY <1>1, <1>2, <1>3, Assembled

\* The controller deletes only for a clean-up, an excess or a failed create.
LEMMA DeletingJobs ==
    ASSUME PodInv, th["ctl"].pc \in DeletePcs
    PROVE  th["ctl"].job \in {"clean", "excess", "new"} /\ InList(th["ctl"]) /\ th["ctl"].pc # "c_owner"
  BY CtlFacts DEF CallOK, InList, ListJobs, RsJobs, SoloJobs, DeletePcs, TickPcs, RsPcs, SoloPcs, StartPcs,
     CreatePcs, RemovePcs, RecreatePcs

\* A deletion that failed leads where its job goes on.
LEMMA DeleteFailedLeads == ASSUME PodInv, th["ctl"].pc \in DeletePcs, DeleteFailed PROVE Leads("ctl")
  <1>1. CASE th["ctl"].job = "new"
    BY <1>1, DeletingJobs, CtlFacts, LoopLeads DEF DeleteFailed
  <1>2. CASE th["ctl"].job # "new"
    <2>1. PICK m \in Lists : ctl' = m /\ m.pods = ctl.pods /\ m.todo = ctl.todo /\ m.n = ctl.n
      BY <1>2, CtlFacts, FailedIs DEF DeleteFailed
    <2>2. Loop("rs_end")
      BY <1>2 DEF DeleteFailed
    <2> QED
      BY <2>1, <2>2, DeletingJobs, LoopLeads DEF RsPcs
  <1> QED
    BY <1>1, <1>2

\* DeleteMark keeps PodInv.
LEMMA DeleteMarkKeeps == ASSUME PodInv, DeleteMark PROVE PodInv'
  <1>1. th["ctl"].pc = "x_mark" /\ UNCHANGED <<tpls, rs>> /\ UNCHANGED ctrVars /\ Asks
    BY DEF DeleteMark, At, eventVars, Asks
  <1>2. pod' \in Infos /\ Tamed(pod, pod')
    BY StatesKept DEF DeleteMark
  <1>3. th["ctl"].pc \in DeletePcs /\ InOneCall(th["ctl"].pc, "x_containers")
    BY <1>1 DEF InOneCall, DeletePcs
  <1>4. Leads("ctl")
    BY <1>3, CtlFacts, GotoIs, GoesOnLeads, DeleteFailedLeads DEF DeleteMark
  <1> QED
    BY <1>1, <1>2, <1>4, CtlFacts, CtrUnchanged, StepKeeps

\* DeleteContainers keeps PodInv.
LEMMA DeleteContainersKeeps ==
    ASSUME PodInv, NEW from, NEW to, DeleteContainers(from, to),
           (from = "x_containers" /\ to = "x_pod") \/ (from = "re_containers" /\ to = "re_pod")
    PROVE  PodInv'
  <1>1. th["ctl"].pc = from /\ UNCHANGED <<tpls, rs>> /\ UNCHANGED ctl /\ Asks /\ Goto("ctl", to)
    BY DEF DeleteContainers, At, eventVars, Asks
  <1>2. pod' \in Infos /\ Tamed(pod, pod')
    BY StatesKept DEF DeleteContainers
  <1>3. CtrTyped
    <2>1. NoContainers \in [Kinds -> {"none", "created", "running", "stopped"}]
      BY DEF NoContainers, Kinds
    <2>2. joined' \in SUBSET Pods
      BY InvSays DEF DeleteContainers, Typed
    <2> QED
      BY <2>1, <2>2, InvSays DEF DeleteContainers, CtrTyped, Typed
  <1>4. InOneCall(th["ctl"].pc, to) /\ to # "c_name"
    BY <1>1 DEF InOneCall, DeletePcs, RecreatePcs
  <1>5. Leads("ctl")
    BY <1>1, <1>4, CtlFacts, GotoIs, GoesOnLeads
  <1> QED
    BY <1>1, <1>2, <1>3, <1>5, CtlFacts, StepKeeps

\* Dropping a pod is tame and takes it out of the replica set.
LEMMA Dropped ==
    ASSUME PodInv, NEW q, NEW next, next = IF Exists(q) THEN [pod EXCEPT ![q] = NoInfo] ELSE pod
    PROVE  /\ next \in Infos /\ Tamed(pod, next)
           /\ WebOf(next) = WebOf(pod) \ {q}
  <1>1. pod \in Infos
    BY CtlFacts
  <1>2. CASE Exists(q)
    <2>1. q \in Pods /\ next = [pod EXCEPT ![q] = NoInfo]
      BY <1>2 DEF Exists
    <2>2. next \in Infos /\ Tamed(pod, next)
      BY <2>1, TamedForms
    <2>3. next[q] = NoInfo /\ \A p \in Pods \ {q} : next[p] = pod[p]
      BY <1>1, <2>1 DEF Infos
    <2>4. WebOf(next) = WebOf(pod) \ {q}
      BY <2>1, <2>3, InfoFacts DEF WebOf
    <2> QED
      BY <2>2, <2>4
  <1>3. CASE ~Exists(q)
    <2>1. q \notin WebOf(pod)
      BY <1>3 DEF Exists, WebOf
    <2> QED
      BY <1>3, <2>1, TamedForms
  <1> QED
    BY <1>2, <1>3

\* DeletePod keeps PodInv.
LEMMA DeletePodKeeps == ASSUME PodInv, DeletePod PROVE PodInv'
  <1> DEFINE c == th["ctl"]
  <1>1. c.pc = "x_pod" /\ UNCHANGED <<tpls, rs>> /\ UNCHANGED ctrVars /\ Asks
    BY DEF DeletePod, At, eventVars, Asks
  <1>2. c.pc \in DeletePcs
    BY <1>1 DEF DeletePcs
  <1>3. CASE ~Exists(c.q)
    <2>1. DeleteFailed /\ UNCHANGED pod
      BY <1>3 DEF DeletePod
    <2> QED
      BY <1>1, <1>2, <2>1, CtlFacts, DeleteFailedLeads, CtrUnchanged, TamedForms, StepKeeps
  <1>4. CASE Exists(c.q)
    <2>1. Drop(c.q) /\ DeleteDone
      BY <1>4 DEF DeletePod
    <2>2. PICK next : pod' = next /\ next = IF Exists(c.q) THEN [pod EXCEPT ![c.q] = NoInfo] ELSE pod
      BY <1>4, <2>1 DEF Drop
    <2>3. next \in Infos /\ Tamed(pod, next) /\ WebOf(next) = WebOf(pod) \ {c.q}
      BY <2>2, Dropped
    <2>4. CASE c.job # "clean"
      <3>1. Leads("ctl")
        <4>1. CASE c.job = "excess"
          BY <1>2, <2>1, <4>1, DeletingJobs, CtlFacts, LoopLeads DEF DeleteDone
        <4>2. CASE c.job = "new"
          BY <1>2, <2>1, <4>2, DeletingJobs, CtlFacts, LoopLeads DEF DeleteDone
        <4> QED
          BY <1>2, <2>4, <4>1, <4>2, DeletingJobs
      <3> QED
        BY <1>1, <2>2, <2>3, <3>1, CtlFacts, CtrUnchanged, StepKeeps
    <2>5. CASE c.job = "clean"
      <3> DEFINE f == LoopFrame(c, "rs_clean")
      <3>1. ctl' = ctl /\ th' = [th EXCEPT !["ctl"] = f]
        BY <2>1, <2>5 DEF DeleteDone, Loop, LoopFrame
      <3>2. "rs_clean" \in AllPcs
        BY DEF AllPcs, ControllerPcs
      <3>3. f \in Frames /\ f.pc = "rs_clean" /\ f.job = "none"
        BY <3>2, CtlFacts, LoopFrameIs
      <3> HIDE DEF f
      <3>4. CallOK(f, next)
        BY <3>3 DEF CallOK, RsPcs, ListJobs, SoloJobs, RsJobs, CreatePcs, RemovePcs, RecreatePcs
      <3>5. ASSUME rs.exists PROVE ListOK(f, ctl, next) /\ Within(f, ctl, next)
        <4>1. ListOK(c, ctl, pod) /\ Within(c, ctl, pod)
          BY <3>5, CtlFacts DEF ControllerOK
        <4>2. WebOf(next) \subseteq ctl.todo /\ ctl.todo \subseteq WebOf(ctl.pods)
          BY <1>2, <2>3, <2>5, <4>1, DeletingJobs DEF ListOK
        <4>3. \A p \in WebOf(next) : next[p].owned
          BY <1>1, <2>3, <4>1, CtlFacts, TamedKeepsSets DEF ListOK
        <4>4. ListOK(f, ctl, next)
          BY <3>3, <4>1, <4>2, <4>3 DEF ListOK, SoloJobs
        <4>5. Held(f, ctl) = ctl.todo /\ Held(c, ctl) = ctl.todo /\ Owed(f, ctl) = 0
          BY <2>5, <3>3 DEF Held, Owed, InList, RsPcs, ListJobs
        <4>6. WebOf(next) \cup Held(f, ctl) \in SUBSET (WebOf(pod) \cup Held(c, ctl))
          BY <2>3, <4>5
        <4> QED
          BY <4>1, <4>4, <4>5, <4>6, CtlFacts, HeldArePods, WithinShrinks DEF Within
      <3>6. ControllerOK(f, ctl, next)
        BY <3>4, <3>5, CtlFacts DEF ControllerOK
      <3>7. Around
        BY <1>1, CtrUnchanged, AroundStill
      <3> QED
        BY <2>2, <2>3, <3>1, <3>3, <3>6, <3>7, CtlFacts, CtlMoves
    <2> QED
      BY <2>4, <2>5
  <1> QED
    BY <1>3, <1>4

\* RecreatePod keeps PodInv.
LEMMA RecreatePodKeeps == ASSUME PodInv, RecreatePod PROVE PodInv'
  <1> DEFINE c == th["ctl"]
             q == c.q
             f == [c EXCEPT !.pc = "c_template", !.q = NoPod, !.t = ctl.pods[q].tpl, !.own = ctl.pods[q].owned]
  <1>1. c.pc = "re_pod" /\ UNCHANGED <<tpls, rs>> /\ UNCHANGED ctrVars /\ UNCHANGED ctl /\ Asks
    BY DEF RecreatePod, At, eventVars, Asks
  <1>2. PICK next : pod' = next /\ next = IF Exists(q) THEN [pod EXCEPT ![q] = NoInfo] ELSE pod
    BY DEF RecreatePod
  <1>3. next \in Infos /\ Tamed(pod, next) /\ WebOf(next) = WebOf(pod) \ {q}
    BY <1>2, Dropped
  <1>4. c.job \in {"recreate", "solo_recreate"} /\ q \in Pods
    BY <1>1, CtlFacts DEF CallOK, ListJobs, RsJobs, SoloJobs, DeletePcs, TickPcs, RsPcs, SoloPcs, StartPcs,
       CreatePcs, RemovePcs, RecreatePcs
  <1>5. ctl.pods[q].tpl \in Templates /\ ctl.pods[q].owned \in BOOLEAN
    BY <1>4, CtlFacts DEF Lists, PodInfo
  <1>6. f \in Frames /\ f.pc = "c_template" /\ f.job = c.job /\ f.q = NoPod /\ f.t = ctl.pods[q].tpl /\ f.own = ctl.pods[q].owned
    BY <1>5, CtlFacts DEF Frames, ServicePcs
  <1>7. th' = [th EXCEPT !["ctl"] = f]
    BY CtlFacts DEF RecreatePod
  <1> HIDE DEF f
  <1>8. f.own => f.t = "web"
    BY <1>4, <1>6, CtlFacts DEF OwnedAreWeb
  <1>9. CallOK(f, next)
    BY <1>4, <1>6, <1>8 DEF CallOK, ListJobs, RsJobs, SoloJobs, CreatePcs, RemovePcs, RecreatePcs
  <1>10. ASSUME rs.exists PROVE ListOK(f, ctl, next) /\ Within(f, ctl, next)
    <2>1. ListOK(c, ctl, pod) /\ Within(c, ctl, pod)
      BY <1>10, CtlFacts DEF ControllerOK
    <2>2. \A p \in WebOf(next) : next[p].owned
      BY <1>1, <1>3, <2>1, CtlFacts, TamedKeepsSets DEF ListOK
    <2>3. \A p \in WebOf(ctl.pods) : ctl.pods[p].owned
      BY <2>1 DEF ListOK
    <2>4. CASE c.job = "recreate"
      <3>1. q \in WebOf(ctl.pods) \ ctl.todo /\ f.own
        BY <1>1, <1>6, <2>1, <2>3, <2>4 DEF ListOK, RecreatePcs
      <3>2. InList(c) /\ InList(f) /\ ctl.todo \subseteq WebOf(ctl.pods)
        BY <1>6, <2>1, <2>4 DEF InList, ListJobs, RsJobs, ListOK
      <3>3. ListOK(f, ctl, next)
        BY <1>6, <2>2, <2>3, <2>4, <3>1, <3>2 DEF ListOK, RecreatePcs, SoloJobs
      <3>4. Held(c, ctl) = ctl.todo \cup {q} /\ Held(f, ctl) = ctl.todo /\ Owed(c, ctl) = 0 /\ Owed(f, ctl) = 1
        BY <1>1, <1>6, <2>4, <3>2 DEF Held, Owed, RecreatePcs, CreatePcs, RemovePcs
      <3>5. WebOf(pod) \cup Held(c, ctl) \in SUBSET Pods
        BY <2>1, CtlFacts, HeldArePods
      <3>6. WebOf(next) \cup Held(f, ctl) \in SUBSET ((WebOf(pod) \cup Held(c, ctl)) \ {q}) /\ q \in WebOf(pod) \cup Held(c, ctl)
        BY <1>3, <3>1, <3>4
      <3>7. Cardinality(WebOf(next) \cup Held(f, ctl)) + 1 <= MaxReplicas
        BY <2>1, <3>4, <3>5, <3>6, WithinTakes DEF Within
      <3> QED
        BY <3>3, <3>4, <3>7 DEF Within
    <2>5. CASE c.job = "solo_recreate"
      <3>1. f.t = "solo"
        BY <1>1, <1>6, <2>1, <2>5 DEF ListOK, RecreatePcs, SoloOf
      <3>2. ~InList(f) /\ f.job \notin {"first_start", "recreate", "new", "clean"}
        BY <1>6, <2>5 DEF InList, ListJobs, RsJobs, RsPcs
      <3>3. ListOK(f, ctl, next)
        BY <1>6, <2>2, <2>3, <2>5, <3>1, <3>2 DEF ListOK, RecreatePcs
      <3>4. Held(f, ctl) = {} /\ Owed(f, ctl) = 0
        BY <1>6, <3>2 DEF Held, Owed
      <3>5. WebOf(next) \cup Held(f, ctl) \in SUBSET (WebOf(pod) \cup Held(c, ctl))
        BY <1>3, <3>4
      <3> QED
        BY <2>1, <3>3, <3>4, <3>5, CtlFacts, HeldArePods, WithinShrinks DEF Within
    <2> QED
      BY <1>4, <2>4, <2>5
  <1>11. ControllerOK(f, ctl, next)
    BY <1>9, <1>10, CtlFacts DEF ControllerOK
  <1>12. Around
    BY <1>1, CtrUnchanged, AroundStill
  <1> QED
    BY <1>1, <1>2, <1>3, <1>6, <1>7, <1>11, <1>12, CtlFacts, CtlMoves

-----------------------------------------------------------------------------
(***************************************************************************)
(* The theorems                                                             *)
(***************************************************************************)
LEMMA PodInvHolds == PodInit => PodInv
  <1> SUFFICES ASSUME PodInit PROVE PodInv
    OBVIOUS
  <1>1. pod = [p \in Pods |-> NoInfo] /\ pod \in Infos /\ OwnedAreWeb(pod) /\ WebOf(pod) = {}
    BY InfoFacts DEF PodInit, Infos, OwnedAreWeb, WebOf
  <1>2. /\ \A x \in Threads : th[x] = Idle
        /\ th \in [Threads -> Frames]
    BY FrameFacts DEF PodInit
  <1>3. ctr \in [Pods -> [Kinds -> {"none", "created", "running", "stopped"}]]
    BY DEF PodInit, NoContainers, Kinds
  <1>4. Typed
    BY <1>1, <1>2, <1>3, CtlIdleIs, PodAssumption DEF PodInit, Typed, Templates
  <1>5. \A x \in Reqs : RequestOK(th[x], pod)
    BY <1>2, ThreadFacts, IdleOK
  <1>6. th["ctl"] = Idle /\ ctl = CtlIdle
    BY <1>2, ThreadFacts DEF PodInit
  <1>7. CallOK(Idle, pod)
    BY FrameFacts DEF CallOK, TickPcs, RsPcs, SoloPcs, ListJobs, SoloJobs, RsJobs, CreatePcs, RemovePcs, RecreatePcs
  <1>8. ~InList(Idle)
    BY FrameFacts DEF InList, ListJobs, RsJobs, RsPcs
  <1>9. ListOK(Idle, CtlIdle, pod)
    BY <1>1, <1>8, CtlIdleIs, FrameFacts DEF ListOK, SoloJobs
  <1>10. Held(Idle, CtlIdle) = {} /\ Owed(Idle, CtlIdle) = 0
    BY <1>8, FrameFacts DEF Held, Owed
  <1>11. Within(Idle, CtlIdle, pod)
    <2>1. WebOf(pod) \cup Held(Idle, CtlIdle) = {}
      BY <1>1, <1>10
    <2>2. Cardinality({}) = 0
      BY FS_EmptySet
    <2> QED
      BY <1>10, <2>1, <2>2, PodAssumption DEF Within
  <1> QED
    BY <1>1, <1>4, <1>5, <1>6, <1>7, <1>9, <1>11, CtlIdleIs, TypedIsTypeOK DEF PodInv, RsOK, PodInit

\* ServiceStep keeps PodInv.
LEMMA ServiceStepKeeps == ASSUME PodInv, NEW x \in Threads, ServiceStep(x) PROVE PodInv'
  BY CreateTemplateKeeps, CreateNameKeeps, CreateStoreKeeps, CreateOwnerKeeps, StartReadKeeps, StartInfraKeeps,
     StartMemberKeeps, StartListKeeps, StartContainerKeeps, StartStateKeeps, StartFlagKeeps, RemoveMarkKeeps,
     RemoveListKeeps, RemoveMemberKeeps, RemoveInfraKeeps, RemovePodKeeps, RemoveTemplateKeeps, DropTemplateKeeps DEF ServiceStep

\* RequestStep keeps PodInv.
LEMMA RequestStepKeeps == ASSUME PodInv, NEW x \in Reqs, RequestStep(x) PROVE PodInv'
  BY ThreadFacts, ServiceStepKeeps, StopMemberKeeps, StopWriteKeeps, DeleteRsTemplateKeeps, DeleteRsDropKeeps, DeleteRsListKeeps,
     DeleteRsNextKeeps DEF RequestStep

\* ControllerStep keeps PodInv.
LEMMA ControllerStepKeeps == ASSUME PodInv, ControllerStep PROVE PodInv'
  BY CtlFacts, ServiceStepKeeps, TickBeginKeeps, TickTemplatesKeeps, TickPodsKeeps, RsCleanKeeps, RsMoreKeeps,
     RsLessKeeps, RsPodsKeeps, RsEndKeeps, SoloKeeps, SoloPodsKeeps, DeleteMarkKeeps, DeleteContainersKeeps,
     DeletePodKeeps, RecreatePodKeeps DEF ControllerStep

\* Every step of requests, the controller and the containers keeps the invariant.
LEMMA PodInvKept == PodInv /\ [PodNext]_pvars => PodInv'
  <1> SUFFICES ASSUME PodInv, [PodNext]_pvars PROVE PodInv'
    OBVIOUS
  <1>1. ASSUME NEW x \in Reqs, RequestStep(x) \/ RequestApply(x) \/ RequestPod(x) \/ RequestScale(x) \/ RequestDeleteRs(x)
        PROVE  PodInv'
    BY <1>1, RequestStepKeeps, RequestApplyKeeps, RequestPodKeeps, RequestScaleKeeps, RequestDeleteRsKeeps
  <1>2. ASSUME NEW p \in Pods, NEW k \in Kinds, ContainerDies(p, k) PROVE PodInv'
    BY <1>2, ContainerDiesKeeps
  <1>3. CASE ControllerStep
    BY <1>3, ControllerStepKeeps
  <1>4. CASE BackoffEnds
    BY <1>4, BackoffEndsKeeps
  <1>5. CASE UNCHANGED pvars
    BY <1>5 DEF pvars, PodInv, PodTypeOK, RequestOK, CallOK, OwnedAreWeb, RsOK, ListOK, Within, Held, Owed, WebOf, SoloOf, InList
  <1> QED
    BY <1>1, <1>2, <1>3, <1>4, <1>5 DEF PodNext

\* The invariant holds in every state.
LEMMA PodInvAlways == PodSpec => []PodInv
  BY PodInvHolds, PodInvKept, PTL DEF PodSpec

\* The invariant gives what the runs check.
LEMMA InvIsSound == PodInv => PodsSound /\ TemplateKept
  <1> SUFFICES ASSUME PodInv PROVE PodsSound /\ TemplateKept
    OBVIOUS
  <1>1. ASSUME rs.exists PROVE NeverOvershoots
    <2>1. ListOK(th["ctl"], ctl, pod) /\ Within(th["ctl"], ctl, pod) /\ ("scale" \in asked \/ rs.replicas = MaxReplicas)
      BY <1>1 DEF PodInv, RsOK
    <2>2. RsPodsNow = WebOf(pod)
      BY DEF RsPodsNow, WebOf, Exists
    <2>3. WebOf(pod) \in SUBSET (WebOf(pod) \cup Held(th["ctl"], ctl))
      OBVIOUS
    <2>4. Cardinality(WebOf(pod)) + 0 <= MaxReplicas
      BY <2>1, <2>3, CtlFacts, HeldArePods, WithinShrinks DEF Within
    <2>5. Cardinality(WebOf(pod)) \in Nat
      BY PodsFinite DEF WebOf
    <2> QED
      BY <2>1, <2>2, <2>4, <2>5 DEF NeverOvershoots
  <1>2. NeverOvershoots
    BY <1>1 DEF NeverOvershoots
  <1> QED
    BY <1>2 DEF PodsSound, TemplateKept, PodInv, RsOK

\* However requests create, start, stop, scale and remove pods while the
\* controller's tick decides on lists that are stale, and containers die or
\* cannot be made: a ReplicaSet that exists never has more pods in the store
\* than were ever asked for.
THEOREM PodsStaySound == PodSpec => []PodsSound
  BY PodInvAlways, InvIsSound, PTL

\* Whoever removes pods, and whichever name is made room for: the template of a
\* ReplicaSet that exists is never removed from the store.
THEOREM TemplateStays == PodSpec => []TemplateKept
  BY PodInvAlways, InvIsSound, PTL

-----------------------------------------------------------------------------
(***************************************************************************)
(* Bottles: sequences of services                                          *)
(***************************************************************************)

\* A sequence names nothing twice; every service of it is behind the ones it
\* depends on; it is a start order of all of them.
Distinct(s) == \A i, j \in DOMAIN s : s[i] = s[j] => i = j
Behind(d, s) == \A i, j \in DOMAIN s : s[i] \in d[s[j]] => i < j
Sorted(d, s) ==
    /\ Range(s) = Services /\ Distinct(s) /\ Behind(d, s)
    /\ \A x \in Services : d[x] \subseteq Services
Waiting(d) == \E S \in SUBSET Services : S # {} /\ \A s \in S : d[s] \cap S # {}

\* What BuildStartOrder has when it takes the next service: the queue are the
\* services that wait for nobody any more.
Placed(d, order) == \A j \in DOMAIN order : \A x \in d[order[j]] : \E i \in 1 .. (j - 1) : order[i] = x
Free(d, done) == {x \in Services : d[x] \subseteq done} \ done
Sorting(d, order, queue, degree) ==
    /\ \A x \in Services : d[x] \subseteq Services
    /\ Distinct(order) /\ Distinct(queue) /\ Placed(d, order)
    /\ Range(queue) = Free(d, Range(order))
    /\ degree \in [Services -> Int]
    /\ \A x \in Services : degree[x] = Cardinality(d[x] \ Range(order))

\* What a sequence over a set is.
LEMMA SeqIs ==
    ASSUME NEW S, NEW s \in Seq(S)
    PROVE  /\ Len(s) \in Nat /\ DOMAIN s = 1 .. Len(s) /\ \A i \in 1 .. Len(s) : s[i] \in S
           /\ \A x : x \in Range(s) <=> \E i \in 1 .. Len(s) : s[i] = x
           /\ Range(s) \subseteq S
           /\ s = <<>> <=> Range(s) = {}
<1>1. Len(s) \in Nat /\ DOMAIN s = 1 .. Len(s) /\ \A i \in 1 .. Len(s) : s[i] \in S
  BY LenProperties
<1>2. \A x : x \in Range(s) <=> \E i \in 1 .. Len(s) : s[i] = x
  BY <1>1 DEF Range
<1>3. s = <<>> <=> Len(s) = 0
  BY EmptySeq
<1>4. Len(s) # 0 => 1 \in 1 .. Len(s)
  BY <1>1
<1>5. Len(s) = 0 => 1 .. Len(s) = {}
  BY <1>1
<1> QED
  BY <1>1, <1>2, <1>3, <1>4, <1>5

\* The head and the tail of a sequence hold its elements.
LEMMA HeadTailRange ==
    ASSUME NEW S, NEW s \in Seq(S), s # <<>>
    PROVE  /\ Head(s) \in S /\ Tail(s) \in Seq(S) /\ Head(s) = s[1]
           /\ Range(s) = Range(Tail(s)) \cup {Head(s)}
           /\ Distinct(s) => Distinct(Tail(s)) /\ Head(s) \notin Range(Tail(s))
<1>1. Head(s) \in S /\ Tail(s) \in Seq(S) /\ Len(Tail(s)) = Len(s) - 1 /\ \A i \in 1 .. Len(Tail(s)) : Tail(s)[i] = s[i + 1]
  BY HeadTailProperties
<1>2. Len(s) \in Nat /\ Len(s) # 0 /\ Head(s) = s[1] /\ DOMAIN s = 1 .. Len(s) /\ DOMAIN Tail(s) = 1 .. (Len(s) - 1)
  BY <1>1, LenProperties, EmptySeq
<1>3. Range(s) = Range(Tail(s)) \cup {Head(s)}
  <2>1. \A x : x \in Range(s) <=> \E i \in 1 .. Len(s) : s[i] = x
    BY SeqIs
  <2>2. \A x : x \in Range(Tail(s)) <=> \E i \in 1 .. (Len(s) - 1) : s[i + 1] = x
    <3>1. \A x : x \in Range(Tail(s)) <=> \E i \in 1 .. Len(Tail(s)) : Tail(s)[i] = x
      BY <1>1, SeqIs
    <3> QED
      BY <1>1, <3>1
  <2>3. ASSUME NEW x \in Range(s) PROVE x \in Range(Tail(s)) \cup {Head(s)}
    <3>1. PICK i \in 1 .. Len(s) : s[i] = x
      BY <2>1
    <3>2. CASE i = 1
      BY <3>1, <3>2, <1>2
    <3>3. CASE i # 1
      <4>1. i - 1 \in 1 .. (Len(s) - 1) /\ s[(i - 1) + 1] = x
        BY <3>1, <3>3, <1>2
      <4> QED
        BY <4>1, <2>2
    <3> QED
      BY <3>2, <3>3
  <2>4. ASSUME NEW x \in Range(Tail(s)) PROVE x \in Range(s)
    <3>1. PICK i \in 1 .. (Len(s) - 1) : s[i + 1] = x
      BY <2>2
    <3>2. i + 1 \in 1 .. Len(s)
      BY <1>2
    <3> QED
      BY <3>1, <3>2, <2>1
  <2>5. Head(s) \in Range(s)
    BY <1>2, <2>1
  <2> QED
    BY <2>3, <2>4, <2>5
<1>4. ASSUME Distinct(s) PROVE Distinct(Tail(s)) /\ Head(s) \notin Range(Tail(s))
  <2>1. Distinct(Tail(s))
    <3>1. SUFFICES ASSUME NEW i \in 1 .. (Len(s) - 1), NEW j \in 1 .. (Len(s) - 1), Tail(s)[i] = Tail(s)[j] PROVE i = j
      BY <1>2 DEF Distinct
    <3>2. i + 1 \in DOMAIN s /\ j + 1 \in DOMAIN s /\ s[i + 1] = s[j + 1]
      BY <1>1, <1>2, <3>1
    <3>3. i + 1 = j + 1
      BY <3>2, <1>4 DEF Distinct
    <3> QED
      BY <3>3
  <2>2. ASSUME Head(s) \in Range(Tail(s)) PROVE FALSE
    <3>1. PICK i \in 1 .. (Len(s) - 1) : s[i + 1] = s[1]
      <4>1. PICK i \in 1 .. Len(Tail(s)) : Tail(s)[i] = s[1]
        <5>1. \A x : x \in Range(Tail(s)) <=> \E i \in 1 .. Len(Tail(s)) : Tail(s)[i] = x
          BY <1>1, SeqIs
        <5> QED
          BY <1>2, <2>2, <5>1
      <4> QED
        BY <1>1, <4>1
    <3>2. i + 1 \in DOMAIN s /\ 1 \in DOMAIN s
      BY <1>2
    <3>3. i + 1 = 1
      BY <3>1, <3>2, <1>4 DEF Distinct
    <3> QED
      BY <3>3
  <2> QED
    BY <2>1, <2>2
<1> QED
  BY <1>1, <1>2, <1>3, <1>4

\* Taking the head off an order leaves what is behind behind; the head waits
\* for nobody in it.
LEMMA TailBehind ==
    ASSUME NEW S, NEW s \in Seq(S), s # <<>>, NEW d, Behind(d, s)
    PROVE  Behind(d, Tail(s)) /\ d[Head(s)] \cap Range(s) = {}
<1>1. Len(s) \in Nat /\ Len(s) # 0 /\ Head(s) = s[1] /\ DOMAIN s = 1 .. Len(s) /\ DOMAIN Tail(s) = 1 .. (Len(s) - 1)
      /\ \A i \in 1 .. (Len(s) - 1) : Tail(s)[i] = s[i + 1]
  BY HeadTailProperties, LenProperties, EmptySeq, HeadTailRange
<1>2. Behind(d, Tail(s))
  <2>1. SUFFICES ASSUME NEW i \in 1 .. (Len(s) - 1), NEW j \in 1 .. (Len(s) - 1), Tail(s)[i] \in d[Tail(s)[j]] PROVE i < j
    BY <1>1 DEF Behind
  <2>2. i + 1 \in DOMAIN s /\ j + 1 \in DOMAIN s /\ s[i + 1] \in d[s[j + 1]]
    BY <1>1, <2>1
  <2>3. i + 1 < j + 1
    BY <2>2 DEF Behind
  <2> QED
    BY <2>3
<1>3. ASSUME NEW x \in d[Head(s)] \cap Range(s) PROVE FALSE
  <2>1. PICK i \in 1 .. Len(s) : s[i] = x
    BY SeqIs
  <2>2. i \in DOMAIN s /\ 1 \in DOMAIN s /\ s[i] \in d[s[1]]
    BY <1>1, <2>1
  <2>3. i < 1
    BY <2>2 DEF Behind
  <2> QED
    BY <2>3
<1> QED
  BY <1>2, <1>3

\* The front and the last of a sequence hold its elements.
LEMMA FrontLastRange ==
    ASSUME NEW S, NEW s \in Seq(S), s # <<>>
    PROVE  Front(s) \in Seq(S) /\ Last(s) \in S /\ Range(s) = Range(Front(s)) \cup {Last(s)}
<1>1. Len(s) \in Nat /\ Len(s) # 0 /\ DOMAIN s = 1 .. Len(s) /\ \A i \in 1 .. Len(s) : s[i] \in S
  BY LenProperties, EmptySeq
<1>2. Front(s) = [i \in 1 .. (Len(s) - 1) |-> s[i]]
  <2>1. Front(s) \in Seq(S) /\ Len(Front(s)) = Len(s) - 1 /\ \A i \in 1 .. (Len(s) - 1) : Front(s)[i] = s[i]
    <3>1. 1 \in 1 .. (Len(s) + 1) /\ Len(s) - 1 \in (1 - 1) .. Len(s)
      BY <1>1
    <3>2. SubSeq(s, 1, Len(s) - 1) = [i \in 1 .. (Len(s) - 1) |-> s[i]]
      BY <1>1
    <3> QED
      BY <3>1, <3>2, <1>1, IsASeq DEF Front
  <2> QED
    BY <2>1, <1>1, LenProperties
<1>3. Front(s) \in Seq(S) /\ Len(Front(s)) = Len(s) - 1
  BY <1>1, <1>2
<1>4. \A x : x \in Range(Front(s)) <=> \E i \in 1 .. (Len(s) - 1) : s[i] = x
  <2>1. \A x : x \in Range(Front(s)) <=> \E i \in 1 .. Len(Front(s)) : Front(s)[i] = x
    BY <1>3, SeqIs
  <2> QED
    BY <1>2, <1>3, <2>1
<1>5. \A x : x \in Range(s) <=> \E i \in 1 .. Len(s) : s[i] = x
  BY SeqIs
<1>6. Last(s) \in S /\ Last(s) = s[Len(s)]
  BY <1>1 DEF Last
<1>7. ASSUME NEW x \in Range(s) PROVE x \in Range(Front(s)) \cup {Last(s)}
  <2>1. PICK i \in 1 .. Len(s) : s[i] = x
    BY <1>5
  <2>2. i = Len(s) \/ i \in 1 .. (Len(s) - 1)
    <3>1. Len(s) \in Nat /\ i \in 1 .. Len(s)
      BY <1>1, <2>1
    <3> QED
      BY <3>1
  <2> QED
    BY <2>1, <2>2, <1>4, <1>6
<1>8. ASSUME NEW x \in Range(Front(s)) PROVE x \in Range(s)
  <2>1. PICK i \in 1 .. (Len(s) - 1) : s[i] = x
    BY <1>4
  <2>2. i \in 1 .. Len(s)
    BY <1>1
  <2> QED
    BY <2>1, <2>2, <1>5
<1>9. Last(s) \in Range(s)
  BY <1>1, <1>5, <1>6
<1> QED
  BY <1>3, <1>6, <1>7, <1>8, <1>9

\* Reversing a sequence keeps its elements.
LEMMA ReverseRange ==
    ASSUME NEW S, NEW s \in Seq(S)
    PROVE  Reverse(s) \in Seq(S) /\ Range(Reverse(s)) = Range(s)
<1>1. Len(s) \in Nat /\ DOMAIN s = 1 .. Len(s) /\ \A i \in 1 .. Len(s) : s[i] \in S
  BY LenProperties
<1>2. Reverse(s) = [i \in 1 .. Len(s) |-> s[(Len(s) - i) + 1]]
  BY DEF Reverse
<1>3. \A i \in 1 .. Len(s) : (Len(s) - i) + 1 \in 1 .. Len(s)
  BY <1>1
<1>4. Reverse(s) \in Seq(S) /\ Len(Reverse(s)) = Len(s)
  BY <1>1, <1>2, <1>3
<1>5. \A x : x \in Range(s) <=> \E i \in 1 .. Len(s) : s[i] = x
  BY SeqIs
<1>6. \A x : x \in Range(Reverse(s)) <=> \E i \in 1 .. Len(s) : Reverse(s)[i] = x
  BY <1>4, SeqIs
<1>7. ASSUME NEW i \in 1 .. Len(s) PROVE Reverse(s)[(Len(s) - i) + 1] = s[i] /\ Reverse(s)[i] = s[(Len(s) - i) + 1]
  <2>1. (Len(s) - ((Len(s) - i) + 1)) + 1 = i /\ (Len(s) - i) + 1 \in 1 .. Len(s)
    BY <1>1
  <2> QED
    BY <1>2, <2>1
<1>8. ASSUME NEW x \in Range(s) PROVE x \in Range(Reverse(s))
  <2>1. PICK i \in 1 .. Len(s) : s[i] = x
    BY <1>5
  <2> QED
    BY <2>1, <1>3, <1>6, <1>7
<1>9. ASSUME NEW x \in Range(Reverse(s)) PROVE x \in Range(s)
  <2>1. PICK i \in 1 .. Len(s) : Reverse(s)[i] = x
    BY <1>6
  <2> QED
    BY <2>1, <1>3, <1>5, <1>7
<1> QED
  BY <1>4, <1>8, <1>9

\* Appending an element adds it.
LEMMA AppendRange ==
    ASSUME NEW S, NEW s \in Seq(S), NEW x \in S
    PROVE  /\ Append(s, x) \in Seq(S) /\ Append(s, x) # <<>> /\ Last(Append(s, x)) = x
           /\ Range(Append(s, x)) = Range(s) \cup {x}
           /\ Distinct(s) /\ x \notin Range(s) => Distinct(Append(s, x))
<1>1. Append(s, x) \in Seq(S) /\ Append(s, x) # <<>> /\ Len(Append(s, x)) = Len(s) + 1 /\ Len(s) \in Nat
      /\ (\A i \in 1 .. Len(s) : Append(s, x)[i] = s[i]) /\ Append(s, x)[Len(s) + 1] = x /\ DOMAIN s = 1 .. Len(s)
      /\ DOMAIN Append(s, x) = 1 .. (Len(s) + 1)
  BY AppendProperties, LenProperties
<1>2. \A y : y \in Range(s) <=> \E i \in 1 .. Len(s) : s[i] = y
  BY SeqIs
<1>3. \A y : y \in Range(Append(s, x)) <=> \E i \in 1 .. (Len(s) + 1) : Append(s, x)[i] = y
  BY <1>1, SeqIs
<1>4. \A i \in 1 .. (Len(s) + 1) : i = Len(s) + 1 \/ i \in 1 .. Len(s)
  BY <1>1
<1>5. \A i \in 1 .. Len(s) : i \in 1 .. (Len(s) + 1)
  BY <1>1
<1>6. Len(s) + 1 \in 1 .. (Len(s) + 1)
  BY <1>1
<1>7. Range(Append(s, x)) = Range(s) \cup {x}
  BY <1>1, <1>2, <1>3, <1>4, <1>5, <1>6
<1>8. ASSUME Distinct(s), x \notin Range(s) PROVE Distinct(Append(s, x))
  <2>1. SUFFICES ASSUME NEW i \in 1 .. (Len(s) + 1), NEW j \in 1 .. (Len(s) + 1), Append(s, x)[i] = Append(s, x)[j] PROVE i = j
    BY <1>1 DEF Distinct
  <2>2. i \in 1 .. Len(s) /\ j \in 1 .. Len(s) => i = j
    BY <1>1, <1>8, <2>1 DEF Distinct
  <2> QED
    BY <1>1, <1>2, <1>4, <1>8, <2>1, <2>2
<1> QED
  BY <1>1, <1>7, <1>8 DEF Last

\* Joining two sequences joins their elements.
LEMMA ConcatRange ==
    ASSUME NEW S, NEW s \in Seq(S), NEW t \in Seq(S)
    PROVE  /\ s \o t \in Seq(S) /\ Range(s \o t) = Range(s) \cup Range(t)
           /\ Distinct(s) /\ Distinct(t) /\ Range(s) \cap Range(t) = {} => Distinct(s \o t)
<1>1. s \o t \in Seq(S) /\ Range(s \o t) = Range(s) \cup Range(t)
  BY ConcatProperties, RangeConcatenation
<1>2. ASSUME Distinct(s), Distinct(t), Range(s) \cap Range(t) = {} PROVE Distinct(s \o t)
  <2>1. Len(s) \in Nat /\ Len(t) \in Nat /\ Len(s \o t) = Len(s) + Len(t) /\ DOMAIN (s \o t) = 1 .. (Len(s) + Len(t))
        /\ DOMAIN s = 1 .. Len(s) /\ DOMAIN t = 1 .. Len(t)
    BY <1>1, ConcatProperties, LenProperties
  <2>2. \A i \in 1 .. (Len(s) + Len(t)) : (s \o t)[i] = IF i <= Len(s) THEN s[i] ELSE t[i - Len(s)]
    BY ConcatProperties
  <2>3. SUFFICES ASSUME NEW i \in 1 .. (Len(s) + Len(t)), NEW j \in 1 .. (Len(s) + Len(t)), (s \o t)[i] = (s \o t)[j] PROVE i = j
    BY <2>1 DEF Distinct
  <2>4. ASSUME NEW k \in 1 .. (Len(s) + Len(t))
        PROVE  \/ k \in DOMAIN s /\ (s \o t)[k] = s[k] /\ s[k] \in Range(s)
               \/ k - Len(s) \in DOMAIN t /\ (s \o t)[k] = t[k - Len(s)] /\ t[k - Len(s)] \in Range(t)
    <3>1. CASE k <= Len(s)
      BY <2>1, <2>2, <3>1 DEF Range
    <3>2. CASE ~(k <= Len(s))
      <4>1. k - Len(s) \in DOMAIN t
        BY <2>1, <3>2
      <4> QED
        BY <2>1, <2>2, <3>2, <4>1 DEF Range
    <3> QED
      BY <3>1, <3>2
  <2>5. CASE i \in DOMAIN s /\ (s \o t)[i] = s[i] /\ j \in DOMAIN s /\ (s \o t)[j] = s[j]
    BY <1>2, <2>3, <2>5 DEF Distinct
  <2>6. CASE i - Len(s) \in DOMAIN t /\ (s \o t)[i] = t[i - Len(s)] /\ j - Len(s) \in DOMAIN t /\ (s \o t)[j] = t[j - Len(s)]
    <3>1. i - Len(s) = j - Len(s)
      BY <1>2, <2>3, <2>6 DEF Distinct
    <3> QED
      BY <2>1, <3>1
  <2> QED
    BY <1>2, <2>3, <2>4, <2>5, <2>6
<1> QED
  BY <1>1, <1>2

-----------------------------------------------------------------------------
(***************************************************************************)
(* The start order: BuildStartOrder takes a service that waits for nobody  *)
(* any more; what it has taken is sorted, and what is left waits for one   *)
(* another                                                                 *)
(***************************************************************************)

\* Any order in which a Go map is traversed names every member once.
LEMMA TraversalIs ==
    ASSUME NEW S, IsFiniteSet(S), NEW q \in SetToSeqs(S)
    PROVE  q \in Seq(S) /\ Distinct(q) /\ Range(q) = S
<1>1. Cardinality(S) \in Nat
  BY FS_CardinalityType
<1>2. q \in [1 .. Cardinality(S) -> S] /\ \A i, j \in 1 .. Cardinality(S) : i # j => q[i] # q[j]
  BY DEF SetToSeqs
<1>3. q \in Seq(S) /\ DOMAIN q = 1 .. Cardinality(S)
  BY <1>1, <1>2
<1>4. Distinct(q)
  BY <1>2, <1>3 DEF Distinct
<1>5. q \in Injection(1 .. Cardinality(S), S)
  BY <1>2 DEF Injection, IsInjective
<1>6. Cardinality(1 .. Cardinality(S)) = Cardinality(S)
  <2>1. Cardinality(1 .. Cardinality(S)) = IF 1 > Cardinality(S) THEN 0 ELSE Cardinality(S) - 1 + 1
    BY <1>1, FS_Interval
  <2> QED
    BY <1>1, <2>1
<1>7. q \in Surjection(1 .. Cardinality(S), S)
  BY <1>5, <1>6, FS_Injection
<1>8. Range(q) = S
  BY <1>2, <1>3, <1>7 DEF Surjection, Range
<1> QED
  BY <1>3, <1>4, <1>8

\* A sequence without repetition is as long as it has elements.
LEMMA DistinctLength ==
    ASSUME NEW S, IsFiniteSet(S), NEW s \in Seq(S), Distinct(s)
    PROVE  IsFiniteSet(Range(s)) /\ Cardinality(Range(s)) = Len(s)
<1>1. Len(s) \in Nat /\ DOMAIN s = 1 .. Len(s) /\ s \in [1 .. Len(s) -> S] /\ Range(s) \subseteq S
  BY LenProperties, SeqIs
<1>2. IsFiniteSet(Range(s))
  BY <1>1, FS_Subset
<1>3. s \in Injection(1 .. Len(s), Range(s))
  BY <1>1 DEF Injection, IsInjective, Range, Distinct
<1>4. s \in Surjection(1 .. Len(s), Range(s))
  BY <1>1 DEF Surjection, Range
<1>5. Cardinality(1 .. Len(s)) = Cardinality(Range(s))
  BY <1>2, <1>3, <1>4, FS_Injection
<1>6. Cardinality(1 .. Len(s)) = Len(s)
  <2>1. Cardinality(1 .. Len(s)) = IF 1 > Len(s) THEN 0 ELSE Len(s) - 1 + 1
    BY <1>1, FS_Interval
  <2> QED
    BY <1>1, <2>1
<1> QED
  BY <1>2, <1>5, <1>6

\* The first queue, and what the next service of the queue changes.
LEMMA SortingStarts ==
    ASSUME BottleAssumption, NEW d \in [Services -> SUBSET Services],
           NEW queue \in SetToSeqs({s \in Services : d[s] = {}})
    PROVE  /\ Sorting(d, <<>>, queue, [s \in Services |-> Cardinality(d[s])])
           /\ queue \in Seq(Services)
<1>1. IsFiniteSet(Services) /\ IsFiniteSet({s \in Services : d[s] = {}})
  BY FS_Subset DEF BottleAssumption
<1>2. queue \in Seq({s \in Services : d[s] = {}}) /\ Distinct(queue) /\ Range(queue) = {s \in Services : d[s] = {}}
  BY <1>1, TraversalIs
<1>3. Range(<<>>) = {} /\ DOMAIN <<>> = {}
  BY DEF Range
<1>4. Distinct(<<>>) /\ Placed(d, <<>>)
  BY <1>3 DEF Distinct, Placed
<1>5. Range(queue) = Free(d, {})
  BY <1>2 DEF Free
<1>6. \A x \in Services : IsFiniteSet(d[x]) /\ Cardinality(d[x]) \in Nat /\ d[x] \ {} = d[x]
  BY <1>1, FS_Subset, FS_CardinalityType
<1>7. [s \in Services |-> Cardinality(d[s])] \in [Services -> Int]
  BY <1>6
<1>8. \A x \in Services : [s \in Services |-> Cardinality(d[s])][x] = Cardinality(d[x] \ {})
  BY <1>6
<1>9. queue \in Seq(Services)
  BY <1>2
<1> QED
  BY <1>2, <1>3, <1>4, <1>5, <1>7, <1>8, <1>9 DEF Sorting

NextDegree(d, degree, n) == [s \in Services |-> IF n \in d[s] THEN degree[s] - 1 ELSE degree[s]]
NextFree(d, degree, n) == {s \in Services : n \in d[s] /\ NextDegree(d, degree, n)[s] = 0}

\* One turn of the sorting loop keeps the sorting invariant.
LEMMA SortingGoesOn ==
    ASSUME BottleAssumption, NEW d, NEW order \in Seq(Services), NEW queue \in Seq(Services), NEW degree,
           Sorting(d, order, queue, degree), queue # <<>>, NEW more \in SetToSeqs(NextFree(d, degree, Head(queue)))
    PROVE  /\ Sorting(d, Append(order, Head(queue)), Tail(queue) \o more, NextDegree(d, degree, Head(queue)))
           /\ Append(order, Head(queue)) \in Seq(Services) /\ Tail(queue) \o more \in Seq(Services)
<1> DEFINE n == Head(queue)
           degree2 == NextDegree(d, degree, n)
           free == NextFree(d, degree, n)
<1>20. degree2 = [s \in Services |-> IF n \in d[s] THEN degree[s] - 1 ELSE degree[s]]
  BY DEF NextDegree
<1>21. free = {s \in Services : n \in d[s] /\ degree2[s] = 0}
  BY DEF NextFree
<1> HIDE DEF degree2, free
<1> DEFINE O == Range(order)
           O2 == O \cup {n}
<1>1. n \in Services /\ Tail(queue) \in Seq(Services) /\ Range(queue) = Range(Tail(queue)) \cup {n}
      /\ Distinct(Tail(queue)) /\ n \notin Range(Tail(queue))
  BY HeadTailRange DEF Sorting
<1>2. d[n] \subseteq O /\ n \notin O /\ Range(queue) = {x \in Services : d[x] \subseteq O} \ O
  BY <1>1 DEF Sorting, Free
<1>3. /\ Append(order, n) \in Seq(Services) /\ Range(Append(order, n)) = O2 /\ Distinct(Append(order, n))
  BY <1>1, <1>2, AppendRange DEF Sorting
<1>4. \A x \in Services : IsFiniteSet(d[x]) /\ d[x] \subseteq Services
  BY FS_Subset DEF Sorting, BottleAssumption
<1>5. \A x \in Services : degree2[x] = Cardinality(d[x] \ O2) /\ degree2[x] \in Int
  <2>1. TAKE x \in Services
  <2>2. degree[x] = Cardinality(d[x] \ O) /\ degree[x] \in Int /\ IsFiniteSet(d[x] \ O)
    BY <1>4, FS_Difference DEF Sorting
  <2>3. CASE n \in d[x]
    <3>1. d[x] \ O2 = (d[x] \ O) \ {n} /\ n \in d[x] \ O
      BY <1>2, <2>3
    <3>2. Cardinality((d[x] \ O) \ {n}) = Cardinality(d[x] \ O) - 1
      BY <2>2, <3>1, FS_RemoveElement
    <3>3. degree2[x] = degree[x] - 1
      BY <2>3, <1>20
    <3>4. Cardinality(d[x] \ O2) = Cardinality(d[x] \ O) - 1
      BY <3>1, <3>2
    <3> HIDE DEF O2, O
    <3> QED
      BY <2>2, <3>3, <3>4
  <2>4. CASE n \notin d[x]
    <3>1. d[x] \ O2 = d[x] \ O
      BY <2>4
    <3> QED
      BY <2>2, <2>4, <3>1, <1>20
  <2> QED
    BY <2>3, <2>4
<1>6. degree2 \in [Services -> Int]
  BY <1>5, <1>20
<1>7. free = {x \in Services : n \in d[x] /\ d[x] \subseteq O2}
  <2>1. \A x \in Services : degree2[x] = 0 <=> d[x] \ O2 = {}
    <3>1. TAKE x \in Services
    <3>2. IsFiniteSet(d[x] \ O2)
      BY <1>4, FS_Difference
    <3> QED
      BY <1>5, <3>2, FS_EmptySet
  <2> QED
    BY <1>21, <2>1
<1>8. IsFiniteSet(free)
  <2>1. free \in SUBSET Services
    BY <1>21
  <2> QED
    BY <2>1, FS_Subset DEF BottleAssumption
<1>9. more \in Seq(free) /\ Distinct(more) /\ Range(more) = free
  <2>1. more \in SetToSeqs(free)
    BY DEF free
  <2> QED
    BY <1>8, <2>1, TraversalIs
<1>10. more \in Seq(Services)
  <2>1. free \subseteq Services
    BY <1>21
  <2> QED
    BY <1>9, <2>1, SeqMonotonic
\* What waits for n was not in the queue, nor in the order.
<1>11. \A x \in free : x \notin Range(queue) /\ x \notin O /\ x # n
  <2>1. TAKE x \in free
  <2>2. n \in d[x] /\ x \in Services
    BY <1>7
  <2>3. x \notin O
    <3>1. SUFFICES ASSUME x \in O PROVE FALSE
      OBVIOUS
    <3>2. PICK j \in 1 .. Len(order) : order[j] = x
      BY <3>1, SeqIs
    <3>3. DOMAIN order = 1 .. Len(order) /\ Len(order) \in Nat
      BY SeqIs
    <3>4. PICK i \in 1 .. (j - 1) : order[i] = n
      BY <2>2, <3>2, <3>3 DEF Sorting, Placed
    <3>5. i \in 1 .. Len(order)
      BY <3>2, <3>3, <3>4
    <3> QED
      BY <1>2, <3>4, <3>5, SeqIs
  <2> QED
    BY <1>2, <2>2, <2>3
<1>12. /\ Tail(queue) \o more \in Seq(Services) /\ Range(Tail(queue) \o more) = Range(Tail(queue)) \cup free
       /\ Distinct(Tail(queue) \o more)
  <2>1. Range(Tail(queue)) \cap free = {}
    BY <1>1, <1>11
  <2> QED
    <3>1. PICK rest \in Seq(Services) : rest = Tail(queue)
      BY <1>1
    <3>2. Distinct(rest) /\ Distinct(more) /\ Range(rest) \cap Range(more) = {} /\ Range(more) = free
      BY <1>1, <1>9, <2>1, <3>1
    <3>3. rest \o more \in Seq(Services) /\ Range(rest \o more) = Range(rest) \cup Range(more) /\ Distinct(rest \o more)
      <4>1. Distinct(rest) /\ Distinct(more) /\ Range(rest) \cap Range(more) = {} => Distinct(rest \o more)
        BY <1>10, <3>1, ConcatRange, Zenon
      <4>2. rest \o more \in Seq(Services) /\ Range(rest \o more) = Range(rest) \cup Range(more)
        BY <1>10, <3>1, ConcatRange
      <4> QED
        BY <3>2, <4>1, <4>2
    <3> QED
      BY <3>1, <3>2, <3>3
<1>13. Range(Tail(queue)) \cup free = Free(d, O2)
  <2>1. ASSUME NEW x \in Range(Tail(queue)) PROVE x \in Free(d, O2)
    BY <1>1, <1>2, <2>1 DEF Free
  <2>2. ASSUME NEW x \in free PROVE x \in Free(d, O2)
    BY <1>7, <1>11, <2>2 DEF Free
  <2>3. ASSUME NEW x \in Free(d, O2) PROVE x \in Range(Tail(queue)) \cup free
    <3>1. x \in Services /\ d[x] \subseteq O2 /\ x \notin O /\ x # n
      BY <2>3 DEF Free
    <3>2. CASE n \in d[x]
      BY <1>7, <3>1, <3>2
    <3>3. CASE n \notin d[x]
      BY <1>1, <1>2, <3>1, <3>3
    <3> QED
      BY <3>2, <3>3
  <2> QED
    BY <2>1, <2>2, <2>3
<1>14. Placed(d, Append(order, n))
  <2>1. Len(order) \in Nat /\ Len(Append(order, n)) = Len(order) + 1 /\ DOMAIN order = 1 .. Len(order)
        /\ DOMAIN Append(order, n) = 1 .. (Len(order) + 1)
        /\ (\A i \in 1 .. Len(order) : Append(order, n)[i] = order[i]) /\ Append(order, n)[Len(order) + 1] = n
    BY <1>1, <1>3, AppendProperties, LenProperties
  <2>2. SUFFICES ASSUME NEW j \in 1 .. (Len(order) + 1), NEW x \in d[Append(order, n)[j]]
                 PROVE  \E i \in 1 .. (j - 1) : Append(order, n)[i] = x
    BY <2>1 DEF Placed
  <2>3. CASE j = Len(order) + 1
    <3>1. x \in Range(order)
      BY <1>2, <2>1, <2>2, <2>3
    <3>2. PICK i \in 1 .. Len(order) : order[i] = x
      BY <3>1, SeqIs
    <3>3. i \in 1 .. (j - 1)
      BY <2>1, <2>3
    <3> QED
      BY <2>1, <3>2, <3>3
  <2>4. CASE j # Len(order) + 1
    <3>1. j \in 1 .. Len(order)
      BY <2>1, <2>4
    <3>2. PICK i \in 1 .. (j - 1) : order[i] = x
      BY <2>1, <2>2, <3>1 DEF Sorting, Placed
    <3>3. i \in 1 .. Len(order)
      BY <2>1, <3>1, <3>2
    <3> QED
      BY <2>1, <3>2, <3>3
  <2> QED
    BY <2>3, <2>4
<1>15. \A x \in Services : d[x] \subseteq Services
  BY DEF Sorting
<1> HIDE DEF O
<1>16. Range(Tail(queue) \o more) = Free(d, Range(Append(order, n)))
  BY <1>3, <1>12, <1>13
<1>17. \A x \in Services : degree2[x] = Cardinality(d[x] \ Range(Append(order, n)))
  BY <1>3, <1>5
<1>18. Sorting(d, Append(order, n), Tail(queue) \o more, degree2)
  BY <1>3, <1>6, <1>12, <1>14, <1>15, <1>16, <1>17 DEF Sorting
<1> QED
  BY <1>3, <1>12, <1>18 DEF degree2

\* When the queue is empty every service is in the order, or the ones left
\* wait for one another.
LEMMA SortingEnds ==
    ASSUME BottleAssumption, NEW d, NEW order \in Seq(Services), NEW degree, Sorting(d, order, <<>>, degree)
    PROVE  /\ Len(order) = Cardinality(Services) => Sorted(d, order)
           /\ Len(order) # Cardinality(Services) => Waiting(d)
<1>1. Range(<<>>) = {} /\ IsFiniteSet(Services)
  BY DEF Range, BottleAssumption
<1>2. Free(d, Range(order)) = {} /\ Distinct(order) /\ Placed(d, order) /\ \A x \in Services : d[x] \subseteq Services
  BY <1>1 DEF Sorting
<1>3. Cardinality(Range(order)) = Len(order) /\ Range(order) \in SUBSET Services
  BY <1>1, <1>2, DistinctLength, SeqIs
<1>4. ASSUME Len(order) = Cardinality(Services) PROVE Sorted(d, order)
  <2>1. Range(order) = Services
    BY <1>1, <1>3, <1>4, FS_Subset
  <2>2. Behind(d, order)
    <3>1. Len(order) \in Nat /\ DOMAIN order = 1 .. Len(order)
      BY SeqIs
    <3>2. SUFFICES ASSUME NEW i \in DOMAIN order, NEW j \in DOMAIN order, order[i] \in d[order[j]] PROVE i < j
      BY DEF Behind
    <3>3. PICK k \in 1 .. (j - 1) : order[k] = order[i]
      BY <1>2, <3>2 DEF Placed
    <3>4. k \in DOMAIN order /\ k < j
      BY <3>1, <3>2, <3>3
    <3>5. k = i
      BY <1>2, <3>3, <3>4 DEF Distinct
    <3> QED
      BY <3>4, <3>5
  <2> QED
    BY <1>2, <2>1, <2>2 DEF Sorted
<1>5. ASSUME Len(order) # Cardinality(Services) PROVE Waiting(d)
  <2>1. PICK S : S = Services \ Range(order)
    OBVIOUS
  <2>2. S \in SUBSET Services /\ S # {}
    <3>1. Range(order) # Services
      BY <1>3, <1>5
    <3> QED
      BY <1>3, <2>1, <3>1
  <2>3. ASSUME NEW s \in S PROVE d[s] \cap S # {}
    <3>1. ~(d[s] \subseteq Range(order)) /\ d[s] \subseteq Services
      BY <1>2, <2>1, <2>3 DEF Free
    <3> QED
      BY <2>1, <3>1
  <2> QED
    BY <2>2, <2>3 DEF Waiting
<1> QED
  BY <1>4, <1>5

\* A set of numbers that is not empty has a least one.
LEMMA LeastIndex ==
    ASSUME NEW S \in SUBSET Nat, S # {}
    PROVE  \E m \in S : \A y \in S : m <= y
<1>1. PICK T : T = {1 .. i : i \in S}
  OBVIOUS
<1>2. T \subseteq FiniteSubsetsOf(Nat) /\ T # {}
  <2>1. \A i \in S : 1 .. i \in SUBSET Nat /\ IsFiniteSet(1 .. i)
    BY FS_Interval
  <2> QED
    BY <1>1, <2>1 DEF FiniteSubsetsOf
<1>3. PICK x \in T : \A y \in T : ~(<<y, x>> \in StrictSubsetOrdering(Nat))
  BY <1>2, FS_StrictSubsetOrderingWellFounded, WFMin
<1>4. PICK m \in S : x = 1 .. m
  BY <1>1
<1>5. ASSUME NEW y \in S PROVE m <= y
  <2>1. 1 .. y \in T /\ 1 .. y \in SUBSET Nat /\ x \in SUBSET Nat
    BY <1>1, <1>4
  <2>2. 1 .. y \subseteq x => 1 .. y = x
    BY <1>3, <2>1 DEF StrictSubsetOrdering
  <2>3. SUFFICES ASSUME y < m PROVE FALSE
    OBVIOUS
  <2>4. 1 .. y \subseteq 1 .. m /\ m \in 1 .. m /\ m \notin 1 .. y
    BY <2>3
  <2> QED
    BY <1>4, <2>2, <2>4
<1> QED
  BY <1>5

\* Services that can be ordered do not wait for one another.
LEMMA SortedIsFree ==
    ASSUME NEW d, NEW s \in Seq(Services), Sorted(d, s)
    PROVE  ~Waiting(d)
<1>1. SUFFICES ASSUME NEW S \in SUBSET Services, S # {}, \A x \in S : d[x] \cap S # {} PROVE FALSE
  BY DEF Waiting
<1>2. Len(s) \in Nat /\ DOMAIN s = 1 .. Len(s) /\ \A x : x \in Range(s) <=> \E i \in 1 .. Len(s) : s[i] = x
  BY SeqIs
<1>3. \A x \in S : \E i \in 1 .. Len(s) : s[i] = x
  BY <1>1, <1>2 DEF Sorted
<1>4. PICK I : I = {i \in 1 .. Len(s) : s[i] \in S}
  OBVIOUS
<1>5. I \in SUBSET Nat /\ I # {}
  BY <1>1, <1>3, <1>4
<1>6. PICK m \in I : \A i \in I : m <= i
  BY <1>5, LeastIndex
<1>7. PICK x \in S : x \in d[s[m]]
  BY <1>1, <1>4, <1>6
<1>8. PICK i \in 1 .. Len(s) : s[i] = x
  BY <1>3, <1>7
<1>9. i \in I /\ i < m
  BY <1>2, <1>4, <1>6, <1>7, <1>8 DEF Sorted, Behind
<1> QED
  BY <1>5, <1>6, <1>9

-----------------------------------------------------------------------------
(***************************************************************************)
(* The inductive invariant of bottles                                      *)
(***************************************************************************)

BottleEntries == [order : Seq(Services), has : SUBSET Services, net : BOOLEAN, pols : SUBSET {"p"}, there : BOOLEAN]
RegisterPcs == {"rest", "order", "refused", "policy", "commit", "store", "network", "netentry", "create", "entry",
                "rb_delete", "rb_network", "rb_bottle", "rb_policies", "ok", "failed",
                "uncommitted"}
ActionPcs == {"rest", "next", "start", "stop", "skip", "delete", "del_policies", "del_network", "del_bottle", "ok", "failed"}
BottleCalls == [op : {"idle", "register", "done", "start", "stop", "delete"}, pc : RegisterPcs \cup ActionPcs,
                info : BottleEntries, queue : Seq(Services), degree : {<<>>} \cup [Services -> Int],
                order : Seq(Services), made : Seq(Services), left : Seq(Services), pols : SUBSET {"p"},
                hurt : BOOLEAN, solo : BOOLEAN]
BoxStates == {"none", "created", "running", "stopped"}
BottleTyped ==
    /\ deps \in [Services -> SUBSET (Services \cup {Missing})]
    /\ wants \in [policy : BOOLEAN, network : BOOLEAN]
    /\ bottle \in BottleEntries /\ boxes \in [Services -> BoxStates]
    /\ bridge \in BOOLEAN /\ policies \in SUBSET {"p"} /\ ran \in SUBSET Services
    /\ breq \in [BottleUsers -> BottleCalls]

BoxesIn(b, S) == \A x \in Services : b[x] # "none" => x \in S
Complete(i) == Last(i.order) \in i.has
Registered == breq[Registrar].op = "done" \/ breq[Registrar].pc = "ok"
MadeSoFar(made, order) == Len(made) <= Len(order) /\ \A i \in DOMAIN made : made[i] = order[i]

\* An entry that names the last container was read, or is there, after the
\* registration, and names all there is to remove.
EntryOK(i) ==
    i.there => /\ Sorted(deps, i.order)
               /\ Complete(i) => Registered /\ policies \subseteq i.pols /\ (bridge => i.net)

EarlyPcs == {"order", "refused", "policy"}
StoredPcs == {"network", "netentry", "create", "entry", "rb_delete", "rb_network", "rb_bottle"}
UndonePcs == {"rb_policies", "failed", "uncommitted"}
MakingPcs == {"create", "entry"}

\* What there is of the bottle at each step of its registration.
RegInv ==
    LET q == breq[Registrar]
    IN /\ q.pc \in RegisterPcs /\ q.op \in {"idle", "register", "done"} /\ (q.pc = "rest" <=> q.op # "register")
       /\ q.op = "idle" => q.order = <<>>
       /\ q.pc = "order" => Sorting(deps, q.order, q.queue, q.degree)
       /\ q.pc = "refused" => Waiting(deps) \/ \E x \in Services : Missing \in deps[x]
       /\ q.pc \in RegisterPcs \ {"rest", "order", "refused"} => Sorted(deps, q.order)
       /\ q.op = "idle" \/ q.pc \in EarlyPcs \cup {"commit", "store", "network", "netentry"} => BoxesIn(boxes, {})
       /\ q.op = "idle" \/ q.pc \in EarlyPcs \cup {"commit", "store"} => ~bottle.there
       /\ q.op = "idle" \/ q.pc \in EarlyPcs \cup {"commit", "store", "network"} => ~bridge
       /\ q.op = "idle" \/ q.pc \in EarlyPcs => policies = {} /\ q.pols = {} /\ q.made = <<>> /\ ~q.hurt
       /\ q.op = "register" => policies \subseteq q.pols
       /\ q.pc \in {"commit", "store", "network", "netentry"} => q.made = <<>> /\ ~q.hurt
       /\ q.pc \in StoredPcs => bottle.there
       /\ q.pc \in StoredPcs \cup UndonePcs /\ bottle.there =>
              bottle.order = q.order /\ bottle.pols = q.pols /\ ~Complete(bottle)
       /\ q.pc \in {"network", "netentry"} => wants.network
       /\ q.pc = "rb_delete" => (bridge => wants.network)
       /\ q.pc \in {"network", "netentry", "create", "entry"} => bottle.has \subseteq Range(q.made)
       /\ q.pc \in MakingPcs =>
              /\ bridge => bottle.net /\ wants.network
              /\ MadeSoFar(q.made, q.order) /\ BoxesIn(boxes, Range(q.made)) /\ ~q.hurt
       /\ q.pc = "create" => Len(q.made) < Len(q.order)
       /\ q.pc = "entry" => q.made # <<>> /\ Last(q.made) \notin bottle.has
       /\ q.pc = "rb_delete" /\ ~q.hurt => BoxesIn(boxes, Range(q.left))
       /\ q.pc \in {"rb_network", "rb_bottle"} \cup UndonePcs /\ ~q.hurt => BoxesIn(boxes, {})
       /\ q.pc \in {"rb_bottle"} \cup UndonePcs /\ ~q.hurt => ~bridge
       /\ q.pc \in UndonePcs /\ ~q.hurt => ~bottle.there
       /\ q.pc = "failed" /\ ~q.hurt => policies = {}

\* What Start, Stop and Delete rely on and what they have done so far.
UserInv(u) ==
    LET q == breq[u]
    IN /\ q.pc \in ActionPcs /\ q.op \in {"idle", "start", "stop", "delete"}
       /\ q.pc # "rest" => q.op # "idle" /\ q.info.there /\ EntryOK(q.info)
       /\ q.pc \in {"start", "stop", "skip", "delete"} => q.left # <<>>
       /\ q.op = "start" => /\ q.pc \in {"next", "start", "ok", "failed"}
                            /\ q.pc \in {"next", "start"} => Services \ Range(q.left) \subseteq ran /\ Behind(deps, q.left)
       /\ q.op = "stop" => /\ q.pc \in {"next", "stop", "skip", "ok", "failed"}
                           /\ q.solo /\ q.pc \in {"next", "stop", "skip"} =>
                                  \A x \in Services \ Range(q.left) : boxes[x] # "running"
                           /\ q.solo /\ q.pc = "skip" => boxes[Head(q.left)] # "running"
                           /\ q.solo /\ q.pc = "ok" => \A x \in Services : boxes[x] # "running"
       /\ q.op = "delete" => /\ q.pc \in {"next", "stop", "delete", "del_policies", "del_network", "del_bottle", "ok", "failed"}
                             /\ q.pc = "next" => q.left = Reverse(q.info.order) \/ Complete(q.info)
                             /\ q.pc \notin {"next", "failed"} => Complete(q.info)
                             /\ q.pc \in {"next", "stop", "delete"} /\ Complete(q.info) => BoxesIn(boxes, Range(q.left))
                             /\ q.pc \in {"del_policies", "del_network", "del_bottle", "ok"} => BoxesIn(boxes, {})
                             /\ q.pc \in {"del_network", "del_bottle", "ok"} => policies = {}
                             /\ q.pc \in {"del_bottle", "ok"} => ~bridge
                             /\ q.pc = "ok" => ~bottle.there

Actors == BottleUsers \ {Registrar}
BottleInv ==
    /\ BottleTyped /\ RegInv /\ EntryOK(bottle) /\ DependenciesFirst
    /\ \A u \in Actors : UserInv(u)

-----------------------------------------------------------------------------
(***************************************************************************)
(* Every step moves one request: what that means for the others            *)
(***************************************************************************)

\* What the steps of others change for a request: nothing but that it is no
\* longer alone.
Calm == \A x \in Services : boxes'[x] = "running" => boxes[x] = "running"
Fewer == \A x \in Services : boxes'[x] # "none" => boxes[x] # "none"
Follows(v) ==
    /\ breq'[v] \in BottleCalls
    /\ breq'[v].op = breq[v].op /\ breq'[v].pc = breq[v].pc /\ breq'[v].info = breq[v].info
    /\ breq'[v].queue = breq[v].queue /\ breq'[v].degree = breq[v].degree /\ breq'[v].order = breq[v].order
    /\ breq'[v].made = breq[v].made /\ breq'[v].left = breq[v].left /\ breq'[v].pols = breq[v].pols
    /\ breq'[v].hurt = breq[v].hurt /\ (breq'[v].solo => breq[v].solo)
    /\ Calm \/ ~breq'[v].solo \/ breq'[v].pc = "rest"

\* Once the bottle is registered, nothing is added to it.
BottleEnv ==
    /\ deps' = deps /\ wants' = wants /\ ran \subseteq ran'
    /\ Registered => Registered' /\ policies' \subseteq policies /\ (bridge' => bridge) /\ (bottle'.there => bottle.there) /\ Fewer

\* What the record of a call can be.
LEMMA CallIs ==
    ASSUME NEW q \in BottleCalls
    PROVE  /\ q.op \in {"idle", "register", "done", "start", "stop", "delete"} /\ q.pc \in RegisterPcs \cup ActionPcs
           /\ q.info \in BottleEntries /\ q.queue \in Seq(Services) /\ q.degree \in {<<>>} \cup [Services -> Int]
           /\ q.order \in Seq(Services) /\ q.made \in Seq(Services) /\ q.left \in Seq(Services)
           /\ q.pols \in SUBSET {"p"} /\ q.hurt \in BOOLEAN /\ q.solo \in BOOLEAN
  BY DEF BottleCalls

\* What the record of a bottle can be.
LEMMA EntryIs ==
    ASSUME NEW i \in BottleEntries
    PROVE  /\ i.order \in Seq(Services) /\ i.has \in SUBSET Services /\ i.net \in BOOLEAN
           /\ i.pols \in SUBSET {"p"} /\ i.there \in BOOLEAN
  BY DEF BottleEntries

\* A bottle that is not there, and a call at rest, hold nothing.
LEMMA NoneIs ==
    /\ NoBottle \in BottleEntries /\ ~NoBottle.there /\ ~NoBottle.net /\ NoBottle.pols = {} /\ NoBottle.order = <<>>
    /\ NoBottle.has = {}
    /\ Resting \in BottleCalls /\ Resting.op = "idle" /\ Resting.pc = "rest" /\ Resting.pols = {} /\ Resting.made = <<>>
    /\ ~Resting.hurt /\ Resting.left = <<>>
<1>1. <<>> \in Seq(Services)
  BY EmptySeq
<1>2. NoBottle \in BottleEntries /\ ~NoBottle.there /\ ~NoBottle.net /\ NoBottle.pols = {} /\ NoBottle.order = <<>> /\ NoBottle.has = {}
  BY <1>1 DEF NoBottle, BottleEntries
<1> QED
  BY <1>1, <1>2 DEF Resting, BottleCalls, RegisterPcs

\* A call that moves leaves the others alone.
LEMMA Moved ==
    ASSUME BottleTyped, NEW u \in BottleUsers, NEW r \in BottleCalls, breq' = [breq EXCEPT ![u] = r]
    PROVE  /\ breq' \in [BottleUsers -> BottleCalls] /\ breq'[u] = r
           /\ \A v \in BottleUsers \ {u} : breq'[v] = breq[v] /\ breq[v] \in BottleCalls
  BY DEF BottleTyped

\* While what is shared stands still, the other calls may go on.
LEMMA MovedFollow ==
    ASSUME BottleTyped, NEW u \in BottleUsers, NEW r \in BottleCalls, breq' = [breq EXCEPT ![u] = r], Calm
    PROVE  \A v \in BottleUsers \ {u} : Follows(v)
<1>1. \A v \in BottleUsers \ {u} : breq'[v] = breq[v] /\ breq[v] \in BottleCalls
  BY Moved
<1> QED
  BY <1>1 DEF Follows

\* A call that meets another keeps the rest of its record.
LEMMA NoLongerAlone ==
    ASSUME NEW q \in BottleCalls
    PROVE  LET r == [q EXCEPT !.solo = FALSE]
           IN /\ r \in BottleCalls /\ r.op = q.op /\ r.pc = q.pc /\ r.info = q.info /\ r.queue = q.queue
              /\ r.degree = q.degree /\ r.order = q.order /\ r.made = q.made /\ r.left = q.left /\ r.pols = q.pols
              /\ r.hurt = q.hurt /\ ~r.solo
  BY DEF BottleCalls

\* A call that goes on leaves the others able to.
LEMMA MovedWith ==
    ASSUME BottleTyped, NEW u \in BottleUsers, NEW r \in BottleCalls, GoWith(u, r)
    PROVE  /\ breq' \in [BottleUsers -> BottleCalls] /\ breq'[u] = r
           /\ \A v \in BottleUsers \ {u} : Follows(v)
<1>1. breq' = [v \in BottleUsers |->
                 IF v = u THEN r ELSE IF breq[v].pc = "rest" THEN breq[v] ELSE [breq[v] EXCEPT !.solo = FALSE]]
  BY DEF GoWith
<1>2. \A v \in BottleUsers : breq[v] \in BottleCalls /\ [breq[v] EXCEPT !.solo = FALSE] \in BottleCalls
  BY NoLongerAlone DEF BottleTyped
<1>3. breq' \in [BottleUsers -> BottleCalls] /\ breq'[u] = r
  BY <1>1, <1>2
<1>4. ASSUME NEW v \in BottleUsers \ {u} PROVE Follows(v)
  <2>1. CASE breq[v].pc = "rest"
    <3>1. breq'[v] = breq[v] /\ breq[v] \in BottleCalls
      BY <1>1, <1>2, <2>1
    <3> QED
      BY <2>1, <3>1 DEF Follows
  <2>2. CASE breq[v].pc # "rest"
    <3>1. breq'[v] = [breq[v] EXCEPT !.solo = FALSE] /\ breq[v] \in BottleCalls
      BY <1>1, <1>2, <2>2
    <3> QED
      BY <3>1, NoLongerAlone DEF Follows
  <2> QED
    BY <2>1, <2>2
<1> QED
  BY <1>3, <1>4

\* A sorted order has every service and is not empty.
LEMMA Sortedness ==
    ASSUME BottleAssumption, NEW d, NEW s \in Seq(Services), Sorted(d, s)
    PROVE  s # <<>> /\ Last(s) \in Services /\ Last(s) \in Range(s) /\ Range(s) = Services /\ Len(s) \in Nat /\ Len(s) # 0
<1>1. Range(s) = Services /\ s # <<>>
  BY SeqIs DEF Sorted, BottleAssumption
<1> QED
  BY <1>1, FrontLastRange, LenProperties, EmptySeq

\* Where there were no containers there are none when there are fewer.
LEMMA FewerIn ==
    ASSUME BottleTyped, BottleTyped', Fewer, NEW S, BoxesIn(boxes, S)
    PROVE  BoxesIn(boxes', S)
  BY DEF BottleTyped, Fewer, BoxesIn

\* An actor's request, when others move.
LEMMA ActorFollows ==
    ASSUME BottleAssumption, BottleTyped, BottleTyped', NEW u \in Actors, UserInv(u), Follows(u), BottleEnv
    PROVE  UserInv(u)'
<1>1. u \in BottleUsers /\ breq[u] \in BottleCalls /\ breq'[u] \in BottleCalls
  BY DEF Actors, BottleTyped, Follows
<1>2. /\ breq'[u].op = breq[u].op /\ breq'[u].pc = breq[u].pc /\ breq'[u].info = breq[u].info
      /\ breq'[u].left = breq[u].left /\ (breq'[u].solo => breq[u].solo)
      /\ Calm \/ ~breq'[u].solo \/ breq'[u].pc = "rest"
  BY DEF Follows
<1>3. deps' = deps /\ ran \subseteq ran'
  BY DEF BottleEnv
<1>4. ASSUME EntryOK(breq[u].info), breq[u].info.there PROVE EntryOK(breq[u].info)'
  <2>1. Sorted(deps, breq[u].info.order)
    BY <1>4 DEF EntryOK
  <2>2. ASSUME Complete(breq[u].info)
        PROVE  Registered' /\ policies' \subseteq breq[u].info.pols /\ (bridge' => breq[u].info.net)
    BY <1>4, <2>2 DEF EntryOK, BottleEnv
  <2> QED
    BY <1>2, <1>3, <2>1, <2>2 DEF EntryOK
<1>5. ASSUME NEW S, BoxesIn(boxes, S), Registered PROVE BoxesIn(boxes', S)
  BY <1>5, FewerIn DEF BottleEnv
<1>6. breq[u].pc # "rest" /\ Complete(breq[u].info) => Registered
  BY DEF UserInv, EntryOK
<1>7. ASSUME breq'[u].solo, breq'[u].pc # "rest", NEW x \in Services, boxes[x] # "running" PROVE boxes'[x] # "running"
  BY <1>2, <1>7 DEF Calm
<1>8. breq[u].op = "delete" /\ breq[u].pc \in {"del_policies", "del_network", "del_bottle", "ok"} => Registered
  BY <1>6 DEF UserInv
<1>9. breq[u].pc \in {"start", "stop", "skip", "delete"} => Head(breq[u].left) \in Services
  BY <1>1, CallIs, HeadTailRange DEF UserInv
<1>10. /\ breq'[u].pc \in ActionPcs /\ breq'[u].op \in {"idle", "start", "stop", "delete"}
       /\ breq'[u].pc # "rest" => breq'[u].op # "idle" /\ breq'[u].info.there /\ EntryOK(breq[u].info)'
       /\ breq'[u].pc \in {"start", "stop", "skip", "delete"} => breq'[u].left # <<>>
  BY <1>2, <1>4 DEF UserInv
<1>11. ASSUME breq[u].op = "start" PROVE UserInv(u)'
  BY <1>2, <1>3, <1>10, <1>11 DEF UserInv
<1>12. ASSUME breq[u].op = "stop" PROVE UserInv(u)'
  BY <1>2, <1>3, <1>7, <1>9, <1>10, <1>12 DEF UserInv
<1>13. ASSUME breq[u].op = "delete" PROVE UserInv(u)'
  BY <1>2, <1>3, <1>5, <1>6, <1>8, <1>10, <1>13 DEF UserInv, BottleEnv
<1>14. ASSUME breq[u].op = "idle" PROVE UserInv(u)'
  BY <1>2, <1>3, <1>10, <1>14 DEF UserInv
<1> QED
  BY <1>2, <1>10, <1>11, <1>12, <1>13, <1>14

\* The registration, when others move.
LEMMA RegistrarFollows ==
    ASSUME BottleAssumption, BottleTyped, BottleTyped', RegInv, Follows(Registrar), BottleEnv, Fewer,
           Registered \/ (policies' = policies /\ bridge' = bridge /\ bottle' = bottle)
    PROVE  RegInv'
<1>1. Registrar \in BottleUsers /\ breq[Registrar] \in BottleCalls /\ breq'[Registrar] \in BottleCalls
  BY DEF BottleAssumption, BottleTyped
<1>2. LET q == breq[Registrar]
          r == breq'[Registrar]
      IN r.op = q.op /\ r.pc = q.pc /\ r.queue = q.queue /\ r.degree = q.degree /\ r.order = q.order
         /\ r.made = q.made /\ r.left = q.left /\ r.pols = q.pols /\ r.hurt = q.hurt
  BY DEF Follows
<1>3. \A S : BoxesIn(boxes, S) => BoxesIn(boxes', S)
  BY FewerIn
<1>4. deps' = deps /\ wants' = wants
  BY DEF BottleEnv
<1>5. CASE ~Registered
  BY <1>1, <1>2, <1>3, <1>4, <1>5 DEF RegInv
<1>6. CASE Registered
  <2>1. policies' \subseteq policies
    BY <1>6 DEF BottleEnv
  <2>2. \/ breq[Registrar].op = "done" /\ breq[Registrar].pc = "rest"
        \/ breq[Registrar].pc = "ok" /\ breq[Registrar].op = "register"
    <3>1. breq[Registrar].pc = "rest" <=> breq[Registrar].op # "register"
      BY DEF RegInv
    <3> QED
      BY <1>6, <3>1 DEF Registered
  <2> QED
    BY <1>1, <1>2, <1>4, <2>1, <2>2 DEF RegInv, RegisterPcs, EarlyPcs, StoredPcs, UndonePcs, MakingPcs
<1> QED
  BY <1>5, <1>6

-----------------------------------------------------------------------------
(***************************************************************************)
(* The steps of a registration up to the first container                   *)
(***************************************************************************)

\* Only the registration takes its steps, before the bottle is on record.
LEMMA OnlyRegistrar ==
    ASSUME BottleInv, NEW u \in BottleUsers, breq[u].pc \in RegisterPcs \ ActionPcs
    PROVE  /\ u = Registrar /\ ~Registered /\ breq[Registrar] \in BottleCalls /\ breq[Registrar].op = "register"
<1>1. u = Registrar
  BY DEF BottleInv, Actors, UserInv
<1>2. breq[Registrar].pc # "rest" /\ breq[Registrar].pc # "ok"
  BY <1>1 DEF ActionPcs
<1>3. breq[Registrar].pc = "rest" <=> breq[Registrar].op # "register"
  BY DEF BottleInv, RegInv
<1> QED
  BY <1>1, <1>2, <1>3 DEF Registered, BottleInv, BottleTyped

\* A step of the registration that keeps its promises keeps the invariant.
LEMMA RegistrarMoves ==
    ASSUME BottleAssumption, BottleInv, breq' \in [BottleUsers -> BottleCalls], \A v \in Actors : Follows(v),
           deps' = deps, wants' = wants, ran' = ran,
           bottle' \in BottleEntries, boxes' \in [Services -> BoxStates], bridge' \in BOOLEAN, policies' \in SUBSET {"p"},
           ~Registered \/ (Registered' /\ UNCHANGED <<bottle, boxes, bridge, policies>>),
           RegInv', EntryOK(bottle)'
    PROVE  BottleInv'
<1>1. BottleTyped'
  BY DEF BottleInv, BottleTyped
<1>2. BottleEnv
  BY DEF BottleEnv, Fewer
<1>3. \A u \in Actors : UserInv(u)'
  BY <1>1, <1>2, ActorFollows DEF BottleInv
<1>4. DependenciesFirst'
  BY DEF BottleInv, DependenciesFirst
<1> QED
  BY <1>1, <1>3, <1>4 DEF BottleInv

\* The same for a step that changes nothing but the registrar's request.
LEMMA RegistrarAlone ==
    ASSUME BottleAssumption, BottleInv, NEW r \in BottleCalls, breq' = [breq EXCEPT ![Registrar] = r],
           Calm, deps' = deps, wants' = wants, ran' = ran,
           bottle' \in BottleEntries, boxes' \in [Services -> BoxStates], bridge' \in BOOLEAN, policies' \in SUBSET {"p"},
           ~Registered \/ (Registered' /\ UNCHANGED <<bottle, boxes, bridge, policies>>),
           breq'[Registrar] = r => RegInv' /\ EntryOK(bottle)'
    PROVE  BottleInv'
<1>1. breq' \in [BottleUsers -> BottleCalls] /\ breq'[Registrar] = r
  BY Moved DEF BottleInv, BottleAssumption
<1>2. \A v \in Actors : Follows(v)
  BY MovedFollow DEF BottleInv, BottleAssumption, Actors
<1> QED
  BY <1>1, <1>2, RegistrarMoves

\* No boxes in the empty set means no boxes.
LEMMA NoneIn == ASSUME BottleTyped, BoxesIn(boxes, {}) PROVE \A x \in Services : boxes[x] = "none"
  BY DEF BoxesIn

\* RegisterBottle keeps BottleInv.
LEMMA RegisterBottleKeeps == ASSUME BottleAssumption, BottleInv, NEW u \in BottleUsers, RegisterBottle(u) PROVE BottleInv'
<1>1. /\ u = Registrar /\ breq[Registrar].pc = "rest" /\ breq[Registrar].op = "idle"
      /\ UNCHANGED <<deps, wants, bottle, boxes, bridge, policies, ran>>
  BY DEF RegisterBottle, Given
<1>2. breq[Registrar] \in BottleCalls /\ BottleTyped /\ RegInv /\ EntryOK(bottle)
  BY DEF BottleInv, BottleTyped, BottleAssumption
<1>3. BoxesIn(boxes, {}) /\ ~bottle.there /\ ~bridge /\ policies = {} /\ breq[Registrar].pols = {}
      /\ breq[Registrar].made = <<>> /\ ~breq[Registrar].hurt
      /\ breq[Registrar].order = <<>>
  BY <1>1, <1>2 DEF RegInv
<1>4. ~Registered /\ Calm
  BY <1>1 DEF Registered, Calm
<1>5. CASE \E s \in Services : Missing \in deps[s]
  <2>1. PICK r : r = [breq[Registrar] EXCEPT !.op = "register", !.pc = "refused"]
    OBVIOUS
  <2>2. breq' = [breq EXCEPT ![Registrar] = r]
    BY <1>1, <1>5, <2>1 DEF RegisterBottle
  <2>3. /\ r \in BottleCalls /\ r.op = "register" /\ r.pc = "refused" /\ r.pols = {} /\ r.made = <<>> /\ ~r.hurt
    BY <1>2, <1>3, <2>1 DEF BottleCalls, RegisterPcs
  <2>4. ASSUME breq'[Registrar] = r PROVE RegInv' /\ EntryOK(bottle)'
    BY <1>1, <1>3, <1>5, <2>3, <2>4 DEF RegInv, EntryOK, RegisterPcs, EarlyPcs, StoredPcs, UndonePcs, MakingPcs
  <2> QED
    BY <1>1, <1>2, <1>4, <2>2, <2>3, <2>4, RegistrarAlone DEF BottleTyped
<1>6. CASE ~ \E s \in Services : Missing \in deps[s]
  <2>1. PICK q \in SetToSeqs({s \in Services : deps[s] = {}}) :
             breq' = [breq EXCEPT ![Registrar] = [breq[Registrar] EXCEPT !.op = "register", !.pc = "order", !.queue = q,
                                                        !.degree = [s \in Services |-> Cardinality(deps[s])]]]
    BY <1>1, <1>6 DEF RegisterBottle
  <2>2. PICK r : r = [breq[Registrar] EXCEPT !.op = "register", !.pc = "order", !.queue = q,
                                             !.degree = [s \in Services |-> Cardinality(deps[s])]]
    OBVIOUS
  <2>3. PICK n : n = [s \in Services |-> Cardinality(deps[s])]
    OBVIOUS
  <2>4. deps \in [Services -> SUBSET Services]
    BY <1>2, <1>6 DEF BottleTyped
  <2>5. Sorting(deps, <<>>, q, n) /\ q \in Seq(Services) /\ n \in [Services -> Int]
    <3>1. Sorting(deps, <<>>, q, n) /\ q \in Seq(Services)
      BY <2>3, <2>4, SortingStarts
    <3> QED
      BY <3>1 DEF Sorting
  <2>6. /\ r \in BottleCalls /\ r.op = "register" /\ r.pc = "order" /\ r.pols = {} /\ r.made = <<>> /\ ~r.hurt
        /\ r.order = <<>> /\ r.queue = q /\ r.degree = n
    BY <1>2, <1>3, <2>2, <2>3, <2>5 DEF BottleCalls, RegisterPcs
  <2>7. ASSUME breq'[Registrar] = r PROVE RegInv' /\ EntryOK(bottle)'
    BY <1>1, <1>3, <2>5, <2>6, <2>7 DEF RegInv, EntryOK, RegisterPcs, EarlyPcs, StoredPcs, UndonePcs, MakingPcs
  <2>8. breq' = [breq EXCEPT ![Registrar] = r]
    BY <2>1, <2>2
  <2> QED
    BY <1>1, <1>2, <1>4, <2>6, <2>7, <2>8, RegistrarAlone DEF BottleTyped
<1> QED
  BY <1>5, <1>6

\* OrderNext keeps BottleInv.
LEMMA OrderNextKeeps == ASSUME BottleAssumption, BottleInv, NEW u \in BottleUsers, OrderNext(u) PROVE BottleInv'
<1>1. /\ breq[u].pc = "order" /\ breq[u].queue # <<>>
      /\ UNCHANGED <<deps, wants, bottle, boxes, bridge, policies, ran>>
  BY DEF OrderNext, Given
<1>2. /\ u = Registrar /\ ~Registered /\ breq[Registrar] \in BottleCalls /\ breq[Registrar].op = "register"
      /\ BottleTyped /\ RegInv /\ EntryOK(bottle) /\ Calm
  BY <1>1, OnlyRegistrar DEF BottleInv, RegisterPcs, ActionPcs, Calm
<1> DEFINE q == breq[Registrar]
           n == Head(q.queue)
           degree == [s \in Services |-> IF n \in deps[s] THEN q.degree[s] - 1 ELSE q.degree[s]]
           free == {s \in Services : n \in deps[s] /\ degree[s] = 0}
<1>3. \E more \in SetToSeqs(free) :
           breq' = [breq EXCEPT ![Registrar] = [q EXCEPT !.order = Append(q.order, n), !.degree = degree, !.queue = Tail(q.queue) \o more]]
  <2>1. OrderNext(Registrar)
    BY <1>2
  <2> QED
    BY <2>1, Zenon DEF OrderNext
<1>4. n = Head(q.queue)
  OBVIOUS
<1>5. degree = NextDegree(deps, q.degree, n)
  BY DEF NextDegree
<1>6. free = NextFree(deps, q.degree, n)
  BY <1>5 DEF NextFree
<1>7. q = breq[Registrar]
  OBVIOUS
<1> HIDE DEF q, n, degree, free
<1>16. PICK more \in SetToSeqs(free) :
           breq' = [breq EXCEPT ![Registrar] = [q EXCEPT !.order = Append(q.order, n), !.degree = degree, !.queue = Tail(q.queue) \o more]]
  BY <1>3
<1>17. PICK r : r = [q EXCEPT !.order = Append(q.order, n), !.degree = degree, !.queue = Tail(q.queue) \o more]
  OBVIOUS
<1>8. Sorting(deps, q.order, q.queue, q.degree) /\ q.order \in Seq(Services) /\ q.queue \in Seq(Services)
      /\ q.queue # <<>> /\ q.pc = "order" /\ q.op = "register" /\ q \in BottleCalls
  BY <1>1, <1>2, <1>7, CallIs DEF RegInv
<1>9. Sorting(deps, Append(q.order, n), Tail(q.queue) \o more, degree)
      /\ Append(q.order, n) \in Seq(Services) /\ Tail(q.queue) \o more \in Seq(Services)
  BY <1>4, <1>5, <1>6, <1>8, <1>16, SortingGoesOn
<1>10. degree \in [Services -> Int]
  BY <1>9 DEF Sorting
<1>11. PICK o2, q2 : o2 = Append(q.order, n) /\ q2 = Tail(q.queue) \o more
  OBVIOUS
<1>12. /\ r \in BottleCalls /\ r.op = q.op /\ r.pc = "order" /\ r.pols = q.pols /\ r.made = q.made /\ r.hurt = q.hurt
       /\ r.order = o2 /\ r.queue = q2 /\ r.degree = degree
  <2>1. r = [q EXCEPT !.order = o2, !.degree = degree, !.queue = q2]
    BY <1>17, <1>11
  <2>2. o2 \in Seq(Services) /\ q2 \in Seq(Services)
    BY <1>9, <1>11
  <2> QED
    BY <1>8, <1>10, <2>1, <2>2 DEF BottleCalls
<1>13. Sorting(deps, o2, q2, degree)
  BY <1>9, <1>11
<1>14. ASSUME breq'[Registrar] = r PROVE RegInv' /\ EntryOK(bottle)'
  BY <1>1, <1>2, <1>7, <1>8, <1>12, <1>13, <1>14
     DEF RegInv, EntryOK, RegisterPcs, EarlyPcs, StoredPcs, UndonePcs, MakingPcs, Registered
<1>15. breq' = [breq EXCEPT ![Registrar] = r]
  BY <1>16, <1>17
<1> QED
  BY <1>1, <1>2, <1>12, <1>14, <1>15, RegistrarAlone DEF BottleTyped

\* What every step of the registration begins with.
LEMMA Registering ==
    ASSUME BottleAssumption, BottleInv, NEW u \in BottleUsers, breq[u].pc \in RegisterPcs \ ActionPcs
    PROVE  /\ u = Registrar /\ ~Registered /\ breq[Registrar] \in BottleCalls /\ breq[Registrar].op = "register"
           /\ breq[Registrar].order \in Seq(Services) /\ breq[Registrar].made \in Seq(Services)
           /\ breq[Registrar].left \in Seq(Services) /\ breq[Registrar].pols \in SUBSET {"p"} /\ breq[Registrar].hurt \in BOOLEAN
           /\ BottleTyped /\ RegInv /\ EntryOK(bottle)
           /\ bottle \in BottleEntries /\ boxes \in [Services -> BoxStates] /\ bridge \in BOOLEAN /\ policies \in SUBSET {"p"}
  BY OnlyRegistrar, CallIs DEF BottleInv, BottleTyped

\* OrderEnd keeps BottleInv.
LEMMA OrderEndKeeps == ASSUME BottleAssumption, BottleInv, NEW u \in BottleUsers, OrderEnd(u) PROVE BottleInv'
<1>1. breq[u].pc = "order" /\ breq[u].queue = <<>> /\ UNCHANGED <<deps, wants, bottle, boxes, bridge, policies, ran>>
  BY DEF OrderEnd, Given
<1>2. breq[u].pc \in RegisterPcs \ ActionPcs
  BY <1>1 DEF RegisterPcs, ActionPcs
<1>3. Calm
  BY <1>1 DEF Calm
<1>4. Sorting(deps, breq[Registrar].order, <<>>, breq[Registrar].degree)
  BY <1>1, <1>2, Registering DEF RegInv
<1>5. /\ Len(breq[Registrar].order) = Cardinality(Services) => Sorted(deps, breq[Registrar].order)
      /\ Len(breq[Registrar].order) # Cardinality(Services) => Waiting(deps)
  BY <1>2, <1>4, Registering, SortingEnds
<1>6. ~bottle.there /\ BoxesIn(boxes, {}) /\ ~bridge /\ policies = {}
      /\ breq[Registrar].pols = {} /\ breq[Registrar].made = <<>> /\ ~breq[Registrar].hurt
  BY <1>1, <1>2, Registering DEF RegInv, EarlyPcs
<1>7. PICK pc : pc = IF Len(breq[Registrar].order) # Cardinality(Services) \/ bottle.there THEN "refused"
                     ELSE IF wants.policy THEN "policy" ELSE "store"
  OBVIOUS
<1>8. PICK r : r = [breq[Registrar] EXCEPT !.pc = pc]
  OBVIOUS
<1>9. /\ r \in BottleCalls /\ r.op = "register" /\ r.pc = pc /\ r.pols = {} /\ r.made = <<>> /\ ~r.hurt
      /\ r.order = breq[Registrar].order
  BY <1>2, <1>6, <1>7, <1>8, Registering DEF BottleCalls, RegisterPcs
<1>10. ASSUME breq'[Registrar] = r PROVE RegInv' /\ EntryOK(bottle)'
  BY <1>1, <1>5, <1>6, <1>7, <1>9, <1>10 DEF RegInv, EntryOK, RegisterPcs, EarlyPcs, StoredPcs, UndonePcs, MakingPcs
<1>11. breq' = [breq EXCEPT ![Registrar] = r]
  BY <1>2, <1>7, <1>8, Registering DEF OrderEnd, Go
<1> QED
  BY <1>1, <1>2, <1>3, <1>9, <1>10, <1>11, Registering, RegistrarAlone

\* ApplyPolicies keeps BottleInv.
LEMMA ApplyPoliciesKeeps == ASSUME BottleAssumption, BottleInv, NEW u \in BottleUsers, ApplyPolicies(u) PROVE BottleInv'
<1>1. breq[u].pc = "policy" /\ UNCHANGED <<deps, wants, bottle, boxes, bridge, ran>>
  BY DEF ApplyPolicies, Given
<1>2. breq[u].pc \in RegisterPcs \ ActionPcs
  BY <1>1 DEF RegisterPcs, ActionPcs
<1>3. Calm
  BY <1>1 DEF Calm
<1>4. PICK failing \in BOOLEAN :
         /\ policies' = IF failing THEN {} ELSE {"p"}
         /\ breq' = [breq EXCEPT ![u] = [breq[u] EXCEPT !.pc = IF failing THEN "rb_policies" ELSE "commit", !.pols = policies']]
  BY Zenon DEF ApplyPolicies
<1>5. PICK r : r = [breq[Registrar] EXCEPT !.pc = IF failing THEN "rb_policies" ELSE "commit", !.pols = policies']
  OBVIOUS
<1>6. /\ ~bottle.there /\ BoxesIn(boxes, {}) /\ ~bridge /\ breq[Registrar].made = <<>> /\ ~breq[Registrar].hurt
      /\ Sorted(deps, breq[Registrar].order)
  BY <1>1, <1>2, Registering DEF RegInv, EarlyPcs, RegisterPcs
<1>7. policies' \in SUBSET {"p"}
  BY <1>4
<1>8. /\ r \in BottleCalls /\ r.op = "register" /\ r.pc \in {"rb_policies", "commit"} /\ r.pols = policies'
      /\ r.made = <<>> /\ ~r.hurt /\ r.order = breq[Registrar].order /\ (r.pc = "rb_policies" => policies' = {})
  BY <1>2, <1>4, <1>5, <1>6, <1>7, Registering DEF BottleCalls, RegisterPcs
<1>9. ASSUME breq'[Registrar] = r PROVE RegInv' /\ EntryOK(bottle)'
  BY <1>1, <1>6, <1>8, <1>9 DEF RegInv, EntryOK, RegisterPcs, EarlyPcs, StoredPcs, UndonePcs, MakingPcs
<1>10. breq' = [breq EXCEPT ![Registrar] = r]
  BY <1>2, <1>4, <1>5, Registering
<1> QED
  BY <1>1, <1>2, <1>3, <1>7, <1>8, <1>9, <1>10, Registering, RegistrarAlone

\* CommitPolicies keeps BottleInv.
LEMMA CommitPoliciesKeeps == ASSUME BottleAssumption, BottleInv, NEW u \in BottleUsers, CommitPolicies(u) PROVE BottleInv'
<1>1. breq[u].pc = "commit" /\ UNCHANGED <<deps, wants, bottle, boxes, bridge, policies, ran>>
  BY DEF CommitPolicies, Given
<1>2. breq[u].pc \in RegisterPcs \ ActionPcs
  BY <1>1 DEF RegisterPcs, ActionPcs
<1>3. Calm
  BY <1>1 DEF Calm
<1>4. PICK pc \in {"uncommitted", "store"} : Go(u, pc)
  BY Zenon DEF CommitPolicies
<1>5. PICK r : r = [breq[Registrar] EXCEPT !.pc = pc]
  OBVIOUS
<1>6. /\ ~bottle.there /\ BoxesIn(boxes, {}) /\ ~bridge /\ breq[Registrar].made = <<>> /\ ~breq[Registrar].hurt
      /\ Sorted(deps, breq[Registrar].order) /\ policies \subseteq breq[Registrar].pols
  BY <1>1, <1>2, Registering DEF RegInv, RegisterPcs
<1>8. /\ r \in BottleCalls /\ r.op = "register" /\ r.pols = breq[Registrar].pols /\ r.made = <<>>
      /\ r.order = breq[Registrar].order /\ ~r.hurt /\ r.pc = pc
  BY <1>2, <1>4, <1>5, <1>6, Registering DEF BottleCalls, RegisterPcs
<1>9. ASSUME breq'[Registrar] = r PROVE RegInv' /\ EntryOK(bottle)'
  BY <1>1, <1>6, <1>8, <1>9 DEF RegInv, EntryOK, RegisterPcs, EarlyPcs, StoredPcs, UndonePcs, MakingPcs
<1>10. breq' = [breq EXCEPT ![Registrar] = r]
  BY <1>2, <1>4, <1>5, Registering DEF Go
<1> QED
  BY <1>1, <1>2, <1>3, <1>8, <1>9, <1>10, Registering, RegistrarAlone

\* StoreBottle keeps BottleInv.
LEMMA StoreBottleKeeps == ASSUME BottleAssumption, BottleInv, NEW u \in BottleUsers, StoreBottle(u) PROVE BottleInv'
<1>1. breq[u].pc = "store" /\ UNCHANGED <<deps, wants, boxes, bridge, policies, ran>>
  BY DEF StoreBottle, Given
<1>2. breq[u].pc \in RegisterPcs \ ActionPcs
  BY <1>1 DEF RegisterPcs, ActionPcs
<1>3. Calm
  BY <1>1 DEF Calm
<1>4. PICK failing \in BOOLEAN :
         /\ bottle' = IF failing THEN bottle ELSE [NoBottle EXCEPT !.order = breq[u].order, !.pols = breq[u].pols, !.there = TRUE]
         /\ breq' = [breq EXCEPT ![u].pc = IF failing THEN "rb_policies" ELSE IF wants.network THEN "network" ELSE "create"]
  BY Zenon DEF StoreBottle, Go
<1>5. PICK pc : pc = IF failing THEN "rb_policies" ELSE IF wants.network THEN "network" ELSE "create"
  OBVIOUS
<1>6. PICK r : r = [breq[Registrar] EXCEPT !.pc = pc]
  OBVIOUS
<1>7. /\ ~bottle.there /\ BoxesIn(boxes, {}) /\ ~bridge /\ breq[Registrar].made = <<>> /\ ~breq[Registrar].hurt
      /\ Sorted(deps, breq[Registrar].order) /\ policies \subseteq breq[Registrar].pols
  BY <1>1, <1>2, Registering DEF RegInv, RegisterPcs
<1>8. /\ r \in BottleCalls /\ r.op = "register" /\ r.pols = breq[Registrar].pols /\ r.made = <<>>
      /\ r.order = breq[Registrar].order /\ r.pc = pc /\ ~r.hurt
  BY <1>2, <1>5, <1>6, <1>7, Registering DEF BottleCalls, RegisterPcs
<1>9. breq' = [breq EXCEPT ![Registrar] = r]
  BY <1>2, <1>4, <1>5, <1>6, Registering
<1>10. Len(<<>>) = 0 /\ DOMAIN <<>> = {} /\ Range(<<>>) = {} /\ Len(breq[Registrar].order) \in Nat
       /\ Len(breq[Registrar].order) # 0
  BY <1>2, <1>7, Registering, Sortedness DEF Range
<1>11. CASE failing
  <2>1. bottle' = bottle /\ pc = "rb_policies"
    BY <1>4, <1>5, <1>11
  <2>2. ASSUME breq'[Registrar] = r PROVE RegInv' /\ EntryOK(bottle)'
    BY <1>1, <1>7, <1>8, <2>1, <2>2 DEF RegInv, EntryOK, RegisterPcs, EarlyPcs, StoredPcs, UndonePcs, MakingPcs
  <2> QED
    BY <1>1, <1>2, <1>3, <1>8, <1>9, <2>1, <2>2, Registering, RegistrarAlone
<1>12. CASE ~failing
  <2>1. bottle' = [NoBottle EXCEPT !.order = breq[Registrar].order, !.pols = breq[Registrar].pols, !.there = TRUE]
    BY <1>2, <1>4, <1>12, Registering
  <2>2. /\ bottle' \in BottleEntries /\ bottle'.order = r.order /\ bottle'.pols = r.pols /\ bottle'.there
        /\ bottle'.has = {} /\ ~bottle'.net
    BY <1>2, <1>8, <2>1, NoneIs, Registering DEF BottleEntries
  <2>3. pc \in {"network", "create"}
    BY <1>5, <1>12
  <2>4. ~Complete(bottle')
    BY <2>2 DEF Complete
  <2>5. MadeSoFar(<<>>, r.order)
    BY <1>8, <1>10 DEF MadeSoFar
  <2>6. ASSUME breq'[Registrar] = r PROVE RegInv' /\ EntryOK(bottle)'
    <3>1. RegInv'
      <4>1. Len(r.made) < Len(r.order) /\ Range(r.made) = {} /\ MadeSoFar(r.made, r.order)
        BY <1>8, <1>10, <2>5
      <4>2. CASE pc = "network"
        BY <1>1, <1>5, <1>7, <1>8, <1>12, <2>2, <2>4, <2>6, <4>1, <4>2
           DEF RegInv, RegisterPcs, EarlyPcs, StoredPcs, UndonePcs, MakingPcs
      <4>3. CASE pc = "create"
        BY <1>1, <1>7, <1>8, <2>2, <2>4, <2>6, <4>1, <4>3
           DEF RegInv, RegisterPcs, EarlyPcs, StoredPcs, UndonePcs, MakingPcs
      <4> QED
        BY <2>3, <4>2, <4>3
    <3>2. EntryOK(bottle)'
      BY <1>1, <1>7, <1>8, <2>2, <2>4 DEF EntryOK
    <3> QED
      BY <3>1, <3>2
  <2> QED
    BY <1>1, <1>2, <1>3, <1>8, <1>9, <2>2, <2>6, Registering, RegistrarAlone
<1> QED
  BY <1>11, <1>12

-----------------------------------------------------------------------------
(***************************************************************************)
(* The network and the containers                                          *)
(***************************************************************************)

\* The containers made so far are the first ones of the start order.
LEMMA MadeMore ==
    ASSUME NEW made \in Seq(Services), NEW order \in Seq(Services), Distinct(order), MadeSoFar(made, order),
           Len(made) < Len(order), NEW s, s = order[Len(made) + 1]
    PROVE  s \in Services /\ s \notin Range(made) /\ MadeSoFar(Append(made, s), order)
<1>1. Len(made) \in Nat /\ Len(order) \in Nat /\ DOMAIN made = 1 .. Len(made) /\ DOMAIN order = 1 .. Len(order)
      /\ \A i \in 1 .. Len(order) : order[i] \in Services
  BY LenProperties
<1>2. Len(made) + 1 \in 1 .. Len(order)
  BY <1>1
<1>3. s \in Services
  BY <1>1, <1>2
<1>4. \A i \in 1 .. Len(made) : made[i] = order[i] /\ i \in 1 .. Len(order)
  BY <1>1 DEF MadeSoFar
<1>5. s \notin Range(made)
  <2>1. SUFFICES ASSUME s \in Range(made) PROVE FALSE
    OBVIOUS
  <2>2. PICK i \in 1 .. Len(made) : made[i] = s
    BY <2>1, SeqIs
  <2>3. i \in DOMAIN order /\ Len(made) + 1 \in DOMAIN order /\ order[i] = order[Len(made) + 1]
    BY <1>1, <1>2, <1>4, <2>2
  <2>4. i = Len(made) + 1
    BY <2>3 DEF Distinct
  <2> QED
    BY <1>1, <2>2, <2>4
<1>6. MadeSoFar(Append(made, s), order)
  <2>1. Len(Append(made, s)) = Len(made) + 1 /\ DOMAIN Append(made, s) = 1 .. (Len(made) + 1)
        /\ (\A i \in 1 .. Len(made) : Append(made, s)[i] = made[i]) /\ Append(made, s)[Len(made) + 1] = s
    BY <1>1, <1>3, AppendProperties, LenProperties
  <2>2. ASSUME NEW i \in 1 .. (Len(made) + 1) PROVE Append(made, s)[i] = order[i]
    <3>1. i = Len(made) + 1 \/ i \in 1 .. Len(made)
      BY <1>1
    <3> QED
      BY <1>4, <2>1, <3>1
  <2>3. Len(made) + 1 <= Len(order)
    BY <1>1
  <2> QED
    BY <2>1, <2>2, <2>3 DEF MadeSoFar
<1> QED
  BY <1>3, <1>5, <1>6

\* While not everything is made, the last in the order is not.
LEMMA MadeLess ==
    ASSUME BottleAssumption, NEW d, NEW made \in Seq(Services), NEW order \in Seq(Services), Sorted(d, order),
           MadeSoFar(made, order), made # order
    PROVE  Len(made) < Len(order) /\ Last(order) \notin Range(made)
<1>1. Len(made) \in Nat /\ Len(order) \in Nat /\ DOMAIN made = 1 .. Len(made) /\ DOMAIN order = 1 .. Len(order)
      /\ Len(order) # 0
  BY LenProperties, Sortedness
<1>2. Len(made) <= Len(order) /\ \A i \in 1 .. Len(made) : made[i] = order[i]
  BY <1>1 DEF MadeSoFar
<1>3. Len(made) # Len(order)
  BY <1>2, SeqEqual
<1>4. Len(made) < Len(order)
  <2>1. \A a, b \in Nat : a <= b /\ a # b => a < b
    OBVIOUS
  <2>2. Len(made) \in Nat /\ Len(order) \in Nat /\ Len(made) <= Len(order)
    BY <1>1, <1>2
  <2> QED
    BY <1>3, <2>1, <2>2
<1>5. SUFFICES ASSUME Last(order) \in Range(made) PROVE FALSE
  BY <1>4
<1>6. PICK i \in 1 .. Len(made) : made[i] = Last(order)
  BY <1>5, SeqIs
<1>7. i \in DOMAIN order /\ Len(order) \in DOMAIN order /\ order[i] = order[Len(order)]
  BY <1>1, <1>2, <1>4, <1>6 DEF Last
<1>8. i = Len(order)
  BY <1>7 DEF Sorted, Distinct
<1> QED
  BY <1>1, <1>4, <1>6, <1>8

\* CreateNetwork keeps BottleInv.
LEMMA CreateNetworkKeeps == ASSUME BottleAssumption, BottleInv, NEW u \in BottleUsers, CreateNetwork(u) PROVE BottleInv'
<1>1. breq[u].pc = "network" /\ UNCHANGED <<deps, wants, bottle, boxes, policies, ran>>
  BY DEF CreateNetwork, Given
<1>2. breq[u].pc \in RegisterPcs \ ActionPcs
  BY <1>1 DEF RegisterPcs, ActionPcs
<1>3. Calm
  BY <1>1 DEF Calm
<1>4. PICK failing \in BOOLEAN :
         /\ bridge' = ~failing
         /\ breq' = [breq EXCEPT ![u].pc = IF failing THEN "rb_bottle" ELSE "netentry"]
  BY Zenon DEF CreateNetwork, Go
<1>5. PICK pc : pc = IF failing THEN "rb_bottle" ELSE "netentry"
  OBVIOUS
<1>6. PICK r : r = [breq[Registrar] EXCEPT !.pc = pc]
  OBVIOUS
<1>7. /\ bottle.there /\ BoxesIn(boxes, {}) /\ breq[Registrar].made = <<>> /\ ~breq[Registrar].hurt /\ wants.network
      /\ Sorted(deps, breq[Registrar].order) /\ policies \subseteq breq[Registrar].pols
      /\ bottle.order = breq[Registrar].order /\ bottle.pols = breq[Registrar].pols /\ ~Complete(bottle)
      /\ bottle.has \subseteq Range(breq[Registrar].made)
  BY <1>1, <1>2, Registering DEF RegInv, RegisterPcs, StoredPcs
<1>8. /\ r \in BottleCalls /\ r.op = "register" /\ r.pols = breq[Registrar].pols /\ r.made = <<>>
      /\ r.order = breq[Registrar].order /\ r.pc = pc /\ ~r.hurt
  BY <1>2, <1>5, <1>6, <1>7, Registering DEF BottleCalls, RegisterPcs
<1>9. breq' = [breq EXCEPT ![Registrar] = r]
  BY <1>2, <1>4, <1>5, <1>6, Registering
<1>10. bridge' \in BOOLEAN /\ ((pc = "rb_bottle" /\ ~bridge') \/ pc = "netentry")
  BY <1>4, <1>5
<1>11. ASSUME breq'[Registrar] = r PROVE RegInv' /\ EntryOK(bottle)'
  <2>1. RegInv'
    BY <1>1, <1>7, <1>8, <1>10, <1>11 DEF RegInv, RegisterPcs, EarlyPcs, StoredPcs, UndonePcs, MakingPcs
  <2>2. EntryOK(bottle)'
    BY <1>1, <1>7 DEF EntryOK
  <2> QED
    BY <2>1, <2>2
<1> QED
  BY <1>1, <1>2, <1>3, <1>8, <1>9, <1>10, <1>11, Registering, RegistrarAlone

\* RecordNetwork keeps BottleInv.
LEMMA RecordNetworkKeeps == ASSUME BottleAssumption, BottleInv, NEW u \in BottleUsers, RecordNetwork(u) PROVE BottleInv'
<1>1. breq[u].pc = "netentry" /\ UNCHANGED <<deps, wants, boxes, bridge, policies, ran>>
  BY DEF RecordNetwork, Given
<1>2. breq[u].pc \in RegisterPcs \ ActionPcs
  BY <1>1 DEF RegisterPcs, ActionPcs
<1>3. Calm
  BY <1>1 DEF Calm
<1>4. PICK ok \in BOOLEAN :
         /\ bottle' = IF ok THEN [bottle EXCEPT !.net = TRUE] ELSE bottle
         /\ breq' = [breq EXCEPT ![u].pc = IF ok THEN "create" ELSE "rb_network"]
  <2>1. PICK failing \in BOOLEAN :
           /\ bottle' = IF (~failing /\ bottle.there) THEN [bottle EXCEPT !.net = TRUE] ELSE bottle
           /\ breq' = [breq EXCEPT ![u].pc = IF (~failing /\ bottle.there) THEN "create" ELSE "rb_network"]
    BY Zenon DEF RecordNetwork, Go
  <2>2. (~failing /\ bottle.there) \in BOOLEAN
    OBVIOUS
  <2> QED
    BY <2>1, <2>2
<1>5. PICK pc : pc = IF ok THEN "create" ELSE "rb_network"
  OBVIOUS
<1>6. PICK r : r = [breq[Registrar] EXCEPT !.pc = pc]
  OBVIOUS
<1>7. /\ bottle.there /\ BoxesIn(boxes, {}) /\ breq[Registrar].made = <<>> /\ ~breq[Registrar].hurt /\ wants.network
      /\ Sorted(deps, breq[Registrar].order) /\ policies \subseteq breq[Registrar].pols
      /\ bottle.order = breq[Registrar].order /\ bottle.pols = breq[Registrar].pols /\ ~Complete(bottle)
      /\ bottle.has \subseteq Range(breq[Registrar].made)
  BY <1>1, <1>2, Registering DEF RegInv, RegisterPcs, StoredPcs
<1>8. /\ r \in BottleCalls /\ r.op = "register" /\ r.pols = breq[Registrar].pols /\ r.made = <<>>
      /\ r.order = breq[Registrar].order /\ r.pc = pc /\ ~r.hurt
  BY <1>2, <1>5, <1>6, <1>7, Registering DEF BottleCalls, RegisterPcs
<1>9. breq' = [breq EXCEPT ![Registrar] = r]
  BY <1>2, <1>4, <1>5, <1>6, Registering
<1>10. /\ bottle' \in BottleEntries /\ bottle'.there /\ bottle'.order = bottle.order /\ bottle'.pols = bottle.pols
       /\ bottle'.has = bottle.has /\ (pc = "create" => bottle'.net) /\ pc \in {"create", "rb_network"}
  <2>1. CASE ok
    <3>1. bottle' = [bottle EXCEPT !.net = TRUE] /\ pc = "create"
      BY <1>4, <1>5, <2>1
    <3> QED
      BY <1>2, <1>7, <3>1, Registering DEF BottleEntries
  <2>2. CASE ~ok
    <3>1. bottle' = bottle /\ pc = "rb_network"
      BY <1>4, <1>5, <2>2
    <3> QED
      BY <1>2, <1>7, <3>1, Registering
  <2> QED
    BY <2>1, <2>2
<1>11. ~Complete(bottle')
  BY <1>7, <1>10 DEF Complete
<1>12. Len(<<>>) = 0 /\ DOMAIN <<>> = {} /\ Range(<<>>) = {} /\ Len(breq[Registrar].order) \in Nat
       /\ Len(breq[Registrar].order) # 0
  BY <1>2, <1>7, Registering, Sortedness DEF Range
<1>13. Len(r.made) < Len(r.order) /\ Range(r.made) = {} /\ MadeSoFar(r.made, r.order)
  BY <1>8, <1>12 DEF MadeSoFar
<1>14. ASSUME breq'[Registrar] = r PROVE RegInv' /\ EntryOK(bottle)'
  <2>1. RegInv'
    <3>1. CASE pc = "create"
      BY <1>1, <1>7, <1>8, <1>10, <1>11, <1>13, <1>14, <3>1 DEF RegInv, RegisterPcs, EarlyPcs, StoredPcs, UndonePcs, MakingPcs
    <3>2. CASE pc = "rb_network"
      BY <1>1, <1>7, <1>8, <1>10, <1>11, <1>13, <1>14, <3>2 DEF RegInv, RegisterPcs, EarlyPcs, StoredPcs, UndonePcs, MakingPcs
    <3> QED
      BY <1>10, <3>1, <3>2
  <2>2. EntryOK(bottle)'
    BY <1>1, <1>7, <1>10, <1>11 DEF EntryOK
  <2> QED
    BY <2>1, <2>2
<1> QED
  BY <1>1, <1>2, <1>3, <1>8, <1>9, <1>10, <1>14, Registering, RegistrarAlone

\* CreateContainer keeps BottleInv.
LEMMA CreateContainerKeeps == ASSUME BottleAssumption, BottleInv, NEW u \in BottleUsers, CreateContainer(u) PROVE BottleInv'
<1>1. breq[u].pc = "create" /\ UNCHANGED <<deps, wants, bottle, bridge, policies, ran>>
  BY DEF CreateContainer, Given
<1>2. breq[u].pc \in RegisterPcs \ ActionPcs
  BY <1>1 DEF RegisterPcs, ActionPcs
<1>3. PICK q : q = breq[Registrar]
  OBVIOUS
<1>4. PICK s : s = q.order[Len(q.made) + 1]
  OBVIOUS
<1>5. PICK failing \in BOOLEAN :
         /\ boxes' = IF failing THEN boxes ELSE [boxes EXCEPT ![s] = "created"]
         /\ breq' = [breq EXCEPT ![Registrar] = IF failing THEN [q EXCEPT !.pc = "rb_delete", !.left = q.made]
                                               ELSE [q EXCEPT !.pc = "entry", !.made = Append(q.made, s)]]
  <2>1. PICK failing \in BOOLEAN :
           /\ boxes' = IF failing THEN boxes ELSE [boxes EXCEPT ![breq[u].order[Len(breq[u].made) + 1]] = "created"]
           /\ breq' = [breq EXCEPT ![u] = IF failing THEN [breq[u] EXCEPT !.pc = "rb_delete", !.left = breq[u].made]
                          ELSE [breq[u] EXCEPT !.pc = "entry",
                                               !.made = Append(breq[u].made, breq[u].order[Len(breq[u].made) + 1])]]
    BY Zenon DEF CreateContainer
  <2> QED
    BY <1>2, <1>3, <1>4, <2>1, Registering
<1>6. PICK r : r = IF failing THEN [q EXCEPT !.pc = "rb_delete", !.left = q.made]
                   ELSE [q EXCEPT !.pc = "entry", !.made = Append(q.made, s)]
  OBVIOUS
<1>7. /\ q \in BottleCalls /\ q.order \in Seq(Services) /\ q.made \in Seq(Services) /\ q.op = "register" /\ q.pc = "create"
      /\ bottle \in BottleEntries /\ boxes \in [Services -> BoxStates] /\ bridge \in BOOLEAN /\ policies \in SUBSET {"p"}
      /\ ~Registered /\ EntryOK(bottle) /\ BottleTyped
  BY <1>1, <1>2, <1>3, Registering
<1>8. /\ bottle.there /\ ~q.hurt /\ Sorted(deps, q.order) /\ policies \subseteq q.pols
      /\ bottle.order = q.order /\ bottle.pols = q.pols /\ ~Complete(bottle) /\ bottle.has \subseteq Range(q.made)
      /\ (bridge => bottle.net /\ wants.network) /\ MadeSoFar(q.made, q.order) /\ BoxesIn(boxes, Range(q.made))
      /\ Len(q.made) < Len(q.order)
  BY <1>1, <1>2, <1>3, Registering DEF RegInv, RegisterPcs, StoredPcs, MakingPcs
<1>9. breq' = [breq EXCEPT ![Registrar] = r]
  BY <1>5, <1>6
<1>10. s \in Services /\ s \notin Range(q.made) /\ MadeSoFar(Append(q.made, s), q.order)
  BY <1>4, <1>7, <1>8, MadeMore DEF Sorted
<1>11. CASE failing
  <2>1. boxes' = boxes /\ r = [q EXCEPT !.pc = "rb_delete", !.left = q.made]
    BY <1>5, <1>6, <1>11
  <2>2. /\ r \in BottleCalls /\ r.op = "register" /\ r.pc = "rb_delete" /\ r.order = q.order /\ r.pols = q.pols
        /\ ~r.hurt /\ r.made = q.made /\ r.left = q.made
    BY <1>7, <1>8, <2>1 DEF BottleCalls, RegisterPcs
  <2>3. ASSUME breq'[Registrar] = r PROVE RegInv' /\ EntryOK(bottle)'
    <3>1. RegInv'
      BY <1>1, <1>8, <2>1, <2>2, <2>3 DEF RegInv, RegisterPcs, EarlyPcs, StoredPcs, UndonePcs, MakingPcs
    <3> QED
      BY <1>1, <1>8, <3>1 DEF EntryOK
  <2>4. Calm
    BY <2>1 DEF Calm
  <2> QED
    BY <1>1, <1>7, <1>9, <2>1, <2>2, <2>3, <2>4, RegistrarAlone
<1>12. CASE ~failing
  <2>1. boxes' = [boxes EXCEPT ![s] = "created"] /\ r = [q EXCEPT !.pc = "entry", !.made = Append(q.made, s)]
    BY <1>5, <1>6, <1>12
  <2>2. PICK made : made = Append(q.made, s)
    OBVIOUS
  <2>3. made \in Seq(Services) /\ made # <<>> /\ Last(made) = s /\ Range(made) = Range(q.made) \cup {s} /\ MadeSoFar(made, q.order)
    BY <1>7, <1>10, <2>2, AppendRange
  <2>4. /\ r \in BottleCalls /\ r.op = "register" /\ r.pc = "entry" /\ r.order = q.order /\ r.pols = q.pols
        /\ ~r.hurt /\ r.made = made
    BY <1>7, <1>8, <2>1, <2>2, <2>3 DEF BottleCalls, RegisterPcs
  <2>5. boxes' \in [Services -> BoxStates] /\ BoxesIn(boxes', Range(made)) /\ Calm
    BY <1>7, <1>8, <1>10, <2>1, <2>3 DEF BoxesIn, BoxStates, Calm
  <2>6. Last(made) \notin bottle.has /\ bottle.has \subseteq Range(made)
    BY <1>8, <1>10, <2>3
  <2>7. ASSUME breq'[Registrar] = r PROVE RegInv' /\ EntryOK(bottle)'
    <3>1. RegInv'
      BY <1>1, <1>8, <2>3, <2>4, <2>5, <2>6, <2>7 DEF RegInv, RegisterPcs, EarlyPcs, StoredPcs, UndonePcs, MakingPcs
    <3> QED
      BY <1>1, <1>8, <3>1 DEF EntryOK
  <2> QED
    BY <1>1, <1>7, <1>9, <2>4, <2>5, <2>7, RegistrarAlone
<1> QED
  BY <1>11, <1>12

\* RecordContainer keeps BottleInv.
LEMMA RecordContainerKeeps == ASSUME BottleAssumption, BottleInv, NEW u \in BottleUsers, RecordContainer(u) PROVE BottleInv'
<1>1. breq[u].pc = "entry" /\ UNCHANGED <<deps, wants, boxes, bridge, policies, ran>>
  BY DEF RecordContainer, Given
<1>2. breq[u].pc \in RegisterPcs \ ActionPcs
  BY <1>1 DEF RegisterPcs, ActionPcs
<1>3. PICK q : q = breq[Registrar]
  OBVIOUS
<1>4. Calm
  BY <1>1 DEF Calm
<1>5. PICK ok \in BOOLEAN :
         /\ bottle' = IF ok THEN [bottle EXCEPT !.has = bottle.has \cup {Last(q.made)}] ELSE bottle
         /\ breq' = [breq EXCEPT ![Registrar] = IF ~ok THEN [q EXCEPT !.pc = "rb_delete", !.left = q.made]
                                               ELSE [q EXCEPT !.pc = IF q.made = q.order THEN "ok" ELSE "create"]]
  <2>1. PICK failing \in BOOLEAN :
           /\ bottle' = IF (~failing /\ bottle.there) THEN [bottle EXCEPT !.has = bottle.has \cup {Last(breq[u].made)}] ELSE bottle
           /\ breq' = [breq EXCEPT ![u] = IF ~(~failing /\ bottle.there) THEN [breq[u] EXCEPT !.pc = "rb_delete", !.left = breq[u].made]
                          ELSE [breq[u] EXCEPT !.pc = IF breq[u].made = breq[u].order THEN "ok" ELSE "create"]]
    BY Zenon DEF RecordContainer
  <2>2. (~failing /\ bottle.there) \in BOOLEAN
    OBVIOUS
  <2>3. u = Registrar
    BY <1>2, Registering
  <2> QED
    BY <1>3, <2>1, <2>2, <2>3
<1>6. PICK r : r = IF ~ok THEN [q EXCEPT !.pc = "rb_delete", !.left = q.made]
                   ELSE [q EXCEPT !.pc = IF q.made = q.order THEN "ok" ELSE "create"]
  OBVIOUS
<1>7. /\ q \in BottleCalls /\ q.order \in Seq(Services) /\ q.made \in Seq(Services) /\ q.op = "register" /\ q.pc = "entry"
      /\ bottle \in BottleEntries /\ boxes \in [Services -> BoxStates] /\ bridge \in BOOLEAN /\ policies \in SUBSET {"p"}
      /\ ~Registered /\ EntryOK(bottle) /\ BottleTyped
  BY <1>1, <1>2, <1>3, Registering
<1>8. /\ bottle.there /\ ~q.hurt /\ Sorted(deps, q.order) /\ policies \subseteq q.pols
      /\ bottle.order = q.order /\ bottle.pols = q.pols /\ ~Complete(bottle) /\ bottle.has \subseteq Range(q.made)
      /\ (bridge => bottle.net /\ wants.network) /\ MadeSoFar(q.made, q.order) /\ BoxesIn(boxes, Range(q.made))
      /\ q.made # <<>>
  BY <1>1, <1>2, <1>3, Registering DEF RegInv, RegisterPcs, StoredPcs, MakingPcs
<1>9. breq' = [breq EXCEPT ![Registrar] = r]
  BY <1>5, <1>6
<1>10. CASE ~ok
  <2>1. bottle' = bottle /\ r = [q EXCEPT !.pc = "rb_delete", !.left = q.made]
    BY <1>5, <1>6, <1>10
  <2>2. /\ r \in BottleCalls /\ r.op = "register" /\ r.pc = "rb_delete" /\ r.order = q.order /\ r.pols = q.pols
        /\ ~r.hurt /\ r.made = q.made /\ r.left = q.made
    BY <1>7, <1>8, <2>1 DEF BottleCalls, RegisterPcs
  <2>3. ASSUME breq'[Registrar] = r PROVE RegInv' /\ EntryOK(bottle)'
    <3>1. RegInv'
      BY <1>1, <1>8, <2>1, <2>2, <2>3 DEF RegInv, RegisterPcs, EarlyPcs, StoredPcs, UndonePcs, MakingPcs
    <3> QED
      BY <1>1, <1>8, <2>1, <3>1 DEF EntryOK
  <2> QED
    BY <1>1, <1>4, <1>7, <1>9, <2>1, <2>2, <2>3, RegistrarAlone
<1>11. CASE ok
  <2>1. bottle' = [bottle EXCEPT !.has = bottle.has \cup {Last(q.made)}]
    BY <1>5, <1>11
  <2>2. Last(q.made) \in Services /\ Last(q.made) \in Range(q.made)
    BY <1>7, <1>8, FrontLastRange
  <2>3. /\ bottle' \in BottleEntries /\ bottle'.there /\ bottle'.order = q.order /\ bottle'.pols = q.pols
        /\ bottle'.has = bottle.has \cup {Last(q.made)} /\ bottle'.net = bottle.net /\ bottle'.has \subseteq Range(q.made)
    BY <1>7, <1>8, <2>1, <2>2 DEF BottleEntries
  <2>4. PICK pc : pc = IF q.made = q.order THEN "ok" ELSE "create"
    OBVIOUS
  <2>5. r = [q EXCEPT !.pc = pc]
    BY <1>6, <1>11, <2>4
  <2>6. /\ r \in BottleCalls /\ r.op = "register" /\ r.pc = pc /\ r.order = q.order /\ r.pols = q.pols
        /\ ~r.hurt /\ r.made = q.made
    BY <1>7, <1>8, <2>4, <2>5 DEF BottleCalls, RegisterPcs
  <2>7. CASE q.made = q.order
    <3>1. pc = "ok"
      BY <2>4, <2>7
    <3>2. ASSUME breq'[Registrar] = r PROVE RegInv' /\ EntryOK(bottle)'
      <4>1. RegInv'
        BY <1>1, <1>8, <2>6, <3>1, <3>2 DEF RegInv, RegisterPcs, EarlyPcs, StoredPcs, UndonePcs, MakingPcs
      <4>2. Registered'
        BY <2>6, <3>1, <3>2 DEF Registered
      <4> QED
        BY <1>1, <1>8, <2>3, <4>1, <4>2 DEF EntryOK
    <3> QED
      BY <1>1, <1>4, <1>7, <1>9, <2>3, <2>6, <3>2, RegistrarAlone
  <2>8. CASE q.made # q.order
    <3>1. pc = "create" /\ Len(q.made) < Len(q.order) /\ Last(q.order) \notin Range(q.made)
      BY <1>7, <1>8, <2>4, <2>8, MadeLess
    <3>2. ~Complete(bottle')
      BY <2>3, <3>1 DEF Complete
    <3>3. ASSUME breq'[Registrar] = r PROVE RegInv' /\ EntryOK(bottle)'
      <4>1. RegInv'
        BY <1>1, <1>8, <2>3, <2>6, <3>1, <3>2, <3>3 DEF RegInv, RegisterPcs, EarlyPcs, StoredPcs, UndonePcs, MakingPcs
      <4> QED
        BY <1>1, <1>8, <2>3, <3>2, <4>1 DEF EntryOK
    <3> QED
      BY <1>1, <1>4, <1>7, <1>9, <2>3, <2>6, <3>3, RegistrarAlone
  <2> QED
    BY <2>7, <2>8
<1> QED
  BY <1>10, <1>11

-----------------------------------------------------------------------------
(***************************************************************************)
(* The rollback                                                            *)
(***************************************************************************)

\* RollbackDelete keeps BottleInv.
LEMMA RollbackDeleteKeeps == ASSUME BottleAssumption, BottleInv, NEW u \in BottleUsers, RollbackDelete(u) PROVE BottleInv'
<1>1. breq[u].pc = "rb_delete" /\ breq[u].left # <<>> /\ UNCHANGED <<deps, wants, bottle, bridge, policies, ran>>
  BY DEF RollbackDelete, Given
<1>2. breq[u].pc \in RegisterPcs \ ActionPcs
  BY <1>1 DEF RegisterPcs, ActionPcs
<1>3. PICK q : q = breq[Registrar]
  OBVIOUS
<1>4. PICK s : s = Last(q.left)
  OBVIOUS
<1>5. PICK ok \in BOOLEAN :
         /\ boxes' = IF ok THEN [boxes EXCEPT ![s] = "none"] ELSE boxes
         /\ GoWith(Registrar, [q EXCEPT !.left = Front(q.left), !.hurt = q.hurt \/ ~ok])
  <2>1. PICK failing \in BOOLEAN :
         /\ boxes' = IF (~failing /\ boxes[Last(breq[u].left)] \in {"created", "stopped"})
                       THEN [boxes EXCEPT ![Last(breq[u].left)] = "none"] ELSE boxes
         /\ GoWith(u, [breq[u] EXCEPT !.left = Front(breq[u].left),
                         !.hurt = breq[u].hurt \/ ~(~failing /\ boxes[Last(breq[u].left)] \in {"created", "stopped"})])
    BY Zenon DEF RollbackDelete
  <2>2. (~failing /\ boxes[Last(breq[u].left)] \in {"created", "stopped"}) \in BOOLEAN
    OBVIOUS
  <2>3. u = Registrar
    BY <1>2, Registering
  <2> QED
    BY <1>3, <1>4, <2>1, <2>2, <2>3
<1>6. PICK left : left = Front(q.left)
  OBVIOUS
<1>7. PICK r : r = [q EXCEPT !.left = left, !.hurt = q.hurt \/ ~ok]
  OBVIOUS
<1>8. /\ q \in BottleCalls /\ q.left \in Seq(Services) /\ q.op = "register" /\ q.pc = "rb_delete" /\ q.left # <<>>
      /\ bottle \in BottleEntries /\ boxes \in [Services -> BoxStates] /\ bridge \in BOOLEAN /\ policies \in SUBSET {"p"}
      /\ ~Registered /\ EntryOK(bottle) /\ BottleTyped /\ q.hurt \in BOOLEAN
  BY <1>1, <1>2, <1>3, Registering
<1>9. /\ bottle.there /\ Sorted(deps, q.order) /\ policies \subseteq q.pols
      /\ bottle.order = q.order /\ bottle.pols = q.pols /\ ~Complete(bottle)
      /\ (bridge => wants.network) /\ (~q.hurt => BoxesIn(boxes, Range(q.left)))
  BY <1>1, <1>2, <1>3, Registering DEF RegInv, RegisterPcs, StoredPcs
<1>10. left \in Seq(Services) /\ s \in Services /\ Range(q.left) = Range(left) \cup {s}
  BY <1>4, <1>6, <1>8, FrontLastRange
<1>11. (q.hurt \/ ~ok) \in BOOLEAN
  BY <1>8
<1>12. /\ r \in BottleCalls /\ r.op = "register" /\ r.pc = "rb_delete" /\ r.order = q.order /\ r.pols = q.pols
       /\ r.left = left /\ (~r.hurt => ~q.hurt /\ ok)
  <2>1. PICK hurt \in BOOLEAN : hurt = (q.hurt \/ ~ok)
    BY <1>11
  <2>2. r = [q EXCEPT !.left = left, !.hurt = hurt]
    BY <1>7, <2>1
  <2>3. /\ r \in BottleCalls /\ r.op = "register" /\ r.pc = "rb_delete" /\ r.order = q.order /\ r.pols = q.pols
        /\ r.left = left /\ r.hurt = hurt
    BY <1>8, <1>10, <2>2 DEF BottleCalls
  <2> QED
    BY <2>1, <2>3
<1>13. boxes' \in [Services -> BoxStates] /\ Calm
  BY <1>5, <1>8, <1>10 DEF BoxStates, Calm
<1>14. ~r.hurt => BoxesIn(boxes', Range(left))
  BY <1>5, <1>8, <1>9, <1>10, <1>12 DEF BoxesIn
<1>15. breq' \in [BottleUsers -> BottleCalls] /\ breq'[Registrar] = r /\ \A v \in Actors : Follows(v)
  <2>1. GoWith(Registrar, r)
    BY <1>5, <1>6, <1>7
  <2> QED
    BY <1>8, <1>12, <2>1, MovedWith DEF Actors, BottleAssumption
<1>16. RegInv'
  BY <1>1, <1>9, <1>12, <1>14, <1>15 DEF RegInv, RegisterPcs, EarlyPcs, StoredPcs, UndonePcs, MakingPcs
<1>17. EntryOK(bottle)'
  BY <1>1, <1>9 DEF EntryOK
<1> QED
  BY <1>1, <1>8, <1>13, <1>15, <1>16, <1>17, RegistrarMoves

\* RollbackEntry keeps BottleInv.
LEMMA RollbackEntryKeeps == ASSUME BottleAssumption, BottleInv, NEW u \in BottleUsers, RollbackEntry(u) PROVE BottleInv'
<1>1. breq[u].pc = "rb_delete" /\ breq[u].left = <<>> /\ UNCHANGED <<deps, wants, boxes, bridge, policies, ran>>
  BY DEF RollbackEntry, Given
<1>2. breq[u].pc \in RegisterPcs \ ActionPcs
  BY <1>1 DEF RegisterPcs, ActionPcs
<1>3. PICK q : q = breq[Registrar]
  OBVIOUS
<1>4. Calm
  BY <1>1 DEF Calm
<1>5. PICK failing \in BOOLEAN :
         /\ bottle' = IF failing THEN bottle ELSE [bottle EXCEPT !.has = bottle.has \ ToSet(q.made)]
         /\ breq' = [breq EXCEPT ![Registrar].pc = IF wants.network THEN "rb_network" ELSE "rb_bottle"]
  <2>1. PICK failing \in BOOLEAN :
         /\ bottle' = IF failing THEN bottle ELSE [bottle EXCEPT !.has = bottle.has \ ToSet(breq[u].made)]
         /\ breq' = [breq EXCEPT ![u].pc = IF wants.network THEN "rb_network" ELSE "rb_bottle"]
    BY Zenon DEF RollbackEntry, Go
  <2>2. u = Registrar
    BY <1>2, Registering
  <2> QED
    BY <1>3, <2>1, <2>2
<1>6. PICK pc : pc = IF wants.network THEN "rb_network" ELSE "rb_bottle"
  OBVIOUS
<1>7. PICK r : r = [q EXCEPT !.pc = pc]
  OBVIOUS
<1>8. /\ q \in BottleCalls /\ q.left = <<>> /\ q.op = "register" /\ q.pc = "rb_delete"
      /\ bottle \in BottleEntries /\ boxes \in [Services -> BoxStates] /\ bridge \in BOOLEAN /\ policies \in SUBSET {"p"}
      /\ ~Registered /\ EntryOK(bottle) /\ BottleTyped
  BY <1>1, <1>2, <1>3, Registering
<1>9. /\ bottle.there /\ Sorted(deps, q.order) /\ policies \subseteq q.pols
      /\ bottle.order = q.order /\ bottle.pols = q.pols /\ ~Complete(bottle)
      /\ (bridge => wants.network) /\ (~q.hurt => BoxesIn(boxes, {}))
  <2>1. Range(<<>>) = {}
    BY DEF Range
  <2> QED
    BY <1>1, <1>2, <1>3, <2>1, Registering DEF RegInv, RegisterPcs, StoredPcs
<1>10. /\ r \in BottleCalls /\ r.op = "register" /\ r.pc = pc /\ r.order = q.order /\ r.pols = q.pols /\ r.hurt = q.hurt
  BY <1>6, <1>7, <1>8 DEF BottleCalls, RegisterPcs
<1>11. breq' = [breq EXCEPT ![Registrar] = r]
  BY <1>3, <1>5, <1>6, <1>7
<1>12. /\ bottle' \in BottleEntries /\ bottle'.there /\ bottle'.order = bottle.order /\ bottle'.pols = bottle.pols
       /\ bottle'.has \subseteq bottle.has
  <2>1. PICK has : has = bottle.has \ ToSet(q.made)
    OBVIOUS
  <2>2. bottle' = IF failing THEN bottle ELSE [bottle EXCEPT !.has = has]
    BY <1>5, <2>1
  <2>3. has \subseteq bottle.has /\ bottle.has \in SUBSET Services
    BY <1>8, <2>1, EntryIs
  <2> QED
    BY <1>8, <1>9, <2>2, <2>3 DEF BottleEntries
<1>13. ~Complete(bottle')
  BY <1>9, <1>12 DEF Complete
<1>14. ASSUME breq'[Registrar] = r PROVE RegInv' /\ EntryOK(bottle)'
  <2>1. RegInv'
    BY <1>1, <1>6, <1>9, <1>10, <1>12, <1>13, <1>14 DEF RegInv, RegisterPcs, EarlyPcs, StoredPcs, UndonePcs, MakingPcs
  <2> QED
    BY <1>1, <1>9, <1>12, <1>13, <2>1 DEF EntryOK
<1> QED
  BY <1>1, <1>4, <1>8, <1>10, <1>11, <1>12, <1>14, RegistrarAlone

\* RollbackNetwork keeps BottleInv.
LEMMA RollbackNetworkKeeps == ASSUME BottleAssumption, BottleInv, NEW u \in BottleUsers, RollbackNetwork(u) PROVE BottleInv'
<1>1. breq[u].pc = "rb_network" /\ UNCHANGED <<deps, wants, boxes, policies, ran>>
  BY DEF RollbackNetwork, Given
<1>2. breq[u].pc \in RegisterPcs \ ActionPcs
  BY <1>1 DEF RegisterPcs, ActionPcs
<1>3. PICK q : q = breq[Registrar]
  OBVIOUS
<1>4. Calm
  BY <1>1 DEF Calm
<1>5. PICK ok \in BOOLEAN :
         /\ bridge' = (bridge /\ ~ok)
         /\ bottle' = [bottle EXCEPT !.net = FALSE]
         /\ breq' = [breq EXCEPT ![Registrar] = [q EXCEPT !.pc = "rb_bottle", !.hurt = q.hurt \/ ~ok]]
  <2>1. PICK failing \in BOOLEAN :
         /\ bridge' = (bridge /\ ~(~failing /\ \A s \in Services : boxes[s] = "none"))
         /\ bottle' = [bottle EXCEPT !.net = FALSE]
         /\ breq' = [breq EXCEPT ![u] = [breq[u] EXCEPT !.pc = "rb_bottle",
                       !.hurt = breq[u].hurt \/ ~(~failing /\ \A s \in Services : boxes[s] = "none")]]
    BY Zenon DEF RollbackNetwork
  <2>2. (~failing /\ \A s \in Services : boxes[s] = "none") \in BOOLEAN
    OBVIOUS
  <2>3. u = Registrar
    BY <1>2, Registering
  <2> QED
    BY <1>3, <2>1, <2>2, <2>3
<1>6. /\ q \in BottleCalls /\ q.hurt \in BOOLEAN /\ q.op = "register" /\ q.pc = "rb_network"
      /\ bottle \in BottleEntries /\ boxes \in [Services -> BoxStates] /\ bridge \in BOOLEAN /\ policies \in SUBSET {"p"}
      /\ ~Registered /\ EntryOK(bottle) /\ BottleTyped
  BY <1>1, <1>2, <1>3, Registering
<1>7. PICK hurt \in BOOLEAN : hurt = (q.hurt \/ ~ok)
  OBVIOUS
<1>8. PICK r : r = [q EXCEPT !.pc = "rb_bottle", !.hurt = hurt]
  OBVIOUS
<1>9. /\ bottle.there /\ Sorted(deps, q.order) /\ policies \subseteq q.pols
      /\ bottle.order = q.order /\ bottle.pols = q.pols /\ ~Complete(bottle)
      /\ (~q.hurt => BoxesIn(boxes, {}))
  BY <1>1, <1>2, <1>3, Registering DEF RegInv, RegisterPcs, StoredPcs
<1>10. /\ r \in BottleCalls /\ r.op = "register" /\ r.pc = "rb_bottle" /\ r.order = q.order /\ r.pols = q.pols /\ r.hurt = hurt
  BY <1>6, <1>8 DEF BottleCalls, RegisterPcs
<1>11. breq' = [breq EXCEPT ![Registrar] = r]
  BY <1>5, <1>7, <1>8
<1>12. /\ bottle' \in BottleEntries /\ bottle'.there /\ bottle'.order = bottle.order /\ bottle'.pols = bottle.pols
       /\ bottle'.has = bottle.has
  BY <1>5, <1>6, <1>9 DEF BottleEntries
<1>13. ~Complete(bottle')
  BY <1>9, <1>12 DEF Complete
<1>14. bridge' \in BOOLEAN /\ (~hurt => ~q.hurt /\ ~bridge')
  BY <1>5, <1>7
<1>15. ASSUME breq'[Registrar] = r PROVE RegInv' /\ EntryOK(bottle)'
  <2>1. RegInv'
    BY <1>1, <1>9, <1>10, <1>12, <1>13, <1>14, <1>15 DEF RegInv, RegisterPcs, EarlyPcs, StoredPcs, UndonePcs, MakingPcs
  <2> QED
    BY <1>1, <1>9, <1>12, <1>13, <2>1 DEF EntryOK
<1> QED
  BY <1>1, <1>4, <1>6, <1>10, <1>11, <1>12, <1>14, <1>15, RegistrarAlone

\* RollbackBottle keeps BottleInv.
LEMMA RollbackBottleKeeps == ASSUME BottleAssumption, BottleInv, NEW u \in BottleUsers, RollbackBottle(u) PROVE BottleInv'
<1>1. breq[u].pc = "rb_bottle" /\ UNCHANGED <<deps, wants, boxes, bridge, policies, ran>>
  BY DEF RollbackBottle, Given
<1>2. breq[u].pc \in RegisterPcs \ ActionPcs
  BY <1>1 DEF RegisterPcs, ActionPcs
<1>3. PICK q : q = breq[Registrar]
  OBVIOUS
<1>4. Calm
  BY <1>1 DEF Calm
<1>5. PICK failing \in BOOLEAN :
         /\ bottle' = IF failing THEN bottle ELSE NoBottle
         /\ breq' = [breq EXCEPT ![Registrar] = [q EXCEPT !.pc = "rb_policies", !.hurt = q.hurt \/ failing]]
  <2>1. PICK failing \in BOOLEAN :
         /\ bottle' = IF failing THEN bottle ELSE NoBottle
         /\ breq' = [breq EXCEPT ![u] = [breq[u] EXCEPT !.pc = "rb_policies", !.hurt = breq[u].hurt \/ failing]]
    BY Zenon DEF RollbackBottle
  <2>2. u = Registrar
    BY <1>2, Registering
  <2> QED
    BY <1>3, <2>1, <2>2
<1>6. /\ q \in BottleCalls /\ q.hurt \in BOOLEAN /\ q.op = "register" /\ q.pc = "rb_bottle"
      /\ bottle \in BottleEntries /\ boxes \in [Services -> BoxStates] /\ bridge \in BOOLEAN /\ policies \in SUBSET {"p"}
      /\ ~Registered /\ EntryOK(bottle) /\ BottleTyped
  BY <1>1, <1>2, <1>3, Registering
<1>7. PICK hurt \in BOOLEAN : hurt = (q.hurt \/ failing)
  OBVIOUS
<1>8. PICK r : r = [q EXCEPT !.pc = "rb_policies", !.hurt = hurt]
  OBVIOUS
<1>9. /\ bottle.there /\ Sorted(deps, q.order) /\ policies \subseteq q.pols
      /\ bottle.order = q.order /\ bottle.pols = q.pols /\ ~Complete(bottle)
      /\ (~q.hurt => BoxesIn(boxes, {}) /\ ~bridge)
  BY <1>1, <1>2, <1>3, Registering DEF RegInv, RegisterPcs, StoredPcs
<1>10. /\ r \in BottleCalls /\ r.op = "register" /\ r.pc = "rb_policies" /\ r.order = q.order /\ r.pols = q.pols /\ r.hurt = hurt
  BY <1>6, <1>8 DEF BottleCalls, RegisterPcs
<1>11. breq' = [breq EXCEPT ![Registrar] = r]
  BY <1>5, <1>7, <1>8
<1>12. bottle' \in BottleEntries /\ (bottle' = bottle \/ ~bottle'.there) /\ (~hurt => ~q.hurt /\ ~bottle'.there)
  BY <1>5, <1>6, <1>7, NoneIs
<1>13. ASSUME breq'[Registrar] = r PROVE RegInv' /\ EntryOK(bottle)'
  <2>1. RegInv'
    BY <1>1, <1>9, <1>10, <1>12, <1>13 DEF RegInv, RegisterPcs, EarlyPcs, StoredPcs, UndonePcs, MakingPcs
  <2> QED
    BY <1>1, <1>9, <1>12, <2>1 DEF EntryOK
<1> QED
  BY <1>1, <1>4, <1>6, <1>10, <1>11, <1>12, <1>13, RegistrarAlone

\* RollbackPolicies keeps BottleInv.
LEMMA RollbackPoliciesKeeps == ASSUME BottleAssumption, BottleInv, NEW u \in BottleUsers, RollbackPolicies(u) PROVE BottleInv'
<1>1. breq[u].pc = "rb_policies" /\ UNCHANGED <<deps, wants, bottle, boxes, bridge, ran>>
  BY DEF RollbackPolicies, Given
<1>2. breq[u].pc \in RegisterPcs \ ActionPcs
  BY <1>1 DEF RegisterPcs, ActionPcs
<1>3. PICK q : q = breq[Registrar]
  OBVIOUS
<1>4. Calm
  BY <1>1 DEF Calm
<1>5. PICK failing \in BOOLEAN :
         /\ policies' = IF failing THEN policies ELSE policies \ q.pols
         /\ breq' = [breq EXCEPT ![Registrar] = [q EXCEPT !.pc = "failed", !.hurt = q.hurt \/ failing]]
  <2>1. PICK failing \in BOOLEAN :
         /\ policies' = IF failing THEN policies ELSE policies \ breq[u].pols
         /\ breq' = [breq EXCEPT ![u] = [breq[u] EXCEPT !.pc = "failed", !.hurt = breq[u].hurt \/ failing]]
    BY Zenon DEF RollbackPolicies
  <2>2. u = Registrar
    BY <1>2, Registering
  <2> QED
    BY <1>3, <2>1, <2>2
<1>6. /\ q \in BottleCalls /\ q.hurt \in BOOLEAN /\ q.op = "register" /\ q.pc = "rb_policies"
      /\ bottle \in BottleEntries /\ boxes \in [Services -> BoxStates] /\ bridge \in BOOLEAN /\ policies \in SUBSET {"p"}
      /\ ~Registered /\ EntryOK(bottle) /\ BottleTyped
  BY <1>1, <1>2, <1>3, Registering
<1>7. PICK hurt \in BOOLEAN : hurt = (q.hurt \/ failing)
  OBVIOUS
<1>8. PICK r : r = [q EXCEPT !.pc = "failed", !.hurt = hurt]
  OBVIOUS
<1>9. /\ Sorted(deps, q.order) /\ policies \subseteq q.pols
      /\ (bottle.there => bottle.order = q.order /\ bottle.pols = q.pols /\ ~Complete(bottle))
      /\ (~q.hurt => BoxesIn(boxes, {}) /\ ~bridge /\ ~bottle.there)
  BY <1>1, <1>2, <1>3, Registering DEF RegInv, RegisterPcs, UndonePcs
<1>10. /\ r \in BottleCalls /\ r.op = "register" /\ r.pc = "failed" /\ r.order = q.order /\ r.pols = q.pols /\ r.hurt = hurt
  BY <1>6, <1>8 DEF BottleCalls, RegisterPcs
<1>11. breq' = [breq EXCEPT ![Registrar] = r]
  BY <1>5, <1>7, <1>8
<1>12. policies' \in SUBSET {"p"} /\ policies' \subseteq policies /\ (~hurt => ~q.hurt /\ policies' = {})
  BY <1>5, <1>6, <1>7, <1>9
<1>13. ASSUME breq'[Registrar] = r PROVE RegInv' /\ EntryOK(bottle)'
  <2>1. RegInv'
    BY <1>1, <1>9, <1>10, <1>12, <1>13 DEF RegInv, RegisterPcs, EarlyPcs, StoredPcs, UndonePcs, MakingPcs
  <2> QED
    BY <1>1, <1>9, <1>12, <2>1 DEF EntryOK
<1> QED
  BY <1>1, <1>4, <1>6, <1>10, <1>11, <1>12, <1>13, RegistrarAlone

-----------------------------------------------------------------------------
(***************************************************************************)
(* Start, Stop and Delete                                                  *)
(***************************************************************************)

\* Only the other callers start, stop and delete.
LEMMA AnActor ==
    ASSUME BottleAssumption, BottleInv, NEW u \in BottleUsers, breq[u].pc \in ActionPcs \ RegisterPcs
    PROVE  u \in Actors
  BY DEF BottleInv, RegInv, Actors

\* What the invariant says of an actor.
LEMMA Acting ==
    ASSUME BottleAssumption, BottleInv, NEW u \in Actors
    PROVE  /\ breq[u] \in BottleCalls /\ u \in BottleUsers /\ u # Registrar
           /\ breq[u].left \in Seq(Services) /\ breq[u].info \in BottleEntries /\ breq[u].solo \in BOOLEAN
           /\ breq[u].info.order \in Seq(Services)
           /\ BottleTyped /\ RegInv /\ EntryOK(bottle) /\ DependenciesFirst /\ UserInv(u)
           /\ bottle \in BottleEntries /\ boxes \in [Services -> BoxStates] /\ bridge \in BOOLEAN /\ policies \in SUBSET {"p"}
           /\ ran \in SUBSET Services
           /\ breq[u].pc # "rest" => breq[u].op \in {"start", "stop", "delete"} /\ breq[u].info.there /\ EntryOK(breq[u].info)
                                     /\ Sorted(deps, breq[u].info.order)
<1>1. u \in BottleUsers /\ breq[u] \in BottleCalls /\ u # Registrar /\ UserInv(u)
  BY DEF BottleInv, BottleTyped, Actors
<1>2. breq[u].pc # "rest" => breq[u].op \in {"start", "stop", "delete"} /\ breq[u].info.there /\ EntryOK(breq[u].info)
  BY <1>1 DEF UserInv
<1>3. breq[u].pc # "rest" => Sorted(deps, breq[u].info.order)
  BY <1>2 DEF EntryOK
<1> QED
  BY <1>1, <1>2, <1>3, CallIs, EntryIs DEF BottleInv, BottleTyped

\* A step of such a call that keeps its promises keeps the invariant.
LEMMA ActorMoves ==
    ASSUME BottleAssumption, BottleInv, NEW u \in Actors, breq' \in [BottleUsers -> BottleCalls],
           \A v \in BottleUsers \ {u} : Follows(v),
           deps' = deps, wants' = wants, ran' \in SUBSET Services, ran \subseteq ran', DependenciesFirst',
           boxes' \in [Services -> BoxStates], Fewer,
           bottle' = bottle \/ (Registered /\ bottle' = NoBottle),
           bridge' = bridge \/ (Registered /\ bridge' = FALSE),
           policies' = policies \/ (Registered /\ policies' \subseteq policies),
           UserInv(u)'
    PROVE  BottleInv'
<1>1. BottleTyped'
  BY NoneIs DEF BottleInv, BottleTyped
<1>2. Follows(Registrar)
  BY DEF BottleAssumption, Actors
<1>3. Registered => Registered'
  BY <1>2 DEF Follows, Registered
<1>4. BottleEnv
  BY <1>3, NoneIs DEF BottleEnv
<1>5. ASSUME NEW v \in Actors PROVE UserInv(v)'
  <2>1. CASE v = u
    BY <2>1
  <2>2. CASE v # u
    <3>1. Follows(v) /\ UserInv(v) /\ BottleTyped
      BY <2>2 DEF Actors, BottleInv
    <3> QED
      BY <1>1, <1>4, <3>1, ActorFollows
  <2> QED
    BY <2>1, <2>2
<1>6. Registered \/ (policies' = policies /\ bridge' = bridge /\ bottle' = bottle)
  OBVIOUS
<1>7. RegInv'
  BY <1>1, <1>2, <1>4, <1>6, RegistrarFollows DEF BottleInv
<1>8. EntryOK(bottle)'
  <2>1. CASE bottle' = bottle
    <3>1. CASE ~Registered
      BY <1>3, <2>1, <3>1 DEF EntryOK, BottleInv
    <3>2. CASE Registered
      BY <1>3, <2>1, <3>2 DEF EntryOK, BottleInv
    <3> QED
      BY <3>1, <3>2
  <2>2. CASE bottle' = NoBottle
    BY <2>2, NoneIs DEF EntryOK
  <2> QED
    BY <2>1, <2>2
<1> QED
  BY <1>1, <1>5, <1>7, <1>8 DEF BottleInv

\* The same for a step that changes nothing but the actor's request.
LEMMA ActorAlone ==
    ASSUME BottleAssumption, BottleInv, NEW u \in Actors, NEW r \in BottleCalls, breq' = [breq EXCEPT ![u] = r],
           UNCHANGED <<deps, wants, bottle, boxes, bridge, policies, ran>>,
           breq'[u] = r => UserInv(u)'
    PROVE  BottleInv'
<1>1. Calm /\ Fewer /\ BottleTyped /\ u \in BottleUsers /\ DependenciesFirst
  BY DEF Calm, Fewer, BottleInv, Actors
<1>2. breq' \in [BottleUsers -> BottleCalls] /\ breq'[u] = r /\ \A v \in BottleUsers \ {u} : Follows(v)
  BY <1>1, Moved, MovedFollow
<1>3. DependenciesFirst'
  BY <1>1 DEF DependenciesFirst
<1> QED
  BY <1>1, <1>2, <1>3, ActorMoves DEF BottleTyped

\* Act keeps BottleInv.
LEMMA ActKeeps ==
    ASSUME BottleAssumption, BottleInv, NEW u \in BottleUsers, NEW op \in {"start", "stop", "delete"}, Act(u, op)
    PROVE  BottleInv'
<1>1. u \in Actors /\ breq[u].pc = "rest" /\ bottle.there /\ UNCHANGED <<deps, wants, bottle, boxes, bridge, policies, ran>>
  BY DEF Act, Actors
<1>2. PICK solo \in BOOLEAN : solo = (\A v \in BottleUsers \ {u} : breq[v].pc = "rest")
  OBVIOUS
<1>3. PICK left : left = IF op = "start" THEN bottle.order ELSE Reverse(bottle.order)
  OBVIOUS
<1>4. PICK r : r = [Resting EXCEPT !.op = op, !.pc = "next", !.info = bottle, !.left = left, !.solo = solo]
  OBVIOUS
<1>5. breq' = [breq EXCEPT ![u] = r]
  <2>1. breq' = [breq EXCEPT ![u] = [Resting EXCEPT !.op = op, !.pc = "next", !.info = bottle,
                                    !.left = IF op = "start" THEN bottle.order ELSE Reverse(bottle.order),
                                    !.solo = \A v \in BottleUsers \ {u} : breq[v].pc = "rest"]]
    BY Zenon DEF Act
  <2> QED
    BY <1>2, <1>3, <1>4, <2>1
<1>6. /\ bottle \in BottleEntries /\ bottle.order \in Seq(Services) /\ EntryOK(bottle) /\ Sorted(deps, bottle.order)
  BY <1>1, Acting, EntryIs DEF EntryOK
<1>7. left \in Seq(Services) /\ Range(left) = Services /\ (op = "start" => Behind(deps, left))
      /\ (op # "start" => left = Reverse(bottle.order))
  BY <1>3, <1>6, ReverseRange DEF Sorted
<1>8. /\ r \in BottleCalls /\ r.op = op /\ r.pc = "next" /\ r.info = bottle /\ r.left = left /\ r.solo = solo
  BY <1>2, <1>4, <1>6, <1>7, NoneIs DEF BottleCalls, ActionPcs
<1>9. BoxesIn(boxes, Services)
  BY DEF BoxesIn
<1>10. ASSUME breq'[u] = r PROVE UserInv(u)'
  <2>1. EntryOK(bottle)'
    <3>1. Registered => Registered'
      <4>1. breq'[Registrar] = breq[Registrar]
        BY <1>1, <1>5, <1>8, Acting, Moved DEF Actors, BottleAssumption
      <4> QED
        BY <4>1 DEF Registered
    <3> QED
      BY <1>1, <1>6, <3>1 DEF EntryOK
  <2>2. EntryOK(breq[u].info)'
    BY <1>1, <1>8, <1>10, <2>1 DEF EntryOK
  <2> QED
    BY <1>1, <1>7, <1>8, <1>9, <1>10, <2>2 DEF UserInv, ActionPcs
<1> QED
  BY <1>1, <1>5, <1>8, <1>10, ActorAlone

\* Take keeps BottleInv.
LEMMA TakeKeeps == ASSUME BottleAssumption, BottleInv, NEW u \in BottleUsers, Take(u) PROVE BottleInv'
<1>1. breq[u].pc = "next" /\ breq[u].left # <<>> /\ UNCHANGED <<deps, wants, bottle, boxes, bridge, policies, ran>>
  BY DEF Take, Given
<1>2. u \in Actors
  BY <1>1, AnActor DEF RegisterPcs, ActionPcs
<1>3. PICK q : q = breq[u]
  OBVIOUS
<1>4. PICK s : s = Head(q.left)
  OBVIOUS
<1>5. PICK pc : pc = IF s \notin q.info.has THEN "failed"
                ELSE IF q.op = "start" THEN "start"
                ELSE IF boxes[s] = "none" THEN "failed"
                ELSE IF boxes[s] = "running" THEN "stop"
                ELSE IF q.op = "stop" THEN "skip"
                ELSE "delete"
  OBVIOUS
<1>6. PICK r : r = [q EXCEPT !.pc = pc]
  OBVIOUS
<1>7. breq' = [breq EXCEPT ![u] = r]
  BY <1>3, <1>4, <1>5, <1>6 DEF Take, Go
<1>8. /\ q \in BottleCalls /\ q.pc = "next" /\ q.left # <<>> /\ q.op \in {"start", "stop", "delete"} /\ q.info.there /\ EntryOK(q.info)
      /\ Sorted(deps, q.info.order) /\ q.info.order \in Seq(Services) /\ q.left \in Seq(Services)
  BY <1>1, <1>2, <1>3, Acting
<1>9. pc \in ActionPcs /\ r \in BottleCalls /\ r.op = q.op /\ r.pc = pc /\ r.info = q.info /\ r.left = q.left /\ r.solo = q.solo
  <2>1. pc \in ActionPcs
    BY <1>5 DEF ActionPcs
  <2> QED
    BY <1>6, <1>8, <2>1 DEF BottleCalls
<1>10. q.op = "delete" /\ pc \in {"stop", "delete"} => Complete(q.info)
  <2>1. SUFFICES ASSUME q.op = "delete", pc \in {"stop", "delete"}, q.left = Reverse(q.info.order) PROVE Complete(q.info)
    BY <1>2, <1>3, <1>8, Acting DEF UserInv
  <2>2. s \in q.info.has
    BY <1>5, <2>1
  <2>3. s = Last(q.info.order)
    <3>1. Len(q.info.order) \in Nat /\ Len(q.info.order) # 0
      BY <1>8, Sortedness
    <3>2. Reverse(q.info.order)[1] = q.info.order[Len(q.info.order)]
      BY <3>1 DEF Reverse
    <3>3. s = q.left[1]
      BY <1>4, <1>8, HeadTailRange
    <3> QED
      BY <2>1, <3>2, <3>3 DEF Last
  <2> QED
    BY <2>2, <2>3 DEF Complete
<1>11. ASSUME breq'[u] = r PROVE UserInv(u)'
  <2>1. Registered => Registered'
    <3>1. breq'[Registrar] = breq[Registrar]
      BY <1>2, <1>7, <1>9, Acting, Moved DEF BottleAssumption
    <3> QED
      BY <3>1 DEF Registered
  <2>2. EntryOK(breq[u].info)'
    BY <1>1, <1>8, <1>9, <1>11, <2>1 DEF EntryOK
  <2>3. CASE q.op = "start"
    <3>1. pc \in {"start", "failed"} /\ Services \ Range(q.left) \subseteq ran /\ Behind(deps, q.left)
      BY <1>2, <1>3, <1>5, <1>8, <2>3, Acting DEF UserInv
    <3> QED
      BY <1>1, <1>8, <1>9, <1>11, <2>2, <2>3, <3>1 DEF UserInv
  <2>4. CASE q.op = "stop"
    <3>1. pc \in {"stop", "skip", "failed"} /\ (q.solo => \A x \in Services \ Range(q.left) : boxes[x] # "running")
      BY <1>2, <1>3, <1>5, <1>8, <2>4, Acting DEF UserInv
    <3>2. pc = "skip" => boxes[Head(q.left)] # "running"
      BY <1>4, <1>5
    <3> QED
      BY <1>1, <1>8, <1>9, <1>11, <2>2, <2>4, <3>1, <3>2 DEF UserInv
  <2>5. CASE q.op = "delete"
    <3>1. pc \in {"stop", "delete", "failed"} /\ (Complete(q.info) => BoxesIn(boxes, Range(q.left)))
      BY <1>2, <1>3, <1>5, <1>8, <2>5, Acting DEF UserInv
    <3> QED
      BY <1>1, <1>8, <1>9, <1>10, <1>11, <2>2, <2>5, <3>1 DEF UserInv
  <2> QED
    BY <1>8, <2>3, <2>4, <2>5
<1> QED
  BY <1>1, <1>2, <1>7, <1>9, <1>11, ActorAlone

\* What was read stays true of the entry while an actor's request goes on.
LEMMA ReadStays ==
    ASSUME BottleAssumption, BottleInv, NEW u \in Actors, breq[u].pc # "rest", breq'[u].info = breq[u].info,
           Follows(Registrar), deps' = deps, policies' \subseteq policies, bridge' => bridge
    PROVE  EntryOK(breq[u].info)'
<1>1. EntryOK(breq[u].info)
  BY Acting
<1>2. Registered => Registered'
  BY DEF Follows, Registered
<1> QED
  BY <1>1, <1>2 DEF EntryOK

\* Skip keeps BottleInv.
LEMMA SkipKeeps == ASSUME BottleAssumption, BottleInv, NEW u \in BottleUsers, Skip(u) PROVE BottleInv'
<1>1. breq[u].pc = "skip" /\ UNCHANGED <<deps, wants, bottle, boxes, bridge, policies, ran>>
  BY DEF Skip, Given
<1>2. u \in Actors
  BY <1>1, AnActor DEF RegisterPcs, ActionPcs
<1>3. PICK q : q = breq[u]
  OBVIOUS
<1>4. PICK left : left = Tail(q.left)
  OBVIOUS
<1>5. PICK r : r = [q EXCEPT !.pc = "next", !.left = left]
  OBVIOUS
<1>6. breq' = [breq EXCEPT ![u] = r]
  BY <1>3, <1>4, <1>5 DEF Skip
<1>7. /\ q \in BottleCalls /\ q.pc = "skip" /\ q.left # <<>> /\ q.op = "stop" /\ q.info.there
      /\ q.left \in Seq(Services)
      /\ q.solo => boxes[Head(q.left)] # "running" /\ \A x \in Services \ Range(q.left) : boxes[x] # "running"
  BY <1>1, <1>2, <1>3, Acting DEF UserInv
<1>8. left \in Seq(Services) /\ Range(q.left) = Range(left) \cup {Head(q.left)}
  BY <1>4, <1>7, HeadTailRange
<1>9. r \in BottleCalls /\ r.op = q.op /\ r.pc = "next" /\ r.info = q.info /\ r.left = left /\ r.solo = q.solo
  BY <1>5, <1>7, <1>8 DEF BottleCalls, ActionPcs
<1>10. ASSUME breq'[u] = r PROVE UserInv(u)'
  <2>1. Follows(Registrar)
    BY <1>1, <1>2, <1>6, <1>9, Acting, MovedFollow DEF BottleAssumption, Calm
  <2>2. EntryOK(breq[u].info)'
    BY <1>1, <1>2, <1>3, <1>9, <1>10, <2>1, ReadStays
  <2>3. r.solo => \A x \in Services \ Range(left) : boxes[x] # "running"
    BY <1>7, <1>8, <1>9
  <2> QED
    BY <1>1, <1>7, <1>9, <1>10, <2>2, <2>3 DEF UserInv, ActionPcs
<1> QED
  BY <1>1, <1>2, <1>6, <1>9, <1>10, ActorAlone

\* A failed step of a request ends it.
LEMMA FailsWell ==
    ASSUME BottleAssumption, BottleInv, NEW u \in Actors, breq[u].pc # "rest", breq'[u] \in BottleCalls,
           breq'[u].op = breq[u].op, breq'[u].info = breq[u].info, breq'[u].pc = "failed", EntryOK(breq[u].info)'
    PROVE  UserInv(u)'
  BY Acting DEF UserInv, ActionPcs

\* BottleStart keeps BottleInv.
LEMMA BottleStartKeeps == ASSUME BottleAssumption, BottleInv, NEW u \in BottleUsers, BottleStart(u) PROVE BottleInv'
<1>1. breq[u].pc = "start" /\ UNCHANGED <<deps, wants, bottle, bridge, policies>>
  BY DEF BottleStart, OnContainer, Given
<1>2. u \in Actors
  BY <1>1, AnActor DEF RegisterPcs, ActionPcs
<1>3. PICK q : q = breq[u]
  OBVIOUS
<1>4. PICK s : s = Head(q.left)
  OBVIOUS
<1>5. PICK ok \in BOOLEAN :
         /\ ok => boxes[s] \in {"created", "stopped"}
         /\ boxes' = IF ok THEN [boxes EXCEPT ![s] = "running"] ELSE boxes
         /\ ran' = IF ok THEN ran \cup {s} ELSE ran
         /\ GoWith(u, IF ok THEN [q EXCEPT !.pc = "next", !.left = Tail(q.left)] ELSE [q EXCEPT !.pc = "failed"])
  <2>1. PICK failing \in BOOLEAN :
         /\ boxes' = IF (~failing /\ boxes[Head(breq[u].left)] \in {"created", "stopped"})
                       THEN [boxes EXCEPT ![Head(breq[u].left)] = "running"] ELSE boxes
         /\ ran' = IF (~failing /\ boxes[Head(breq[u].left)] \in {"created", "stopped"}) /\ "start" = "start"
                     THEN ran \cup {Head(breq[u].left)} ELSE ran
         /\ GoWith(u, IF (~failing /\ boxes[Head(breq[u].left)] \in {"created", "stopped"})
                        THEN IF "start" = "stop" /\ breq[u].op = "delete" THEN [breq[u] EXCEPT !.pc = "delete"]
                             ELSE [breq[u] EXCEPT !.pc = "next", !.left = Tail(breq[u].left)]
                        ELSE [breq[u] EXCEPT !.pc = "failed"])
    BY Zenon DEF BottleStart, OnContainer
  <2>2. PICK ok \in BOOLEAN : ok = (~failing /\ boxes[Head(breq[u].left)] \in {"created", "stopped"})
    OBVIOUS
  <2> QED
    BY <1>3, <1>4, <2>1, <2>2
<1>6. PICK left : left = Tail(q.left)
  OBVIOUS
<1>7. /\ q \in BottleCalls /\ q.pc = "start" /\ q.left # <<>> /\ q.op = "start" /\ q.info.there /\ EntryOK(q.info)
      /\ q.left \in Seq(Services) /\ Sorted(deps, q.info.order)
      /\ Services \ Range(q.left) \subseteq ran /\ Behind(deps, q.left)
      /\ boxes \in [Services -> BoxStates] /\ ran \in SUBSET Services /\ DependenciesFirst /\ BottleTyped
  BY <1>1, <1>2, <1>3, Acting DEF UserInv
<1>8. /\ left \in Seq(Services) /\ Range(q.left) = Range(left) \cup {s} /\ s \in Services
      /\ Behind(deps, left) /\ deps[s] \cap Range(q.left) = {}
  BY <1>4, <1>6, <1>7, HeadTailRange, TailBehind
<1>9. CASE ok
  <2>1. PICK r : r = [q EXCEPT !.pc = "next", !.left = left]
    OBVIOUS
  <2>2. boxes' = [boxes EXCEPT ![s] = "running"] /\ ran' = ran \cup {s} /\ GoWith(u, r) /\ boxes[s] \in {"created", "stopped"}
    BY <1>5, <1>6, <1>9, <2>1
  <2>3. r \in BottleCalls /\ r.op = "start" /\ r.pc = "next" /\ r.info = q.info /\ r.left = left
    BY <1>7, <1>8, <2>1 DEF BottleCalls, ActionPcs
  <2>4. breq' \in [BottleUsers -> BottleCalls] /\ breq'[u] = r /\ \A v \in BottleUsers \ {u} : Follows(v)
    BY <1>7, <2>2, <2>3, MovedWith
  <2>5. Follows(Registrar)
    BY <1>2, <2>4, Acting DEF BottleAssumption
  <2>6. EntryOK(breq[u].info)'
    BY <1>1, <1>2, <1>3, <2>3, <2>4, <2>5, ReadStays
  <2>7. Services \ Range(left) \subseteq ran'
    BY <1>7, <1>8, <2>2
  <2>8. UserInv(u)'
    BY <1>1, <1>7, <1>8, <2>3, <2>4, <2>6, <2>7 DEF UserInv, ActionPcs
  <2>9. boxes' \in [Services -> BoxStates] /\ Fewer /\ ran' \in SUBSET Services
    BY <1>7, <1>8, <2>2 DEF BoxStates, Fewer
  <2>10. DependenciesFirst'
    <3>1. deps[s] \subseteq ran
      BY <1>7, <1>8 DEF Sorted
    <3> QED
      BY <1>1, <1>7, <2>2, <3>1 DEF DependenciesFirst
  <2> QED
    BY <1>1, <1>2, <2>2, <2>4, <2>8, <2>9, <2>10, ActorMoves
<1>10. CASE ~ok
  <2>1. PICK r : r = [q EXCEPT !.pc = "failed"]
    OBVIOUS
  <2>2. boxes' = boxes /\ ran' = ran /\ GoWith(u, r)
    BY <1>5, <1>10, <2>1
  <2>3. r \in BottleCalls /\ r.op = q.op /\ r.pc = "failed" /\ r.info = q.info
    BY <1>7, <2>1 DEF BottleCalls, ActionPcs
  <2>4. breq' \in [BottleUsers -> BottleCalls] /\ breq'[u] = r /\ \A v \in BottleUsers \ {u} : Follows(v)
    BY <1>7, <2>2, <2>3, MovedWith
  <2>5. Follows(Registrar)
    BY <1>2, <2>4, Acting DEF BottleAssumption
  <2>6. EntryOK(breq[u].info)'
    BY <1>1, <1>2, <1>3, <2>3, <2>4, <2>5, ReadStays
  <2>7. UserInv(u)'
    BY <1>1, <1>2, <1>3, <2>3, <2>4, <2>6, FailsWell
  <2>8. DependenciesFirst' /\ Fewer
    BY <1>1, <1>7, <2>2 DEF DependenciesFirst, Fewer
  <2> QED
    BY <1>1, <1>2, <1>7, <2>2, <2>4, <2>7, <2>8, ActorMoves
<1> QED
  BY <1>9, <1>10

\* BottleStop keeps BottleInv.
LEMMA BottleStopKeeps == ASSUME BottleAssumption, BottleInv, NEW u \in BottleUsers, BottleStop(u) PROVE BottleInv'
<1>1. breq[u].pc = "stop" /\ UNCHANGED <<deps, wants, bottle, bridge, policies>>
  BY DEF BottleStop, OnContainer, Given
<1>2. u \in Actors
  BY <1>1, AnActor DEF RegisterPcs, ActionPcs
<1>3. PICK q : q = breq[u]
  OBVIOUS
<1>4. PICK s : s = Head(q.left)
  OBVIOUS
<1>5. PICK ok \in BOOLEAN :
         /\ ok => boxes[s] = "running"
         /\ boxes' = IF ok THEN [boxes EXCEPT ![s] = "stopped"] ELSE boxes
         /\ ran' = ran
         /\ GoWith(u, IF ok THEN IF q.op = "delete" THEN [q EXCEPT !.pc = "delete"]
                                 ELSE [q EXCEPT !.pc = "next", !.left = Tail(q.left)]
                      ELSE [q EXCEPT !.pc = "failed"])
  <2>1. PICK failing \in BOOLEAN :
         /\ boxes' = IF (~failing /\ boxes[Head(breq[u].left)] \in {"running"})
                       THEN [boxes EXCEPT ![Head(breq[u].left)] = "stopped"] ELSE boxes
         /\ ran' = IF (~failing /\ boxes[Head(breq[u].left)] \in {"running"}) /\ "stop" = "start"
                     THEN ran \cup {Head(breq[u].left)} ELSE ran
         /\ GoWith(u, IF (~failing /\ boxes[Head(breq[u].left)] \in {"running"})
                        THEN IF "stop" = "stop" /\ breq[u].op = "delete" THEN [breq[u] EXCEPT !.pc = "delete"]
                             ELSE [breq[u] EXCEPT !.pc = "next", !.left = Tail(breq[u].left)]
                        ELSE [breq[u] EXCEPT !.pc = "failed"])
    BY Zenon DEF BottleStop, OnContainer
  <2>2. PICK ok \in BOOLEAN : ok = (~failing /\ boxes[Head(breq[u].left)] \in {"running"})
    OBVIOUS
  <2> QED
    BY <1>3, <1>4, <2>1, <2>2
<1>6. PICK left : left = Tail(q.left)
  OBVIOUS
<1>7. /\ q \in BottleCalls /\ q.pc = "stop" /\ q.left # <<>> /\ q.op \in {"stop", "delete"} /\ q.info.there /\ EntryOK(q.info)
      /\ q.left \in Seq(Services)
      /\ (q.op = "stop" /\ q.solo => \A x \in Services \ Range(q.left) : boxes[x] # "running")
      /\ (q.op = "delete" => Complete(q.info) /\ BoxesIn(boxes, Range(q.left)))
      /\ boxes \in [Services -> BoxStates] /\ ran \in SUBSET Services /\ DependenciesFirst /\ BottleTyped
  BY <1>1, <1>2, <1>3, Acting DEF UserInv
<1>8. left \in Seq(Services) /\ Range(q.left) = Range(left) \cup {s} /\ s \in Services
  BY <1>4, <1>6, <1>7, HeadTailRange
<1>9. boxes' \in [Services -> BoxStates] /\ Fewer /\ Calm /\ (ok => boxes'[s] = "stopped")
  BY <1>5, <1>7, <1>8 DEF BoxStates, Fewer, Calm
<1>10. PICK r : r = IF ok THEN IF q.op = "delete" THEN [q EXCEPT !.pc = "delete"]
                                 ELSE [q EXCEPT !.pc = "next", !.left = left]
                      ELSE [q EXCEPT !.pc = "failed"]
  OBVIOUS
<1>11. GoWith(u, r)
  BY <1>5, <1>6, <1>10
<1>12. /\ r \in BottleCalls /\ r.op = q.op /\ r.info = q.info /\ r.solo = q.solo
       /\ (~ok => r.pc = "failed")
       /\ (ok /\ q.op = "delete" => r.pc = "delete" /\ r.left = q.left)
       /\ (ok /\ q.op = "stop" => r.pc = "next" /\ r.left = left)
  BY <1>7, <1>8, <1>10 DEF BottleCalls, ActionPcs
<1>13. breq' \in [BottleUsers -> BottleCalls] /\ breq'[u] = r /\ \A v \in BottleUsers \ {u} : Follows(v)
  BY <1>7, <1>11, <1>12, MovedWith
<1>14. Follows(Registrar)
  BY <1>2, <1>13, Acting DEF BottleAssumption
<1>15. EntryOK(breq[u].info)'
  BY <1>1, <1>2, <1>3, <1>12, <1>13, <1>14, ReadStays
<1>16. UserInv(u)'
  <2>1. CASE ~ok
    BY <1>1, <1>2, <1>3, <1>12, <1>13, <1>15, <2>1, FailsWell
  <2>2. CASE ok /\ q.op = "delete"
    <3>1. BoxesIn(boxes', Range(q.left))
      BY <1>7, <1>9, <2>2 DEF BoxesIn, Fewer
    <3> QED
      BY <1>7, <1>12, <1>13, <1>15, <2>2, <3>1 DEF UserInv, ActionPcs
  <2>3. CASE ok /\ q.op = "stop"
    <3>1. q.solo => \A x \in Services \ Range(left) : boxes'[x] # "running"
      BY <1>7, <1>8, <1>9, <2>3 DEF Calm
    <3> QED
      BY <1>7, <1>12, <1>13, <1>15, <2>3, <3>1 DEF UserInv, ActionPcs
  <2> QED
    BY <1>7, <2>1, <2>2, <2>3
<1>17. DependenciesFirst'
  BY <1>1, <1>5, <1>7 DEF DependenciesFirst
<1> QED
  BY <1>1, <1>2, <1>5, <1>7, <1>9, <1>13, <1>16, <1>17, ActorMoves

\* BottleDelete keeps BottleInv.
LEMMA BottleDeleteKeeps == ASSUME BottleAssumption, BottleInv, NEW u \in BottleUsers, BottleDelete(u) PROVE BottleInv'
<1>1. breq[u].pc = "delete" /\ UNCHANGED <<deps, wants, bottle, bridge, policies>>
  BY DEF BottleDelete, OnContainer, Given
<1>2. u \in Actors
  BY <1>1, AnActor DEF RegisterPcs, ActionPcs
<1>3. PICK q : q = breq[u]
  OBVIOUS
<1>4. PICK s : s = Head(q.left)
  OBVIOUS
<1>5. PICK ok \in BOOLEAN :
         /\ boxes' = IF ok THEN [boxes EXCEPT ![s] = "none"] ELSE boxes
         /\ ran' = ran
         /\ GoWith(u, IF ok THEN [q EXCEPT !.pc = "next", !.left = Tail(q.left)] ELSE [q EXCEPT !.pc = "failed"])
  <2>1. PICK failing \in BOOLEAN :
         /\ boxes' = IF (~failing /\ boxes[Head(breq[u].left)] \in {"created", "stopped"})
                       THEN [boxes EXCEPT ![Head(breq[u].left)] = "none"] ELSE boxes
         /\ ran' = IF (~failing /\ boxes[Head(breq[u].left)] \in {"created", "stopped"}) /\ "delete" = "start"
                     THEN ran \cup {Head(breq[u].left)} ELSE ran
         /\ GoWith(u, IF (~failing /\ boxes[Head(breq[u].left)] \in {"created", "stopped"})
                        THEN IF "delete" = "stop" /\ breq[u].op = "delete" THEN [breq[u] EXCEPT !.pc = "delete"]
                             ELSE [breq[u] EXCEPT !.pc = "next", !.left = Tail(breq[u].left)]
                        ELSE [breq[u] EXCEPT !.pc = "failed"])
    BY Zenon DEF BottleDelete, OnContainer
  <2>2. PICK ok \in BOOLEAN : ok = (~failing /\ boxes[Head(breq[u].left)] \in {"created", "stopped"})
    OBVIOUS
  <2> QED
    BY <1>3, <1>4, <2>1, <2>2
<1>6. PICK left : left = Tail(q.left)
  OBVIOUS
<1>7. /\ q \in BottleCalls /\ q.pc = "delete" /\ q.left # <<>> /\ q.op = "delete" /\ q.info.there /\ EntryOK(q.info)
      /\ q.left \in Seq(Services) /\ Complete(q.info) /\ BoxesIn(boxes, Range(q.left))
      /\ boxes \in [Services -> BoxStates] /\ ran \in SUBSET Services /\ DependenciesFirst /\ BottleTyped
  BY <1>1, <1>2, <1>3, Acting DEF UserInv
<1>8. left \in Seq(Services) /\ Range(q.left) = Range(left) \cup {s} /\ s \in Services
  BY <1>4, <1>6, <1>7, HeadTailRange
<1>9. boxes' \in [Services -> BoxStates] /\ Fewer /\ (ok => BoxesIn(boxes', Range(left)))
  BY <1>5, <1>7, <1>8 DEF BoxStates, Fewer, BoxesIn
<1>10. PICK r : r = IF ok THEN [q EXCEPT !.pc = "next", !.left = left] ELSE [q EXCEPT !.pc = "failed"]
  OBVIOUS
<1>11. GoWith(u, r)
  BY <1>5, <1>6, <1>10
<1>12. /\ r \in BottleCalls /\ r.op = q.op /\ r.info = q.info
       /\ (~ok => r.pc = "failed") /\ (ok => r.pc = "next" /\ r.left = left)
  BY <1>7, <1>8, <1>10 DEF BottleCalls, ActionPcs
<1>13. breq' \in [BottleUsers -> BottleCalls] /\ breq'[u] = r /\ \A v \in BottleUsers \ {u} : Follows(v)
  BY <1>7, <1>11, <1>12, MovedWith
<1>14. Follows(Registrar)
  BY <1>2, <1>13, Acting DEF BottleAssumption
<1>15. EntryOK(breq[u].info)'
  BY <1>1, <1>2, <1>3, <1>12, <1>13, <1>14, ReadStays
<1>16. UserInv(u)'
  <2>1. CASE ~ok
    BY <1>1, <1>2, <1>3, <1>12, <1>13, <1>15, <2>1, FailsWell
  <2>2. CASE ok
    BY <1>7, <1>9, <1>12, <1>13, <1>15, <2>2 DEF UserInv, ActionPcs
  <2> QED
    BY <2>1, <2>2
<1>17. DependenciesFirst'
  BY <1>1, <1>5, <1>7 DEF DependenciesFirst
<1> QED
  BY <1>1, <1>2, <1>5, <1>7, <1>9, <1>13, <1>16, <1>17, ActorMoves

-----------------------------------------------------------------------------
(***************************************************************************)
(* The end of a request                                                    *)
(***************************************************************************)

\* AllTaken keeps BottleInv.
LEMMA AllTakenKeeps == ASSUME BottleAssumption, BottleInv, NEW u \in BottleUsers, AllTaken(u) PROVE BottleInv'
<1>1. breq[u].pc = "next" /\ breq[u].left = <<>> /\ UNCHANGED <<deps, wants, bottle, boxes, bridge, policies, ran>>
  BY DEF AllTaken, Given
<1>2. u \in Actors
  BY <1>1, AnActor DEF RegisterPcs, ActionPcs
<1>3. PICK q : q = breq[u]
  OBVIOUS
<1>4. PICK pc : pc = IF q.op # "delete" THEN "ok" ELSE IF q.info.pols # {} THEN "del_policies" ELSE "del_network"
  OBVIOUS
<1>5. PICK r : r = [q EXCEPT !.pc = pc]
  OBVIOUS
<1>6. breq' = [breq EXCEPT ![u] = r]
  BY <1>3, <1>4, <1>5 DEF AllTaken, Go
<1>7. /\ q \in BottleCalls /\ q.pc = "next" /\ q.left = <<>> /\ q.op \in {"start", "stop", "delete"} /\ q.info.there /\ EntryOK(q.info)
      /\ Sorted(deps, q.info.order) /\ q.info.order \in Seq(Services) /\ policies \in SUBSET {"p"}
  BY <1>1, <1>2, <1>3, Acting
<1>8. r \in BottleCalls /\ r.op = q.op /\ r.pc = pc /\ r.info = q.info /\ r.left = q.left /\ r.solo = q.solo
  BY <1>4, <1>5, <1>7 DEF BottleCalls, ActionPcs
<1>9. Range(q.left) = {}
  BY <1>7 DEF Range
<1>10. q.op = "delete" => Complete(q.info)
  <2>1. Range(Reverse(q.info.order)) = Services /\ Services # {}
    BY <1>7, ReverseRange DEF Sorted, BottleAssumption
  <2>2. q.left # Reverse(q.info.order)
    BY <1>9, <2>1
  <2> QED
    BY <1>2, <1>3, <1>7, <2>2, Acting DEF UserInv
<1>11. ASSUME breq'[u] = r PROVE UserInv(u)'
  <2>1. Follows(Registrar)
    BY <1>1, <1>2, <1>6, <1>8, Acting, MovedFollow DEF BottleAssumption, Calm
  <2>2. EntryOK(breq[u].info)'
    BY <1>1, <1>2, <1>3, <1>8, <1>11, <2>1, ReadStays
  <2>3. CASE q.op = "start"
    BY <1>1, <1>4, <1>7, <1>8, <1>11, <2>2, <2>3 DEF UserInv, ActionPcs
  <2>4. CASE q.op = "stop"
    <3>1. q.solo => \A x \in Services : boxes[x] # "running"
      BY <1>2, <1>3, <1>7, <1>9, <2>4, Acting DEF UserInv
    <3> QED
      BY <1>1, <1>4, <1>7, <1>8, <1>11, <2>2, <2>4, <3>1 DEF UserInv, ActionPcs
  <2>5. CASE q.op = "delete"
    <3>1. Complete(q.info) /\ BoxesIn(boxes, {})
      BY <1>2, <1>3, <1>7, <1>9, <1>10, <2>5, Acting DEF UserInv
    <3>2. q.info.pols = {} => policies = {}
      BY <1>7, <3>1 DEF EntryOK
    <3> QED
      BY <1>1, <1>4, <1>7, <1>8, <1>11, <2>2, <2>5, <3>1, <3>2 DEF UserInv, ActionPcs
  <2> QED
    BY <1>7, <2>3, <2>4, <2>5
<1> QED
  BY <1>1, <1>2, <1>6, <1>8, <1>11, ActorAlone

\* What the last three steps of a Delete rely on.
LEMMA Deleting ==
    ASSUME BottleAssumption, BottleInv, NEW u \in BottleUsers, breq[u].pc \in {"del_policies", "del_network", "del_bottle"}
    PROVE  /\ u \in Actors /\ breq[u] \in BottleCalls /\ breq[u].op = "delete" /\ breq[u].info.there /\ EntryOK(breq[u].info)
           /\ Complete(breq[u].info) /\ Registered /\ BoxesIn(boxes, {})
           /\ policies \subseteq breq[u].info.pols /\ (bridge => breq[u].info.net)
           /\ breq[u].pc \in {"del_network", "del_bottle"} => policies = {}
           /\ breq[u].pc = "del_bottle" => ~bridge
           /\ breq[u].info.net \in BOOLEAN /\ breq[u].info.pols \in SUBSET {"p"}
           /\ bottle \in BottleEntries /\ boxes \in [Services -> BoxStates] /\ bridge \in BOOLEAN /\ policies \in SUBSET {"p"}
           /\ ran \in SUBSET Services /\ BottleTyped
<1>1. u \in Actors
  BY AnActor DEF RegisterPcs, ActionPcs
<1>2. breq[u].pc # "rest" /\ breq[u].op = "delete" /\ Complete(breq[u].info) /\ BoxesIn(boxes, {})
      /\ (breq[u].pc \in {"del_network", "del_bottle"} => policies = {}) /\ (breq[u].pc = "del_bottle" => ~bridge)
  BY <1>1, Acting DEF UserInv
<1>3. breq[u].info.there /\ EntryOK(breq[u].info) /\ breq[u].info \in BottleEntries
  BY <1>1, <1>2, Acting
<1> QED
  BY <1>1, <1>2, <1>3, Acting, EntryIs DEF EntryOK

\* A step of Delete on what belongs to the bottle.
LEMMA DeleteMoves ==
    ASSUME BottleAssumption, BottleInv, NEW u \in BottleUsers, breq[u].pc \in {"del_policies", "del_network", "del_bottle"},
           NEW pc \in {"failed", "del_network", "del_bottle", "ok"}, GoWith(u, [breq[u] EXCEPT !.pc = pc]),
           UNCHANGED <<deps, wants, boxes, ran>>,
           bottle' = bottle \/ bottle' = NoBottle, bridge' = bridge \/ bridge' = FALSE,
           policies' = policies \/ policies' = policies \ breq[u].info.pols,
           pc \in {"del_network", "del_bottle", "ok"} => policies' = {},
           pc \in {"del_bottle", "ok"} => ~bridge',
           pc = "ok" => ~bottle'.there
    PROVE  BottleInv'
<1>1. PICK q : q = breq[u]
  OBVIOUS
<1>2. PICK r : r = [q EXCEPT !.pc = pc]
  OBVIOUS
<1>3. GoWith(u, r)
  BY <1>1, <1>2
<1>4. /\ u \in Actors /\ q \in BottleCalls /\ q.pc # "rest" /\ q.op = "delete" /\ q.info.there /\ EntryOK(q.info) /\ Complete(q.info)
      /\ Registered /\ BoxesIn(boxes, {}) /\ BottleTyped /\ boxes \in [Services -> BoxStates] /\ ran \in SUBSET Services
      /\ policies \in SUBSET {"p"} /\ bridge \in BOOLEAN
  BY <1>1, Deleting
<1>5. r \in BottleCalls /\ r.op = q.op /\ r.info = q.info /\ r.pc = pc
  BY <1>2, <1>4 DEF BottleCalls, ActionPcs
<1>6. breq' \in [BottleUsers -> BottleCalls] /\ breq'[u] = r /\ \A v \in BottleUsers \ {u} : Follows(v)
  BY <1>3, <1>4, <1>5, MovedWith
<1>7. Follows(Registrar)
  BY <1>4, <1>6, Acting DEF BottleAssumption
<1>8. policies' \subseteq policies /\ (bridge' => bridge)
  OBVIOUS
<1>9. EntryOK(breq[u].info)'
  BY <1>1, <1>4, <1>5, <1>6, <1>7, <1>8, ReadStays
<1>10. UserInv(u)'
  <2>1. CASE pc = "failed"
    BY <1>1, <1>4, <1>5, <1>6, <1>9, <2>1, FailsWell
  <2>2. CASE pc # "failed"
    BY <1>4, <1>5, <1>6, <1>9, <2>2 DEF UserInv, ActionPcs
  <2> QED
    BY <2>1, <2>2
<1>11. Fewer /\ DependenciesFirst'
  BY DEF Fewer, DependenciesFirst, BottleInv
<1> QED
  BY <1>4, <1>6, <1>8, <1>10, <1>11, ActorMoves

\* DeletePolicies keeps BottleInv.
LEMMA DeletePoliciesKeeps == ASSUME BottleAssumption, BottleInv, NEW u \in BottleUsers, DeletePolicies(u) PROVE BottleInv'
<1>1. breq[u].pc = "del_policies" /\ UNCHANGED <<deps, wants, bottle, boxes, bridge, ran>>
  BY DEF DeletePolicies, Given
<1>2. PICK ok \in BOOLEAN :
         /\ policies' = IF ok THEN policies \ breq[u].info.pols ELSE policies
         /\ GoWith(u, [breq[u] EXCEPT !.pc = IF ok THEN "del_network" ELSE "failed"])
  <2>1. PICK failing \in BOOLEAN :
         /\ policies' = IF (~failing /\ breq[u].info.pols \subseteq policies) THEN policies \ breq[u].info.pols ELSE policies
         /\ GoWith(u, [breq[u] EXCEPT !.pc = IF (~failing /\ breq[u].info.pols \subseteq policies) THEN "del_network" ELSE "failed"])
    BY Zenon DEF DeletePolicies
  <2>2. PICK ok \in BOOLEAN : ok = (~failing /\ breq[u].info.pols \subseteq policies)
    OBVIOUS
  <2> QED
    BY <2>1, <2>2
<1>3. PICK pc \in {"failed", "del_network", "del_bottle", "ok"} : pc = IF ok THEN "del_network" ELSE "failed"
  OBVIOUS
<1>4. GoWith(u, [breq[u] EXCEPT !.pc = pc])
  BY <1>2, <1>3
<1>5. policies \subseteq breq[u].info.pols
  BY <1>1, Deleting
<1>6. pc \in {"del_network", "del_bottle", "ok"} => policies' = {}
  BY <1>2, <1>3, <1>5
<1> QED
  BY <1>1, <1>2, <1>3, <1>4, <1>6, DeleteMoves

\* DeleteNetwork keeps BottleInv.
LEMMA DeleteNetworkKeeps == ASSUME BottleAssumption, BottleInv, NEW u \in BottleUsers, DeleteNetwork(u) PROVE BottleInv'
<1>1. breq[u].pc = "del_network" /\ UNCHANGED <<deps, wants, bottle, boxes, policies, ran>>
  BY DEF DeleteNetwork, Given
<1>2. PICK ok \in BOOLEAN :
         /\ bridge' = IF ok /\ breq[u].info.net THEN FALSE ELSE bridge
         /\ GoWith(u, [breq[u] EXCEPT !.pc = IF ok THEN "del_bottle" ELSE "failed"])
  <2>1. PICK failing \in BOOLEAN :
         /\ bridge' = IF (~breq[u].info.net \/ (~failing /\ bridge /\ \A s \in Services : boxes[s] = "none")) /\ breq[u].info.net
                        THEN FALSE ELSE bridge
         /\ GoWith(u, [breq[u] EXCEPT !.pc =
                IF (~breq[u].info.net \/ (~failing /\ bridge /\ \A s \in Services : boxes[s] = "none")) THEN "del_bottle" ELSE "failed"])
    BY Zenon DEF DeleteNetwork
  <2>2. PICK ok \in BOOLEAN : ok = (~breq[u].info.net \/ (~failing /\ bridge /\ \A s \in Services : boxes[s] = "none"))
    OBVIOUS
  <2> QED
    BY <2>1, <2>2
<1>3. PICK pc \in {"failed", "del_network", "del_bottle", "ok"} : pc = IF ok THEN "del_bottle" ELSE "failed"
  OBVIOUS
<1>4. GoWith(u, [breq[u] EXCEPT !.pc = pc])
  BY <1>2, <1>3
<1>5. policies = {} /\ (bridge => breq[u].info.net) /\ bridge \in BOOLEAN
  BY <1>1, Deleting
<1>6. pc \in {"del_bottle", "ok"} => ~bridge'
  BY <1>2, <1>3, <1>5
<1>7. bridge' = bridge \/ bridge' = FALSE
  BY <1>2
<1>8. pc # "ok"
  BY <1>3
<1> QED
  BY <1>1, <1>4, <1>5, <1>6, <1>7, <1>8, DeleteMoves

\* DeleteBottle keeps BottleInv.
LEMMA DeleteBottleKeeps == ASSUME BottleAssumption, BottleInv, NEW u \in BottleUsers, DeleteBottle(u) PROVE BottleInv'
<1>1. breq[u].pc = "del_bottle" /\ UNCHANGED <<deps, wants, boxes, bridge, policies, ran>>
  BY DEF DeleteBottle, Given
<1>2. PICK ok \in BOOLEAN :
         /\ bottle' = IF ok THEN NoBottle ELSE bottle
         /\ GoWith(u, [breq[u] EXCEPT !.pc = IF ok THEN "ok" ELSE "failed"])
  <2>1. PICK failing \in BOOLEAN :
         /\ bottle' = IF (~failing /\ bottle.there) THEN NoBottle ELSE bottle
         /\ GoWith(u, [breq[u] EXCEPT !.pc = IF (~failing /\ bottle.there) THEN "ok" ELSE "failed"])
    BY Zenon DEF DeleteBottle
  <2>2. PICK ok \in BOOLEAN : ok = (~failing /\ bottle.there)
    OBVIOUS
  <2> QED
    BY <2>1, <2>2
<1>3. PICK pc \in {"failed", "del_network", "del_bottle", "ok"} : pc = IF ok THEN "ok" ELSE "failed"
  OBVIOUS
<1>4. GoWith(u, [breq[u] EXCEPT !.pc = pc])
  BY <1>2, <1>3
<1>5. policies = {} /\ ~bridge
  BY <1>1, Deleting
<1>6. bottle' = bottle \/ bottle' = NoBottle
  BY <1>2
<1>7. pc = "ok" => ~bottle'.there
  BY <1>2, <1>3, NoneIs
<1> QED
  BY <1>1, <1>4, <1>5, <1>6, <1>7, DeleteMoves

\* Answer keeps BottleInv.
LEMMA AnswerKeeps == ASSUME BottleAssumption, BottleInv, NEW u \in BottleUsers, Answer(u) PROVE BottleInv'
<1>1. breq[u].pc \in {"ok", "failed", "uncommitted", "refused"} /\ UNCHANGED <<deps, wants, bottle, boxes, bridge, policies, ran>>
  BY DEF Answer, Given
<1>2. PICK r : r = [Resting EXCEPT !.op = IF u = Registrar THEN "done" ELSE "idle"]
  OBVIOUS
<1>3. breq' = [breq EXCEPT ![u] = r]
  BY <1>2, Zenon DEF Answer
<1>4. r \in BottleCalls /\ r.pc = "rest" /\ r.op = IF u = Registrar THEN "done" ELSE "idle"
  BY <1>2, NoneIs DEF BottleCalls
<1>5. CASE u = Registrar
  <2>1. BottleTyped /\ RegInv /\ EntryOK(bottle) /\ Registrar \in BottleUsers /\ Calm
    BY <1>1 DEF BottleInv, BottleAssumption, Calm
  <2>2. breq'[Registrar] = r
    BY <1>3, <1>4, <1>5, <2>1, Moved
  <2>3. r.op = "done" /\ Registered'
    BY <1>4, <1>5, <2>2 DEF Registered
  <2>4. ~Registered => ~bottle.there \/ ~Complete(bottle)
    <3>1. CASE breq[Registrar].pc = "ok"
      BY <3>1 DEF Registered
    <3>2. CASE breq[Registrar].pc \in {"failed", "uncommitted"}
      BY <2>1, <3>2 DEF RegInv, UndonePcs
    <3>3. CASE breq[Registrar].pc = "refused"
      BY <2>1, <3>3 DEF RegInv, EarlyPcs
    <3> QED
      BY <1>1, <1>5, <3>1, <3>2, <3>3
  <2>5. EntryOK(bottle)'
    BY <1>1, <2>1, <2>3, <2>4 DEF EntryOK
  <2>6. RegInv'
    BY <1>4, <2>2, <2>3 DEF RegInv, RegisterPcs, EarlyPcs, StoredPcs, UndonePcs, MakingPcs
  <2> QED
    BY <1>1, <1>3, <1>4, <1>5, <2>1, <2>3, <2>5, <2>6, RegistrarAlone DEF BottleTyped
<1>6. CASE u # Registrar
  <2>1. u \in Actors /\ r.op = "idle"
    BY <1>4, <1>6 DEF Actors
  <2>2. ASSUME breq'[u] = r PROVE UserInv(u)'
    BY <1>4, <2>1, <2>2 DEF UserInv, ActionPcs
  <2> QED
    BY <1>1, <1>3, <1>4, <2>1, <2>2, ActorAlone
<1> QED
  BY <1>5, <1>6

\* Exit keeps BottleInv.
LEMMA ExitKeeps == ASSUME BottleAssumption, BottleInv, NEW s \in Services, Exit(s) PROVE BottleInv'
<1>1. boxes[s] = "running" /\ boxes' = [boxes EXCEPT ![s] = "stopped"] /\ UNCHANGED <<deps, wants, bottle, bridge, policies, ran, breq>>
  BY DEF Exit, Given
<1>2. BottleTyped /\ RegInv /\ EntryOK(bottle) /\ DependenciesFirst /\ \A u \in Actors : UserInv(u)
  BY DEF BottleInv
<1>3. boxes \in [Services -> BoxStates] /\ breq \in [BottleUsers -> BottleCalls]
  BY <1>2 DEF BottleTyped
<1>4. boxes' \in [Services -> BoxStates] /\ Calm /\ Fewer
  BY <1>1, <1>3 DEF BoxStates, Calm, Fewer
<1>5. BottleTyped'
  BY <1>1, <1>2, <1>4 DEF BottleTyped
<1>6. \A v \in BottleUsers : Follows(v)
  BY <1>1, <1>3, <1>4 DEF Follows
<1>7. BottleEnv
  BY <1>1, <1>4 DEF BottleEnv, Registered
<1>8. RegInv'
  BY <1>1, <1>2, <1>4, <1>5, <1>6, <1>7, RegistrarFollows DEF BottleAssumption
<1>9. \A u \in Actors : UserInv(u)'
  BY <1>2, <1>5, <1>6, <1>7, ActorFollows DEF Actors
<1>10. EntryOK(bottle)' /\ DependenciesFirst'
  BY <1>1, <1>2 DEF EntryOK, DependenciesFirst, Registered
<1> QED
  BY <1>5, <1>8, <1>9, <1>10 DEF BottleInv

-----------------------------------------------------------------------------
(***************************************************************************)
(* Bottles stay sound                                                      *)
(***************************************************************************)

\* The invariant holds at the start.
LEMMA BottleStarts == BottleAssumption /\ BottleInit => BottleInv
<1>1. SUFFICES ASSUME BottleAssumption, BottleInit PROVE BottleInv
  OBVIOUS
<1>2. /\ breq \in [BottleUsers -> BottleCalls] /\ \A u \in BottleUsers : breq[u] = Resting
      /\ Registrar \in BottleUsers
  BY <1>1, NoneIs DEF BottleInit, BottleAssumption
<1>3. BottleTyped
  BY <1>1, <1>2, NoneIs DEF BottleInit, BottleTyped, BoxStates
<1>4. BoxesIn(boxes, {})
  BY <1>1 DEF BottleInit, BoxesIn
<1>5. RegInv
  <2>1. /\ breq[Registrar].op = "idle" /\ breq[Registrar].pc = "rest" /\ breq[Registrar].order = <<>>
        /\ breq[Registrar].pols = {} /\ breq[Registrar].made = <<>> /\ ~breq[Registrar].hurt
    BY <1>2, NoneIs DEF Resting
  <2>2. ~bottle.there /\ ~bridge /\ policies = {}
    BY <1>1, NoneIs DEF BottleInit
  <2> QED
    BY <1>4, <2>1, <2>2 DEF RegInv, RegisterPcs, EarlyPcs, StoredPcs, UndonePcs, MakingPcs
<1>6. EntryOK(bottle) /\ DependenciesFirst
  BY <1>1, NoneIs DEF BottleInit, EntryOK, DependenciesFirst
<1>7. ASSUME NEW u \in Actors PROVE UserInv(u)
  BY <1>2, NoneIs DEF Actors, UserInv, ActionPcs
<1> QED
  BY <1>3, <1>5, <1>6, <1>7 DEF BottleInv

\* A step that changes nothing keeps the invariant.
LEMMA BottleStutters == ASSUME BottleInv, UNCHANGED bottleVars PROVE BottleInv'
<1>1. /\ deps' = deps /\ wants' = wants /\ bottle' = bottle /\ boxes' = boxes /\ bridge' = bridge /\ policies' = policies
      /\ ran' = ran /\ breq' = breq
  BY DEF bottleVars
<1>2. BottleTyped' /\ RegInv' /\ EntryOK(bottle)' /\ DependenciesFirst'
  BY <1>1 DEF BottleInv, BottleTyped, RegInv, EntryOK, Registered, DependenciesFirst
<1>3. ASSUME NEW u \in Actors PROVE UserInv(u)'
  BY <1>1, <1>3 DEF BottleInv, UserInv, EntryOK, Registered
<1> QED
  BY <1>2, <1>3 DEF BottleInv

\* Every step keeps the invariant.
LEMMA BottleSteps == ASSUME BottleAssumption, BottleInv, [BottleNext]_bottleVars PROVE BottleInv'
<1>1. CASE UNCHANGED bottleVars
  BY <1>1, BottleStutters
<1>2. ASSUME NEW s \in Services, Exit(s) PROVE BottleInv'
  BY <1>2, ExitKeeps
<1>3. ASSUME NEW u \in BottleUsers, RegisterBottle(u) \/ OrderNext(u) \/ OrderEnd(u) \/ ApplyPolicies(u) \/ CommitPolicies(u) \/ StoreBottle(u)
      PROVE  BottleInv'
  BY <1>3, RegisterBottleKeeps, OrderNextKeeps, OrderEndKeeps, ApplyPoliciesKeeps, CommitPoliciesKeeps, StoreBottleKeeps
<1>4. ASSUME NEW u \in BottleUsers, CreateNetwork(u) \/ RecordNetwork(u) \/ CreateContainer(u) \/ RecordContainer(u) PROVE BottleInv'
  BY <1>4, CreateNetworkKeeps, RecordNetworkKeeps, CreateContainerKeeps, RecordContainerKeeps
<1>5. ASSUME NEW u \in BottleUsers, RollbackDelete(u) \/ RollbackEntry(u) \/ RollbackNetwork(u) \/ RollbackBottle(u) \/ RollbackPolicies(u)
      PROVE  BottleInv'
  BY <1>5, RollbackDeleteKeeps, RollbackEntryKeeps, RollbackNetworkKeeps, RollbackBottleKeeps, RollbackPoliciesKeeps
<1>6. ASSUME NEW u \in BottleUsers,
             (\E op \in {"start", "stop", "delete"} : Act(u, op)) \/ Take(u) \/ Skip(u) \/ BottleStart(u) \/ BottleStop(u) \/ BottleDelete(u)
      PROVE  BottleInv'
  BY <1>6, ActKeeps, TakeKeeps, SkipKeeps, BottleStartKeeps, BottleStopKeeps, BottleDeleteKeeps
<1>7. ASSUME NEW u \in BottleUsers, AllTaken(u) \/ DeletePolicies(u) \/ DeleteNetwork(u) \/ DeleteBottle(u) \/ Answer(u) PROVE BottleInv'
  BY <1>7, AllTakenKeeps, DeletePoliciesKeeps, DeleteNetworkKeeps, DeleteBottleKeeps, AnswerKeeps
<1> QED
  BY <1>1, <1>2, <1>3, <1>4, <1>5, <1>6, <1>7 DEF BottleNext

\* The invariant gives what the runs check.
LEMMA BottleInvSuffices == ASSUME BottleAssumption, BottleInv PROVE BottleSound
<1>1. BottleTyped /\ RegInv /\ EntryOK(bottle) /\ DependenciesFirst /\ Registrar \in BottleUsers /\ \A u \in Actors : UserInv(u)
  BY DEF BottleInv, BottleAssumption
<1>2. BottleTypeOK
  BY <1>1, EntryIs DEF BottleTyped, BottleTypeOK, BoxStates
<1>3. Circular <=> Waiting(deps)
  BY DEF Circular, Waiting
<1>4. OrderHonoursDependencies
  <2>1. bottle.there => Sorted(deps, bottle.order) /\ bottle.order \in Seq(Services)
    BY <1>1, EntryIs DEF EntryOK, BottleTyped
  <2>2. bottle.there => ~Waiting(deps) /\ Behind(deps, bottle.order)
    BY <2>1, SortedIsFree DEF Sorted
  <2>3. breq[Registrar].pc = "refused" => Waiting(deps) \/ \E s \in Services : Missing \in deps[s]
    BY <1>1 DEF RegInv
  <2> QED
    BY <1>3, <2>2, <2>3 DEF OrderHonoursDependencies, Behind
<1>5. RegisterAllOrNothing
  BY <1>1, NoneIn DEF RegInv, RegisterAllOrNothing, UndonePcs
<1>6. DeletedIsGone
  <2>1. ASSUME NEW u \in BottleUsers, breq[u].pc = "ok"
        PROVE  /\ breq[u].op = "delete" => ~bottle.there /\ ~bridge /\ policies = {} /\ \A s \in Services : boxes[s] = "none"
               /\ breq[u].op = "stop" /\ breq[u].solo => \A s \in Services : boxes[s] # "running"
    <3>1. CASE u = Registrar
      BY <1>1, <3>1 DEF RegInv
    <3>2. CASE u # Registrar
      BY <1>1, <2>1, <3>2, NoneIn DEF Actors, UserInv
    <3> QED
      BY <3>1, <3>2
  <2> QED
    BY <2>1 DEF DeletedIsGone
<1> QED
  BY <1>1, <1>2, <1>4, <1>5, <1>6 DEF BottleSound

\* A bottle is started behind its dependencies; a registration that fails
\* leaves no container, network or entry, and no policy unless it was the commit
\* of the policies that failed (it rolls nothing back), as long as no step of its
\* rollback failed, the removal of a started container among them; a Delete that
\* succeeds leaves nothing (internal/condenser/core/bottle/service.go: Register,
\* Create, Start, Stop, Delete), whatever the requests, for every set of services
\* and of dependencies.
THEOREM BottleStaysSound == BottleSpec => []BottleSound
<1>1. BottleInit => BottleInv
  BY BottleAssumption, BottleStarts
<1>2. BottleInv /\ [BottleNext]_bottleVars => BottleInv'
  BY BottleAssumption, BottleSteps
<1>3. BottleInv => BottleSound
  BY BottleAssumption, BottleInvSuffices
<1> QED
  BY <1>1, <1>2, <1>3, PTL DEF BottleSpec
=============================================================================
