------------------------------- MODULE MCInit -------------------------------
(***************************************************************************)
(* Model-checking instance of what droplet does inside a container:         *)
(* InitProcess, RootMounts, ShiftedLayers and Attach.  They share no        *)
(* variable, so a behaviour runs one of them.                               *)
(***************************************************************************)
EXTENDS InitProcess, RootMounts, ShiftedLayers, Attach

CONSTANTS x1, x2, x3, m1, m2, d1, h1, h2
VARIABLE scene

All == {"setuid", "resource", "admin", "raw"}
Default == {"setuid", "raw"}
Plain == [profile |-> "default", add |-> {}, drop |-> {}, new |-> {"mount", "network", "uts", "pid"}, paths |-> {},
          rootless |-> FALSE, uid |-> 0, ro |-> FALSE, raise |-> FALSE]
\* A plain container, a hardened one, a member of a pod, rootless ones, a
\* privileged one, and two the stages cannot satisfy.
MCOptions ==
    {Plain,
     [Plain EXCEPT !.profile = "deploy", !.add = {"raw", "resource"}, !.drop = {"raw"}, !.ro = TRUE, !.uid = 1, !.raise = TRUE],
     [Plain EXCEPT !.paths = {"network", "uts", "pid"}, !.profile = "dev"],
     [Plain EXCEPT !.paths = {"network", "uts"}, !.rootless = TRUE],
     [Plain EXCEPT !.paths = {"network", "pid"}, !.rootless = TRUE],
     [Plain EXCEPT !.paths = {"network", "user"}, !.rootless = TRUE],
     [Plain EXCEPT !.rootless = TRUE, !.profile = "unconfined", !.ro = TRUE],
     [Plain EXCEPT !.profile = "privileged", !.drop = {"admin"}, !.new = {"mount"}, !.paths = {"user"}],
     [Plain EXCEPT !.profile = "restricted", !.uid = 1],
     [Plain EXCEPT !.raise = TRUE]}

User(dst, kind, src, ro, dev) == [dst |-> dst, kind |-> kind, src |-> src, ro |-> ro, dev |-> dev, bad |-> FALSE, by |-> "user"]
Vol == User(<<"data">>, "bind", "dir", TRUE, FALSE)
Image == {<<"proc">>, <<"sys">>, <<"dev">>, <<"tmp">>, <<"run">>, <<"etc">>}
Web == [oci |-> FALSE, prejoined |-> FALSE, managed |-> TRUE, user |-> <<Vol>>, masked |-> <<<<"proc", "kcore">>>>,
        readonly |-> <<<<"proc">>>>, devices |-> <<>>, image |-> Image, ro |-> TRUE]
\* User mounts that nest, climb, repeat a guarded directory or a device, and
\* bundles that bring all of their mounts.
MCBundles ==
    {Web,
     [Web EXCEPT !.user = <<Vol, User(<<"data">>, "bind", "dir", FALSE, FALSE), User(<<"data", "..", "srv">>, "bind", "file", TRUE, FALSE)>>,
                 !.masked = <<<<"proc", "kcore">>, <<"data">>, <<"proc", "none">>, <<"opt">>>>, !.readonly = <<<<"data">>, <<"gone">>>>],
     [Web EXCEPT !.user = <<User(<<"a", "..", "..", "b">>, "bind", "dir", FALSE, FALSE)>>],
     [Web EXCEPT !.user = <<User(<<"proc", "x">>, "bind", "dir", FALSE, FALSE)>>],
     [Web EXCEPT !.user = <<User(<<"proc", "kcore">>, "bind", "dir", FALSE, FALSE)>>, !.managed = FALSE],
     [Web EXCEPT !.user = <<User(<<"dev", "fuse">>, "bind", "denied", FALSE, TRUE)>>, !.devices = <<<<"dev", "kvm">>>>],
     [Web EXCEPT !.user = <<User(<<"dev">>, "disk", "none", FALSE, FALSE)>>, !.devices = <<<<"dev", "null">>>>],
     [Web EXCEPT !.prejoined = TRUE, !.managed = FALSE, !.user = <<User(<<"vol">>, "bind", "link", FALSE, FALSE)>>],
     [Web EXCEPT !.prejoined = TRUE, !.masked = <<<<"sys", "fw">>, <<"..">>>>],
     [Web EXCEPT !.oci = TRUE, !.user = <<User(<<"proc">>, "kernel", "none", FALSE, FALSE), User(<<"sys">>, "kernel", "none", TRUE, FALSE)>>,
                 !.masked = <<<<"proc", "kcore">>, <<"sys", "firmware">>>>, !.readonly = <<<<"sys">>, <<"proc">>>>],
     [Web EXCEPT !.oci = TRUE, !.user = <<>>, !.image = {}],
     [Web EXCEPT !.readonly = <<<<"..", "etc">>>>, !.image = Image \cup {<<"put_old">>}],
     [Web EXCEPT !.user = <<User(<<"dev">>, "disk", "none", TRUE, FALSE)>>],
     [Web EXCEPT !.image = Image \cup {<<"put_old">>}]}
MCKernelPaths == {<<"proc", "kcore">>, <<"proc", "sys">>, <<"proc", "sysrq">>, <<"sys", "firmware">>, <<"sys", "bpf">>, <<"sys", "cgroup">>}

MCPolicies == {[mode |-> "login", base |-> 10, root |-> 5, size |-> 4], [mode |-> "shifted", base |-> 10, root |-> 10, size |-> 4],
               [mode |-> "login", base |-> 10, root |-> 5, size |-> 1]}

MCInitial ==
    /\ scene \in {"init", "mounts", "layers", "attach"}
    /\ InitInit /\ RootMountsInit /\ ShiftInit /\ AttachInit
    /\ scene # "init" => opt = Plain /\ mode = "run" /\ pidfile = "none"
    /\ scene # "mounts" => bundle = Web
    /\ scene # "layers" => policy.mode = "shifted"

MCNext ==
    /\ UNCHANGED scene
    /\ \/ scene = "init" /\ InitNext /\ UNCHANGED <<rmVars, shVars, atVars>>
       \/ scene = "mounts" /\ RootMountsNext /\ UNCHANGED <<initVars, shVars, atVars>>
       \/ scene = "layers" /\ ShiftNext /\ UNCHANGED <<initVars, rmVars, atVars>>
       \/ scene = "attach" /\ AttachNext /\ UNCHANGED <<initVars, rmVars, shVars>>

MCSpec == MCInitial /\ [][MCNext]_<<initVars, rmVars, shVars, atVars, scene>>
          /\ WF_initVars(scene = "init" /\ CreateStep) /\ WF_initVars(scene = "init" /\ ShimSetup)
          /\ WF_initVars(scene = "init" /\ InitStep) /\ WF_initVars(scene = "init" /\ StartContainer)

\* FeasibleStarts in the behaviours that run the init process.
FeasibleContainerStarts == scene = "init" => FeasibleStarts
=============================================================================
