------------------------------- MODULE Attach -------------------------------
(***************************************************************************)
(* Attaching to a terminal: clients, the websocket relay of the daemon, and *)
(* the shims that own the terminals and listen on a socket path that all    *)
(* execs of a container share.  raind's client writes a frame as one        *)
(* message; droplet's own client connects to the socket and writes header   *)
(* and payload separately, from the keyboard's and the window's goroutine.  *)
(***************************************************************************)
EXTENDS Naturals, Sequences, SequencesExt

CONSTANTS
    Clients, Droplets,  \* all clients; those that are droplet's own
    Shims,              \* shims with a terminal, on one socket path
    MaxInputs, MaxTries, MaxKills   \* bounds: keys and window changes, dials, kills

Free == "none"

ASSUME AttachAssumption == Free \notin Shims \cup Clients /\ Droplets \subseteq Clients

VARIABLES
    sock,      \* the shim the socket path leads to
    term,      \* shim -> where it is
    met,       \* history: shims that ran at the same time as another, or after a kill
    hub,       \* shim -> the client whose connection it holds
    order,     \* history: shim -> clients in the order they were accepted
    cl,        \* client -> where it is, the shim it is connected to, ctrl-p, tries
    keys,      \* history: client -> keys typed, but for a kept back ctrl-p
    half,      \* client -> writer -> payload of a frame whose header is out
    wire,      \* client -> tokens under way
    rd,        \* client -> type of the frame the shim is reading, or "hdr"
    typed,     \* client -> keys that reached the terminal
    inputs, kills
atVars == <<sock, term, met, hub, order, cl, keys, half, wire, rd, typed, inputs, kills>>

Keys == {"a", "P", "Q"}   \* any key, and the two of the detach sequence
Header(t) == [tok |-> "hdr", t |-> t, v |-> "-"]
Payload(t, v) == [tok |-> "pay", t |-> t, v |-> v]

AttachTypeOK ==
    /\ sock \in Shims \cup {Free}
    /\ term \in [Shims -> {"idle", "removed", "serving", "ended", "failed", "killed"}]
    /\ hub \in [Shims -> Clients \cup {Free}]
    /\ \A x \in Clients : cl[x].st \in {"off", "dialing", "on", "closed"} /\ rd[x] \in {"hdr", "data", "resize"}

AttachInit ==
    /\ sock = Free /\ term = [h \in Shims |-> "idle"] /\ met = {}
    /\ hub = [h \in Shims |-> Free] /\ order = [h \in Shims |-> <<>>]
    /\ cl = [x \in Clients |-> [st |-> "off", to |-> Free, p |-> FALSE, tries |-> 0]]
    /\ keys = [x \in Clients |-> <<>>] /\ half = [x \in Clients |-> [w \in {"key", "win"} |-> "none"]]
    /\ wire = [x \in Clients |-> <<>>] /\ rd = [x \in Clients |-> "hdr"] /\ typed = [x \in Clients |-> <<>>]
    /\ inputs = 0 /\ kills = 0

streams == <<keys, half, wire, rd, typed, inputs>>
Active == {h \in Shims : term[h] \in {"removed", "serving"}}

-----------------------------------------------------------------------------
(***************************************************************************)
(* A shim: remove the old socket, listen, serve, close and remove.          *)
(***************************************************************************)
RemoveOldSocket(h) ==
    /\ term[h] = "idle"
    /\ sock' = Free
    /\ term' = [term EXCEPT ![h] = "removed"]
    /\ met' = IF Active = {} THEN met ELSE met \cup Active \cup {h}
    /\ UNCHANGED <<hub, order, cl, streams, kills>>

Listen(h) ==
    /\ term[h] = "removed"
    /\ IF sock = Free THEN sock' = h /\ term' = [term EXCEPT ![h] = "serving"]
       ELSE term' = [term EXCEPT ![h] = "failed"] /\ sock' = Free
    /\ UNCHANGED <<met, hub, order, cl, streams, kills>>

\* The command ends: the listener is closed and the path unlinked, whoever
\* listens there by now; the connections end with the process.
Closed(x) == [cl[x] EXCEPT !.st = "closed"]
Lost(X) ==
    /\ wire' = [x \in Clients |-> IF x \in X THEN <<>> ELSE wire[x]]
    /\ half' = [x \in Clients |-> IF x \in X THEN [w \in {"key", "win"} |-> "none"] ELSE half[x]]
    /\ rd' = [x \in Clients |-> IF x \in X THEN "hdr" ELSE rd[x]]
Drop(X) == cl' = [x \in Clients |-> IF x \in X THEN Closed(x) ELSE cl[x]] /\ Lost(X)
On(h) == {x \in Clients : cl[x].to = h /\ cl[x].st = "on"}
EndShim(h) ==
    /\ term[h] = "serving"
    /\ sock' = Free /\ term' = [term EXCEPT ![h] = "ended"]
    /\ hub' = [hub EXCEPT ![h] = Free] /\ Drop(On(h))
    /\ UNCHANGED <<met, order, keys, typed, inputs, kills>>

KillShim(h) ==
    /\ term[h] = "serving" /\ kills < MaxKills
    /\ term' = [term EXCEPT ![h] = "killed"] /\ kills' = kills + 1
    /\ hub' = [hub EXCEPT ![h] = Free] /\ Drop(On(h))
    /\ UNCHANGED <<sock, met, order, keys, typed, inputs>>

-----------------------------------------------------------------------------
(***************************************************************************)
(* Connecting and leaving                                                   *)
(***************************************************************************)
Connect(x) ==
    /\ cl[x].st = "off"
    /\ cl' = [cl EXCEPT ![x].st = "dialing"]
    /\ UNCHANGED <<sock, term, met, hub, order, streams, kills>>

\* The relay dials until a deadline; a path nobody listens on is tried again.
\* An accepted connection replaces the one before, which is closed.
Dial(x) ==
    /\ cl[x].st = "dialing" /\ sock # Free
    /\ term[sock] = "serving"
    /\ cl' = [y \in Clients |-> IF y = x THEN [cl[x] EXCEPT !.st = "on", !.to = sock]
                                ELSE IF y = hub[sock] THEN Closed(y) ELSE cl[y]]
    /\ Lost({hub[sock]} \ {Free})
    /\ hub' = [hub EXCEPT ![sock] = x] /\ order' = [order EXCEPT ![sock] = Append(@, x)]
    /\ UNCHANGED <<sock, term, met, keys, typed, inputs, kills>>

DialAgain(x) ==
    /\ cl[x].st = "dialing" /\ (sock = Free \/ (IF sock = Free THEN FALSE ELSE term[sock] # "serving"))
    /\ cl' = [cl EXCEPT ![x].tries = @ + 1,
                        ![x].st = IF x \in Droplets \/ cl[x].tries + 1 >= MaxTries THEN "closed" ELSE "dialing"]
    /\ UNCHANGED <<sock, term, met, hub, order, streams, kills>>

\* The term's reader of a closed connection returns and detaches.
Detach(x) ==
    /\ cl[x].st = "closed" /\ cl[x].to # Free
    /\ hub' = [hub EXCEPT ![cl[x].to] = IF @ = x THEN Free ELSE @]
    /\ cl' = [cl EXCEPT ![x].to = Free]
    /\ UNCHANGED <<sock, term, met, order, streams, kills>>

-----------------------------------------------------------------------------
(***************************************************************************)
(* The stream from keyboard and window to the terminal                      *)
(***************************************************************************)
\* Mutant: raind's client too writes header and payload one after the other.
SplitFrame(x, w, t, v) ==
    /\ wire' = [wire EXCEPT ![x] = Append(@, Header(t))]
    /\ half' = [half EXCEPT ![x][w] = v]

WriteFrame(x, w, t, v) ==
    IF x \in Droplets
    THEN wire' = [wire EXCEPT ![x] = Append(@, Header(t))] /\ half' = [half EXCEPT ![x][w] = v]
    ELSE wire' = [wire EXCEPT ![x] = @ \o <<Header(t), Payload(t, v)>>] /\ UNCHANGED half

WritePayload(x, w) ==
    /\ cl[x].st = "on" /\ half[x][w] # "none"
    /\ wire' = [wire EXCEPT ![x] = Append(@, Payload(IF w = "key" THEN "data" ELSE "resize", half[x][w]))]
    /\ half' = [half EXCEPT ![x][w] = "none"]
    /\ UNCHANGED <<sock, term, met, hub, order, cl, keys, rd, typed, inputs, kills>>

\* Ctrl-P is kept back; Ctrl-Q after it detaches (raind's client only).
Key(x, b) ==
    /\ cl[x].st = "on" /\ half[x]["key"] = "none" /\ inputs < MaxInputs
    /\ inputs' = inputs + 1
    /\ keys' = IF x \notin Droplets /\ b = "P" THEN keys ELSE [keys EXCEPT ![x] = Append(@, b)]
    /\ IF x \notin Droplets /\ b = "P" THEN cl' = [cl EXCEPT ![x].p = TRUE] /\ UNCHANGED <<wire, half, rd>>
       ELSE IF x \notin Droplets /\ b = "Q" /\ cl[x].p THEN cl' = [cl EXCEPT ![x] = Closed(x)] /\ Lost({x})
       ELSE cl' = [cl EXCEPT ![x].p = FALSE] /\ WriteFrame(x, "key", "data", b) /\ UNCHANGED rd
    /\ UNCHANGED <<sock, term, met, hub, order, typed, kills>>

Resize(x) ==
    /\ cl[x].st = "on" /\ half[x]["win"] = "none" /\ inputs < MaxInputs
    /\ inputs' = inputs + 1
    /\ WriteFrame(x, "win", "resize", "r")
    /\ UNCHANGED <<sock, term, met, hub, order, cl, keys, rd, typed, kills>>

\* ReadFramesAndApply takes what comes after a header as its payload.
ReadToken(x) ==
    /\ cl[x].st = "on" /\ wire[x] # <<>>
    /\ wire' = [wire EXCEPT ![x] = Tail(@)]
    /\ IF rd[x] = "hdr"
       THEN rd' = [rd EXCEPT ![x] = Head(wire[x]).t] /\ UNCHANGED typed
       ELSE /\ rd' = [rd EXCEPT ![x] = "hdr"]
            /\ typed' = IF rd[x] = "data" THEN [typed EXCEPT ![x] = Append(@, Head(wire[x]).v)] ELSE typed
    /\ UNCHANGED <<sock, term, met, hub, order, cl, keys, half, inputs, kills>>

AttachNext ==
    \/ \E h \in Shims : RemoveOldSocket(h) \/ Listen(h) \/ EndShim(h) \/ KillShim(h)
    \/ \E x \in Clients : Connect(x) \/ Dial(x) \/ DialAgain(x) \/ Detach(x) \/ Resize(x) \/ ReadToken(x)
    \/ \E x \in Clients, b \in Keys : Key(x, b)
    \/ \E x \in Clients, w \in {"key", "win"} : WritePayload(x, w)

AttachSpec == AttachInit /\ [][AttachNext]_atVars

-----------------------------------------------------------------------------
\* The connection a shim holds is the newest it accepted, for as long as that
\* one is open: an older connection that ends later takes nothing away.
NewestAttached ==
    \A h \in Shims : order[h] # <<>> /\ cl[Last(order[h])].st = "on" /\ cl[Last(order[h])].to = h => hub[h] = Last(order[h])

\* What a raind client types reaches the terminal in order and unchanged,
\* window changes and detach keys aside.
StreamFramed ==
    \A x \in Clients \ Droplets : IsPrefix(typed[x], keys[x])

\* A terminal whose shim never ran beside another of the container is
\* reachable at the socket path, also when an earlier shim was killed there.
LoneShimReachable ==
    \A h \in Shims \ met : term[h] # "failed" /\ (term[h] = "serving" => sock = h)

\* The console of a container through attaches, detaches and shims that die:
\* the newest client is served, frames stay whole, a shim alone is reachable.
AttachSound == AttachTypeOK /\ NewestAttached /\ StreamFramed /\ LoneShimReachable
=============================================================================
