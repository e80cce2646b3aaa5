----------------------------- MODULE LockedStore ----------------------------
(***************************************************************************)
(* What a store promises its callers: every operation takes effect at once  *)
(* or not at all, in some order between its call and its return, and a      *)
(* crash keeps the content.  A loss of power may take it back to what it    *)
(* was when it last reached the disk for sure, never to anything else.      *)
(***************************************************************************)
EXTENDS Integers

CONSTANTS Callers, Operations, Outcome(_, _, _)   \* [content, got] of an operation on a content, in a kind of store

VARIABLES content, saved, call, kind
lsVars == <<content, saved, call, kind>>

NoCall == [pc |-> "idle"]
LSInit ==
    /\ saved = content
    /\ call = [w \in Callers |-> NoCall]

LSCall(w, op) ==
    /\ call[w] = NoCall
    /\ call' = [call EXCEPT ![w] = [pc |-> "called", op |-> op]]
    /\ UNCHANGED <<content, saved, kind>>

\* The operation takes effect; its caller will learn what it got.
LSApply(w) ==
    /\ call[w].pc = "called"
    /\ LET out == Outcome(kind, content, call[w].op)
       IN /\ content' = out.content
          /\ call' = [call EXCEPT ![w] = [pc |-> "returns", got |-> out.got]]
    /\ UNCHANGED <<saved, kind>>

\* A store that works on its file once more afterwards may still tell of an
\* error, although the operation has taken effect.
LSLateError(w) ==
    /\ kind.private /\ call[w].pc = "returns"
    /\ call' = [call EXCEPT ![w].got = "error"]
    /\ UNCHANGED <<content, saved, kind>>

LSFail(w) ==
    /\ call[w].pc = "called"
    /\ call' = [call EXCEPT ![w] = [pc |-> "returns", got |-> "error"]]
    /\ UNCHANGED <<content, saved, kind>>

LSReturn(w) ==
    /\ call[w].pc = "returns"
    /\ call' = [call EXCEPT ![w] = NoCall]
    /\ UNCHANGED <<content, saved, kind>>

LSSettle == saved' = content /\ UNCHANGED <<content, call, kind>>

LSCrash ==
    /\ call' = [w \in Callers |-> NoCall]
    /\ content' \in {content, saved} /\ saved' \in {saved, content'}
    /\ UNCHANGED kind

LSNext ==
    \/ \E w \in Callers : (\E op \in Operations : LSCall(w, op)) \/ LSApply(w) \/ LSFail(w) \/ LSLateError(w) \/ LSReturn(w)
    \/ LSSettle \/ LSCrash

LSSpec == LSInit /\ [][LSNext]_lsVars
=============================================================================
