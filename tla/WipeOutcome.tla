---------------------------- MODULE WipeOutcome ----------------------------
(***************************************************************************)
(* What the operator may rely on about the previews of a wipe, without     *)
(* requests, files, nonces or saves.  A preview is shown once, with its    *)
(* number of items, none of which is sent if the preview was blocked.      *)
(* While it is being executed its items are sent one by one, in the order  *)
(* shown, each of them once.  A wipe that is over sends nothing more,      *)
(* whatever is executed again.  From any stage the outcome may become      *)
(* unknown, and then nothing is promised.  Previews do not depend on one   *)
(* another.                                                                *)
(***************************************************************************)
EXTENDS Naturals

CONSTANT Previews

VARIABLE wipe

New == [stage |-> "new", size |-> 0, sent |-> {}]
Unknown == [stage |-> "unknown", size |-> 0, sent |-> {}]

Init == wipe = [p \in Previews |-> New]

(* The moves of one preview, from v to w. *)
Show(v, w) ==
    /\ v = New
    /\ w.stage = "shown" /\ w.size \in Nat /\ w.sent = {}

SendNext(v, w) ==
    /\ v.stage \in {"shown", "sending"} /\ w.stage \in {"sending", "over"}
    /\ w.size = v.size
    /\ \E i \in (1 .. v.size) \ v.sent :
           1 .. i - 1 \subseteq v.sent /\ w.sent = v.sent \union {i}

End(v, w) == v.stage = "sending" /\ w = [v EXCEPT !.stage = "over"]

Forget(v, w) == w = Unknown

Next ==
    \A p \in Previews :
        \/ UNCHANGED wipe[p]
        \/ Show(wipe[p], wipe'[p]) \/ SendNext(wipe[p], wipe'[p])
        \/ End(wipe[p], wipe'[p]) \/ Forget(wipe[p], wipe'[p])

Spec == Init /\ [][Next]_wipe
=============================================================================
