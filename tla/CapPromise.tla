----------------------------- MODULE CapPromise -----------------------------
(* What sjpd promises of the caps of a QOS: they are raised only when their  *)
(* base is on record, by one step, and come back to base.  How it decides,   *)
(* and which of its threads or runs does it, is not part of the promise.     *)
CONSTANTS base, raised, None

VARIABLES caps, disk

vars == <<caps, disk>>

Init == caps = base /\ disk = None

(* The base is written down, or struck, while it is the caps in force.       *)
Note == caps = base /\ disk' \in {base, None} /\ UNCHANGED caps

Raise == caps = base /\ disk = base /\ caps' = raised /\ UNCHANGED disk

Restore == caps = raised /\ caps' = base /\ UNCHANGED disk

Next == Note \/ Raise \/ Restore

Spec == Init /\ [][Next]_vars /\ WF_vars(Restore)
=============================================================================
