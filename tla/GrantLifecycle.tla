--------------------------- MODULE GrantLifecycle ---------------------------
(***************************************************************************)
(* What the persisted grants promise of a handle, seen from outside: it is *)
(* drawn once, and from then on only loses strength.  A one-time handle    *)
(* that was consumed or removed is never fresh again; only a handle that   *)
(* is rewritten in place (usage ReUse with a sliding expiration) may come  *)
(* back after its removal.                                                 *)
(***************************************************************************)
CONSTANT Handles

VARIABLE life     \* per handle: how it may be used, and its state

Modes  == {"oneTime", "rewritten"}
States == {"fresh", "consumed", "gone"}
Unborn == [mode |-> "none", state |-> "unborn"]

Init == life = [h \in Handles |-> Unborn]

Become(h, mode, state) == life' = [life EXCEPT ![h] = [mode |-> mode, state |-> state]]

Draw(h, mode) == life[h] = Unborn /\ Become(h, mode, "fresh")

\* The entry of a one-time handle is written back as consumed, even if it was
\* removed since it was read.
Consume(h) == /\ life[h] # Unborn /\ life[h].mode = "oneTime"
              /\ Become(h, "oneTime", "consumed")

Remove(h) == life[h] # Unborn /\ Become(h, life[h].mode, "gone")

Rewrite(h) == /\ life[h] # Unborn /\ life[h].mode = "rewritten"
              /\ Become(h, "rewritten", "fresh")

Next == \E h \in Handles :
           \/ \E mode \in Modes : Draw(h, mode)
           \/ Consume(h) \/ Remove(h) \/ Rewrite(h)

Spec == Init /\ [][Next]_life

=============================================================================
