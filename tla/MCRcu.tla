------------------------------- MODULE MCRcu -------------------------------
(***************************************************************************)
(* TLC instances of Rcu: the reader threads as model values, the slot       *)
(* layouts of the deployments that are checked, and the restrictions that   *)
(* keep the instances small.                                                *)
(***************************************************************************)
EXTENDS Rcu, TLC

CONSTANTS w1, w2, h1, h2, admin

\* ControlPlane reads with slot max_readers - 3 on the admin thread.
AdminSlot == [r \in {admin} |-> MaxReaders - 3]

\* The same reader in a domain with no spare slots behind it.
AdminLastSlot == [r \in {admin} |-> MaxReaders - 1]

\* A second situation, later in the life of the server: idle threads hold all
\* slots but the first, and the admin thread has ended.
OneFreeSlot ==
  /\ current = 1 /\ newest = 1 /\ globalEpoch = 2 /\ ownEpoch = 2
  /\ slotEpoch = [s \in Slots |-> kQuiescent]
  /\ inUse = [s \in Slots |-> s # 0]
  /\ rpc = [r \in Readers |-> IF r \in Workers THEN "registering" ELSE "done"]
  /\ mySlot = [r \in Readers |-> IF r \in Workers THEN 0 ELSE ControlSlot[r]]
  /\ myEpoch = [r \in Readers |-> 2]
  /\ held = [r \in Readers |-> 0] /\ buffer = [r \in Readers |-> <<>>]
  /\ wpc = "idle" /\ writes = <<>> /\ old = 0 /\ idx = 0 /\ quiesced = TRUE
  /\ retired = {} /\ frees = [n \in Snapshots |-> 0]

\* Three reloads where one slot changes hands, one where all are in play.  No
\* fairness is owed to the reload that is cut off.
FewReloads == inUse[MaxReaders - 1] \/ newest' <= 2

TwoSituations ==
  /\ Init \/ OneFreeSlot
  /\ [][Next /\ FewReloads]_vars
  /\ Fairness

\* Behaviours of Spec in which every worker but h2 registers and then stays
\* idle: enough to show what one shared slot does.
BystandersIdle == \A r \in Workers \ {h2} : rpc'[r] \in {"registering", "idle"}
SharedSlotSpec == Init /\ [][Next /\ BystandersIdle]_vars
=============================================================================
