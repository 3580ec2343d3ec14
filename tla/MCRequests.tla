----------------------------- MODULE MCRequests -----------------------------
(***************************************************************************)
(* A small instance of InboxReads and of TenantPool for TLC.  They share   *)
(* no state: a behaviour is one of either, and the other component stays   *)
(* in one initial state.  There are more messages than two pages hold, in  *)
(* fewer milliseconds than messages; three conversations, one a page;      *)
(* three deliveries; two messages for the overview.                        *)
(***************************************************************************)
EXTENDS InboxReads, TenantPool

CONSTANTS i1, i2, i3, t1, t2, k1, k2, c1, c2, d1, d2, d3

VARIABLE component   \* not in the code: the one that runs

Init ==
  /\ component \in {"reads", "pool"}
  /\ InboxInit /\ PoolInit
  /\ component = "reads" => /\ \A c \in Calls : call[c].key = k1
                            /\ \A d \in DataSources : ds[d].key = k1
  /\ component = "pool" => surface = "stream"

Next ==
  /\ UNCHANGED component
  /\ \/ component = "reads" /\ InboxNext /\ UNCHANGED poolVars
     \/ component = "pool" /\ PoolNext /\ UNCHANGED inboxVars

Spec == Init /\ [][Next]_<<component, inboxVars, poolVars>>

(* Each component's own fairness; the one that stays has no step to take.  *)
FairSpec == Spec /\ InboxFairness /\ WF_poolVars(CloseStep)
=============================================================================
