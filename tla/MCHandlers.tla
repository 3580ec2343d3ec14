----------------------------- MODULE MCHandlers -----------------------------
(***************************************************************************)
(* Small instances of Registration, LeadCapture and ReplyRoutes for TLC:   *)
(* three calls, or three messages.  They share no state: a behaviour is    *)
(* one of a single component, and the others stay in an initial state.     *)
(***************************************************************************)
EXTENDS Registration, LeadCapture, ReplyRoutes, TLC

CONSTANTS x1, x2, x3, e1, e2, l1, w1, n1, a, q1

VARIABLE component   \* not in the code: the one that runs

Init ==
  /\ component \in {"registration", "leads", "routes"}
  /\ RegInit /\ LeadInit /\ RouteInit
  /\ component # "registration" => \A c, d \in Calls : call[c] = call[d]
  /\ component # "leads" => contact = Null /\ \A m \in Signals : capture[m].sender = Null
  /\ component # "routes" => \A m \in Msgs : said[m].kind = "remark"
  /\ Cardinality({m \in Msgs : said[m].kind \in {"greeting", "sensitive"}}) <= 1   \* bound

Next ==
  /\ UNCHANGED component
  /\ \/ component = "registration" /\ RegNext /\ UNCHANGED <<leadVars, routeVars>>
     \/ component = "leads" /\ LeadNext /\ UNCHANGED <<regVars, routeVars>>
     \/ component = "routes" /\ RouteNext /\ UNCHANGED <<regVars, leadVars>>

Spec == Init /\ [][Next]_<<component, regVars, leadVars, routeVars>>

(* The types of all three: a try beyond MaxTries, a slug beyond MaxSlug or *)
(* a lead without a status would break them (AttemptFails, TrySlug,        *)
(* SaveLead).                                                              *)
TypeOK == RegTypeOK /\ LeadTypeOK /\ RouteTypeOK

(* Bound: at most one of the messages is retried, unless all are about an  *)
(* order, which takes five tries to complete.                              *)
FewRetries ==
  \/ \A m \in Msgs : said[m].kind \in {"order", "orderAddress"}
  \/ Cardinality({m \in Msgs : attempt[m].tries # 0}) <= 1

Interchangeable == Permutations({x1, x2, x3}) \cup Permutations({e1, e2})
=============================================================================
