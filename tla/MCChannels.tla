----------------------------- MODULE MCChannels -----------------------------
(***************************************************************************)
(* Small instances of Channels for TLC.                                    *)
(***************************************************************************)
EXTENDS Channels, TLC

CONSTANTS t1, t2, n1, n2, r1, r2, f1, f2, f3, k1, k2, w1, h1

Interchangeable ==
  Permutations(Tenants) \cup Permutations(Numbers) \cup Permutations(Rows)
    \cup Permutations(Flows \ {f3}) \cup Permutations(Callbacks)

(* One number is connected for one tenant, again and again.                *)
OneNumber ==
  /\ Cardinality({oauth[f].tenant : f \in Flows} \ {None}) <= 1
  /\ Cardinality(({row[r].number : r \in Stored}
                    \cup {callback[k].number : k \in Callbacks}) \ {None}) <= 1

(* Bound: a third OAuth state is handed out only for such a number, before *)
(* any webhook looks a number up.                                          *)
ThirdStateReconnects ==
  f3 \in Flows /\ oauth[f3].tenant # None =>
    OneNumber /\ \A h \in Hooks : hook[h].pc = "idle"

(* Bound: two callbacks are at work at the same time only before a webhook *)
(* looks a number up and, with two numbers or tenants, while no disconnect *)
(* is at work.                                                             *)
CallbacksOverlapEarly ==
  (\A k \in Callbacks : callback[k].pc # "idle") =>
    /\ OneNumber \/ \A w \in Clerks : clerk[w] = NoCopy
    /\ \A h \in Hooks : hook[h].pc = "idle"
=============================================================================
