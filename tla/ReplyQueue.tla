----------------------------- MODULE ReplyQueue -----------------------------
(***************************************************************************)
(* The BullMQ queue between the API and the ai-worker, one job per stored  *)
(* inbound message: AiQueueService.enqueueAutoReply fixes the job id and   *)
(* the number of attempts, the rest is BullMQ and the worker (both outside *)
(* this repository) as README and APP_FLOW_GUIDE describe their use.       *)
(***************************************************************************)
EXTENDS ConversationStore

CONSTANT MaxAttempts   \* attempts of a job before the fallback call

ASSUME QueueAssumption == MaxAttempts \in Nat \ {0}

VARIABLE queue

JobStates == {"absent",     \* never added
              "waiting",    \* added, or backing off before a retry
              "active",     \* the worker's call of auto-reply is running
              "exhausted",  \* all attempts failed; fallback call to be made
              "fallback",   \* the worker's call of fallback is running
              "completed",  \* an attempt returned
              "failed"}     \* the fallback call returned or failed

Job == [state : JobStates, failures : Nat]

QueueInit == queue = [m \in Inbounds |-> [state |-> "absent", failures |-> 0]]

QueueTypeOK == queue \in [Inbounds -> Job]

SetJob(m, s) == queue' = [queue EXCEPT ![m].state = s]

(* The job id is <tenant>_<message row id>: adding it again is a no-op.    *)
EnqueueAutoReply(m) ==
  IF queue[m].state = "absent" THEN SetJob(m, "waiting") ELSE UNCHANGED queue

(* Mutant: the attempt is not counted.                                     *)
FailAttemptUncounted(m) ==
  queue' = [queue EXCEPT ![m] =
              [state    |-> IF @.failures + 1 < MaxAttempts THEN "waiting"
                                                            ELSE "exhausted",
               failures |-> @.failures]]

(* Mutant: a retry is left in a state the worker never polls.              *)
FailAttemptDelayed(m) ==
  queue' = [queue EXCEPT ![m] = [state    |-> "delayed",
                                 failures |-> @.failures + 1]]

(* A thrown error counts as an attempt; the last one leaves the job failed *)
(* and the worker goes on to the fallback endpoint.                        *)
FailAttempt(m) ==
  queue' = [queue EXCEPT ![m] =
              [state    |-> IF @.failures + 1 < MaxAttempts THEN "waiting"
                                                            ELSE "exhausted",
               failures |-> @.failures + 1]]

Settled(m) == queue[m].state \in {"completed", "failed"}
=============================================================================
