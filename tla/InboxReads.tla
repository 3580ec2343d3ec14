----------------------------- MODULE InboxReads -----------------------------
(***************************************************************************)
(* What the dashboard reads: the history of a conversation, the list of    *)
(* conversations, the stream of events and the overview.  They share no    *)
(* state here, and a client is followed through one of them, with one      *)
(* initial state of the others.                                            *)
(***************************************************************************)
EXTENDS MessageHistory, ConversationList, InboxRealtime, Overview

VARIABLE surface   \* not in the code: what this client uses

inboxVars == <<historyVars, listVars, streamVars, overviewVars, surface>>

InboxTypeOK == HistoryTypeOK /\ ListTypeOK /\ StreamTypeOK /\ OverviewTypeOK

InboxInit ==
  /\ surface \in {"history", "list", "stream", "overview"}
  /\ HistoryInit /\ ListInit /\ StreamInit /\ OverviewInit
  /\ surface # "history" => reader.mode = "cursor"
  /\ surface # "list" => /\ ms = 1 /\ matches = {} /\ \A i \in Convos : lastMessageAt[i] = 0
                         /\ ~lister.search

InboxNext ==
  /\ UNCHANGED surface
  /\ \/ /\ surface = "history" /\ HistoryNext
        /\ UNCHANGED <<listVars, streamVars, overviewVars>>
     \/ /\ surface = "list" /\ ListNext
        /\ UNCHANGED <<historyVars, streamVars, overviewVars>>
     \/ /\ surface = "stream" /\ StreamNext
        /\ UNCHANGED <<historyVars, listVars, overviewVars>>
     \/ /\ surface = "overview" /\ OverviewNext
        /\ UNCHANGED <<historyVars, listVars, streamVars>>

(* The client asks for the next page until there is none.                  *)
InboxFairness ==
  WF_inboxVars(/\ surface = "history" /\ NextPage
          /\ UNCHANGED <<listVars, streamVars, overviewVars, surface>>)

InboxSpec == InboxInit /\ [][InboxNext]_inboxVars /\ InboxFairness
=============================================================================
