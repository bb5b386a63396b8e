----------------------------- MODULE MCConversations -----------------------------
(* What the Router remembers of a task, each part by itself: the turns that    *)
(* are relayed and observed, the summaries of a migration, and the memory over *)
(* the archive.  Three turns, or three requests for two destinations, which    *)
(* share their names; one key of each kind.                                    *)
EXTENDS OfficialRelay, SummaryJob, StateStore

VARIABLE machine

relayed == <<machine, relayVars>>
summed == <<machine, summaryVars>>
remembered == <<machine, stateVars>>
all == <<relayed, summed, remembered>>

SideInit ==
  /\ machine \in {"relay", "summary", "state"}
  /\ RelayInit /\ SummaryInit /\ StateInit

SideNext ==
  \/ machine = "relay" /\ RelayNext /\ UNCHANGED <<summed, remembered>>
  \/ machine = "summary" /\ SummaryNext /\ UNCHANGED <<relayed, remembered>>
  \/ machine = "state" /\ StateNext /\ UNCHANGED <<relayed, summed>>

SideSpec == SideInit /\ [][SideNext]_all

\* The turns are alike, and so are the requests, which bear the same names here.
Alike == Permutations(Turn)
=============================================================================
