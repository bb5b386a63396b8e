----------------------------- MODULE HistoryLog -----------------------------
(***************************************************************************)
(* What the task archive promises about a conversation: every branch is a  *)
(* log of whole histories, each the original items and the view the next   *)
(* model sees.  A history is added behind all the others, once for each    *)
(* response, and never changes afterwards; only a prune takes histories    *)
(* away.                                                                   *)
(***************************************************************************)
EXTENDS Integers, FiniteSetsExt

CONSTANTS Branch,   \* the branches of one account's conversations
          History,  \* the histories a call may save: [original, view]
          None      \* stands for "no response id"

VARIABLE log        \* for each branch, the histories kept, by their version

LogInit == log = [b \in Branch |-> <<>>]

\* Histories are added, as they were given, numbered on from the last one.
Added(old, later) ==
  LET new == DOMAIN later \ DOMAIN old
  IN /\ new # {}
     /\ new = Max(DOMAIN old \cup {0}) + 1 .. Max(new)
     /\ \A v \in DOMAIN old : later[v] = old[v]
     /\ \A v \in new : [original |-> later[v].original, view |-> later[v].view] \in History
     /\ \A v \in new, w \in DOMAIN later :
          v # w => \/ later[v].response = None
                   \/ later[v].response # later[w].response

\* Some histories are taken away; those left are as they were.
Dropped(old, later) ==
  /\ DOMAIN later \subseteq DOMAIN old
  /\ \A v \in DOMAIN later : later[v] = old[v]

LogNext ==
  LET old == log
      later == log'
  IN \E b \in Branch :
       /\ Added(old[b], later[b]) \/ Dropped(old[b], later[b])
       /\ \A c \in Branch \ {b} : later[c] = old[c]

LogSpec == LogInit /\ [][LogNext]_log
=============================================================================
