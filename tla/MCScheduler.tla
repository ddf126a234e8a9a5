---------------------------- MODULE MCScheduler ----------------------------
(***************************************************************************)
(* Small instances of Scheduler and FairShare for TLC: the calls of one    *)
(* scheduler.  AllocateFairShare works on its arguments and reads neither  *)
(* the index nor the view, so a call is checked beside a scheduler that    *)
(* has just been built, and the index and Route after a call that had      *)
(* nothing to share.                                                       *)
(***************************************************************************)
EXTENDS Scheduler, FairShare, TLC

NothingToShare ==
  returned /\ total = 0 /\ \A t \in Tenant : demand[t] = 0 /\ weight[t] = 0

MCInit == Init /\ ShareInit

MCNext ==
  \/ Next /\ NothingToShare /\ UNCHANGED shareVars
  \/ ShareNext /\ UNCHANGED vars

\* The call of AllocateFairShare is a thread that runs.
MCSpec ==
  MCInit /\ [][MCNext]_<<vars, shareVars>> /\ WF_shareVars(ShareNext)

Up(load, mark) == [reachable |-> TRUE, load |-> load, high_water |-> mark]
Down(mark) == [reachable |-> FALSE, load |-> 0, high_water |-> mark]

\* Views of two nodes, each with a mark of its own (the first view of all lists
\* no node): one node listed, both below, the less loaded one at its mark and
\* the other below, both at their marks, one or both down.
TwoNodeViews ==
  {1 :> Up(0, 2), <<Up(1, 2), Up(0, 2)>>, <<Up(1, 1), Up(2, 3)>>,
   <<Up(3, 2), Up(1, 1)>>, <<Down(2), Up(2, 2)>>, <<Up(0, 1), Down(1)>>,
   <<Down(1), Down(2)>>}
=============================================================================
