-------------------------------- MODULE Measure --------------------------------
(***************************************************************************)
(* The measurements of main in src/src/mctop.c: a first run crawls the     *)
(* latencies; a run with --augment loads them, skips the crawl and         *)
(* measures the bandwidth.                                                 *)
(***************************************************************************)
EXTENDS Crawl, MemBandwidth

measureVars == <<vars, bwVars>>

\* The threads of a crawl that is skipped are not created.
MeasureInit ==
  \/ Init /\ BwInit("skipped")
  \/ Unmeasured /\ pc = [t \in Threads |-> "end"] /\ BwInit("wait1")

\* main runs one of the two.
Augmenting == \E t \in BwThreads : bw_pc[t] # "skipped"
Joined == \A t \in BwThreads : bw_pc[t] = "joined"

MeasureNext ==
  \/ ~ Augmenting /\ Next /\ UNCHANGED bwVars
  \/ BwNext /\ UNCHANGED vars
  \/ Joined /\ UNCHANGED measureVars

MeasureSpec ==
  /\ MeasureInit /\ [][MeasureNext]_measureVars
  /\ \A t \in Threads : WF_measureVars(~ Augmenting /\ Step(t) /\ UNCHANGED bwVars)
  /\ WF_measureVars(~ Augmenting /\ Together /\ UNCHANGED bwVars)
  /\ \A t \in BwThreads : WF_measureVars(BwStep(t) /\ UNCHANGED vars)
  /\ WF_measureVars(BwTogether /\ UNCHANGED vars)
================================================================================
