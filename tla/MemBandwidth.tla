----------------------------- MODULE MemBandwidth -----------------------------
(***************************************************************************)
(* The measurement of memory bandwidth of src/src/mctop.c: the threads of  *)
(* one socket (mem_bandwidth) measure the bandwidth to every node, for     *)
(* every socket they are moved to: first thread 0 alone, then all at once. *)
(* They start together by a counter they spin on (mini_barrier); thread 0  *)
(* sets it back.  A round is one socket and one node.  What is measured is *)
(* the round, and whether all threads were at it.                          *)
(***************************************************************************)
EXTENDS Integers, FiniteSets

CONSTANTS
  NumBwThreads,     \* test_num_mem_bw_threads: the contexts of a socket
  Rounds            \* sockets times nodes

ASSUME BwAssumption == NumBwThreads \in Nat \ {0} /\ Rounds \in Nat \ {0}

BwThreads == 0..NumBwThreads - 1

VARIABLES
  bw_pc, round,     \* of each thread
  mem_bw_barrier,   \* the counter
  mem_bw_gbps,      \* what each thread has measured last
  mem_bw_table1,    \* by round, what thread 0 has measured alone
  mem_bw_table      \* by round, what thread 0 has added up

bwVars == <<bw_pc, round, mem_bw_barrier, mem_bw_gbps, mem_bw_table1, mem_bw_table>>

\* main has created the threads, or does not measure bandwidth.
BwInit(pc) ==
  /\ bw_pc = [t \in BwThreads |-> pc]
  /\ round = [t \in BwThreads |-> 1]
  /\ mem_bw_barrier = 0
  /\ mem_bw_gbps = [t \in BwThreads |-> << >>]
  /\ mem_bw_table1 = [r \in 1..Rounds |-> << >>]
  /\ mem_bw_table = [r \in 1..Rounds |-> {}]

BwGoto(t, to) == bw_pc' = [bw_pc EXCEPT ![t] = to]

\* pthread_barrier_wait: all threads pass together; where thread t goes from there.
AfterBwWait(t) ==
  CASE bw_pc[t] = "wait1" -> IF t = 0 THEN "alone" ELSE "wait2"
    [] bw_pc[t] = "wait2" -> "arrive"
    [] bw_pc[t] = "wait3" -> IF t = 0 THEN "sum" ELSE "next"

BwWait(at) ==
  /\ \A t \in BwThreads : bw_pc[t] = at
  /\ bw_pc' = [t \in BwThreads |-> AfterBwWait(t)]
  /\ UNCHANGED <<round, mem_bw_barrier, mem_bw_gbps, mem_bw_table1, mem_bw_table>>

Alone ==
  /\ bw_pc[0] = "alone"
  /\ BwGoto(0, "wait2")
  /\ mem_bw_table1' = [mem_bw_table1 EXCEPT
                         ![round[0]] = <<round[0], \A t \in BwThreads \ {0} : bw_pc[t] = "wait2">>]
  /\ UNCHANGED <<round, mem_bw_barrier, mem_bw_gbps, mem_bw_table>>

\* mini_barrier: IAF_U32, then spin until the counter reads n.
MiniArrive(t) ==
  /\ bw_pc[t] = "arrive"
  /\ BwGoto(t, "spin")
  /\ mem_bw_barrier' = mem_bw_barrier + 1
  /\ UNCHANGED <<round, mem_bw_gbps, mem_bw_table1, mem_bw_table>>

MiniPass(t) ==
  /\ bw_pc[t] = "spin"
  /\ mem_bw_barrier = NumBwThreads
  /\ BwGoto(t, "measure")
  /\ UNCHANGED <<round, mem_bw_barrier, mem_bw_gbps, mem_bw_table1, mem_bw_table>>

AllAtIt(r) == \A t \in BwThreads : bw_pc[t] \in {"spin", "measure", "wait3"} /\ round[t] = r

\* Mutant of Estimate: thread 0 sets the counter back as soon as it has measured.
EstimateAndReset(t) ==
  /\ bw_pc[t] = "measure"
  /\ BwGoto(t, "wait3")
  /\ mem_bw_gbps' = [mem_bw_gbps EXCEPT ![t] = <<round[t], AllAtIt(round[t])>>]
  /\ mem_bw_barrier' = IF t = 0 THEN 0 ELSE mem_bw_barrier
  /\ UNCHANGED <<round, mem_bw_table1, mem_bw_table>>

Estimate(t) ==
  /\ bw_pc[t] = "measure"
  /\ BwGoto(t, "wait3")
  /\ mem_bw_gbps' = [mem_bw_gbps EXCEPT ![t] = <<round[t], AllAtIt(round[t])>>]
  /\ UNCHANGED <<round, mem_bw_barrier, mem_bw_table1, mem_bw_table>>

\* Thread 0 sets the counter back and adds up; the others are in the next round already.
SetBack ==
  /\ bw_pc[0] = "sum"
  /\ BwGoto(0, "add")
  /\ mem_bw_barrier' = 0
  /\ UNCHANGED <<round, mem_bw_gbps, mem_bw_table1, mem_bw_table>>

AddUp ==
  /\ bw_pc[0] = "add"
  /\ BwGoto(0, "next")
  /\ mem_bw_table' = [mem_bw_table EXCEPT
                        ![round[0]] = {<<t, mem_bw_gbps[t]>> : t \in BwThreads}]
  /\ UNCHANGED <<round, mem_bw_barrier, mem_bw_gbps, mem_bw_table1>>

NextRound(t) ==
  /\ bw_pc[t] = "next"
  /\ \/ /\ round[t] < Rounds
        /\ round' = [round EXCEPT ![t] = @ + 1]
        /\ BwGoto(t, "wait1")
     \/ /\ round[t] = Rounds
        /\ BwGoto(t, "joined")
        /\ UNCHANGED round
  /\ UNCHANGED <<mem_bw_barrier, mem_bw_gbps, mem_bw_table1, mem_bw_table>>

BwStep(t) ==
  \/ MiniArrive(t) \/ MiniPass(t) \/ Estimate(t) \/ NextRound(t)
  \/ t = 0 /\ (Alone \/ SetBack \/ AddUp)

BwTogether == \E at \in {"wait1", "wait2", "wait3"} : BwWait(at)

BwNext == (\E t \in BwThreads : BwStep(t)) \/ BwTogether

-----------------------------------------------------------------------------
(* A measurement of bandwidth ends, and then every entry of the tables is of *)
(* its own round: that of one thread was measured while the others waited,   *)
(* the sum while all threads were at it, each counted once.  The counter of  *)
(* mini_barrier is never set back under a thread that still spins on it, nor *)
(* counted up before it is (mem_bandwidth, mctop.c:504).                     *)
BandwidthIsMeasured ==
  (\A t \in BwThreads : bw_pc[t] = "wait1") ~>
    /\ \A t \in BwThreads : bw_pc[t] = "joined"
    /\ \A r \in 1..Rounds :
          /\ mem_bw_table1[r] = <<r, TRUE>>
          /\ mem_bw_table[r] = {<<t, <<r, TRUE>>>> : t \in BwThreads}
===============================================================================
