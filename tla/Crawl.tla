------------------------------- MODULE Crawl -------------------------------
(***************************************************************************)
(* The latency measurements of mctop (crawl and is_smt in mctop.c) and the *)
(* two-thread barrier they run in step by (barrier.c).                     *)
(*                                                                         *)
(* Thread 0 runs on hardware context x and thread 1 on y.  In every        *)
(* repetition thread 1 updates a cache line, the threads cross a barrier,  *)
(* and thread 0 takes the time of its own update of that line.  Thread 0   *)
(* judges the repetitions of a pair (x, y); if they scatter too much both  *)
(* threads repeat the pair.  When all pairs are done, the same two threads *)
(* compare the time of a spin loop run alone with that of one run by both, *)
(* to find out whether two contexts share a core.                          *)
(*                                                                         *)
(* A barrier is a word that thread 0 decrements and thread 1 increments;   *)
(* both then spin until they read 0.  pthread barriers are external: the   *)
(* threads pass them together.  What a measurement gives is arbitrary.     *)
(***************************************************************************)
EXTENDS Integers

CONSTANTS
  N,        \* test_num_hw_ctx
  Reps,     \* test_num_reps
  Warmups,  \* test_num_warmup_reps
  NB,       \* BARRIER2_NUM_BARRIER
  MaxStdev, \* test_max_stdev
  Medians,  \* the medians a measurement may have, besides a negative one
  Stdevs,   \* the standard deviations it may have
  Lines     \* the addresses a cache line may be allocated at

ASSUME CrawlAssumption ==
  /\ N \in Nat \ {0, 1} /\ Reps \in Nat \ {0} /\ Warmups \in Nat
  /\ NB \in Nat \ {0, 1}
  /\ MaxStdev \in Nat
  /\ Medians \subseteq Nat \ {0} /\ Medians # {} /\ Stdevs \subseteq Nat
  /\ Stdevs # {} /\ Lines # {}

Threads == {0, 1}
Contexts == 0..N - 1
Negative == -1
NumSmt == 5  \* n_smt, the repetitions of the SMT test

VARIABLES
  bar,               \* the words of the barrier: val and eval
  high_stdev_retry,  \* the flag by which thread 0 asks for a repetition
  lat_table,
  test_cache_line,   \* the line that is allocated
  cache_line,        \* each thread's copy of the pointer
  last,              \* the thread that updated each line last, or 2
  history_med,       \* the last two medians of the pair
  max_stdev,         \* each thread's limit
  pc, x, y, rep,     \* each thread's position in the loops
  warm,              \* the thread is in hw_warmup
  cpu,               \* the hardware context each thread runs on
  k                  \* the iteration of the SMT test

table == <<high_stdev_retry, lat_table, history_med>>
lines == <<test_cache_line, cache_line, last>>
loops == <<x, y, rep, warm>>
vars == <<bar, table, lines, max_stdev, pc, loops, cpu, k>>

Explicit == {0, 1, 2, 5, 6, 7}
Barriers == ({"val"} \X (0..NB - 1)) \cup ({"eval"} \X Explicit)

Unmeasured ==
  /\ bar = [b \in Barriers |-> 0]
  /\ high_stdev_retry = 0
  /\ lat_table = [p \in Contexts \X Contexts |-> 0]
  /\ test_cache_line \in Lines
  /\ cache_line = [t \in Threads |-> test_cache_line]
  /\ last = [l \in Lines |-> 2]
  /\ history_med = <<0, 0>>
  /\ max_stdev = [t \in Threads |-> MaxStdev]
  /\ x = [t \in Threads |-> 0]
  /\ y = [t \in Threads |-> 0]
  /\ rep = [t \in Threads |-> 0]
  /\ warm = [t \in Threads |-> FALSE]
  /\ cpu = [t \in Threads |-> 0]
  /\ k = [t \in Threads |-> 0]

Init == Unmeasured /\ pc = [t \in Threads |-> IF t = 0 THEN "setup" ELSE "sleep"]

Goto(t, to) == pc' = [pc EXCEPT ![t] = to]

-----------------------------------------------------------------------------
(* barrier2_cross and barrier2_cross_explicit *)

(* Mutant of Gate: the repetitions use one word for both of their barriers. *)
GateShared(t) ==
  CASE pc[t] \in {"arrive_rep", "wait_rep", "arrive5", "wait5"} -> <<"eval", 5>>
    [] pc[t] \in {"arrive6", "wait6"}       -> <<"eval", 6>>
    [] pc[t] \in {"arrive7", "wait7"}       -> <<"eval", 7>>
    [] pc[t] \in {"arrive0", "wait0"}       -> <<"eval", 0>>
    [] pc[t] \in {"arrive1", "wait1"}       -> <<"eval", 1>>
    [] pc[t] \in {"arrive2", "wait2"}       -> <<"eval", 2>>

(* The barrier thread t is at. *)
Gate(t) ==
  CASE pc[t] \in {"arrive_rep", "wait_rep"} -> <<"val", rep[t] % NB>>
    [] pc[t] \in {"arrive5", "wait5"}       -> <<"eval", 5>>
    [] pc[t] \in {"arrive6", "wait6"}       -> <<"eval", 6>>
    [] pc[t] \in {"arrive7", "wait7"}       -> <<"eval", 7>>
    [] pc[t] \in {"arrive0", "wait0"}       -> <<"eval", 0>>
    [] pc[t] \in {"arrive1", "wait1"}       -> <<"eval", 1>>
    [] pc[t] \in {"arrive2", "wait2"}       -> <<"eval", 2>>

Waiting == [arrive_rep |-> "wait_rep", arrive5 |-> "wait5", arrive6 |-> "wait6",
            arrive7 |-> "wait7", arrive0 |-> "wait0", arrive1 |-> "wait1",
            arrive2 |-> "wait2"]

(* What thread 0 and thread 1 do after the barrier. *)
After == [wait_rep |-> <<"touch", "next_rep">>,
          wait5 |-> <<"arrive_rep", "touch">>,
          wait6 |-> <<"decide", "decide">>,
          wait7 |-> <<"reset", "reset">>,
          wait0 |-> <<"smt_next", "smt_next">>,
          wait1 |-> <<"duo", "duo">>,
          wait2 |-> <<"solo", "join1">>]

Arrive(t) ==
  /\ pc[t] \in DOMAIN Waiting
  /\ Goto(t, Waiting[pc[t]])
  /\ bar' = [bar EXCEPT ![Gate(t)] = IF t = 0 THEN @ - 1 ELSE @ + 1]
  /\ UNCHANGED <<table, lines, max_stdev, loops, cpu, k>>

(* The spinning thread reads 0. *)
Pass(t) ==
  /\ pc[t] \in DOMAIN After
  /\ bar[Gate(t)] = 0
  /\ Goto(t, After[pc[t]][t + 1])
  /\ UNCHANGED <<bar, table, lines, max_stdev, loops, cpu, k>>

-----------------------------------------------------------------------------
(* crawl *)

(* cache_lines_destroy and cache_lines_create: the new line may get the     *)
(* address of the old one.                                                  *)
NewLine(l) ==
  /\ test_cache_line' = l
  /\ last' = [last EXCEPT ![l] = 2]

Setup(t) ==
  /\ pc[t] = "setup"
  /\ Goto(t, "sleep")
  /\ cpu' = [cpu EXCEPT ![t] = x[t]]
  /\ \E l \in Lines : NewLine(l)
  /\ UNCHANGED <<bar, table, cache_line, max_stdev, loops, k>>

(* pthread_barrier_wait(barrier_sleep) *)
Sleep ==
  /\ \A t \in Threads : pc[t] = "sleep"
  /\ pc' = [t \in Threads |-> "load"]
  /\ UNCHANGED <<bar, table, lines, max_stdev, loops, cpu, k>>

Load(t) ==
  /\ pc[t] = "load"
  /\ Goto(t, "pair")
  /\ cache_line' = [cache_line EXCEPT ![t] = test_cache_line]
  /\ y' = [y EXCEPT ![t] = x[t] + 1]
  /\ history_med' = IF t = 0 THEN <<0, 0>> ELSE history_med
  /\ UNCHANGED <<bar, high_stdev_retry, lat_table, test_cache_line, last,
                 max_stdev, x, rep, warm, cpu, k>>

FirstOfRep == <<"arrive_rep", "touch">>

(* Start with the pair (x, y), thread 1 on y, and the warmup. *)
Pair(t) ==
  /\ pc[t] = "pair" /\ y[t] < N
  /\ Goto(t, FirstOfRep[t + 1])
  /\ cpu' = IF t = 1 THEN [cpu EXCEPT ![t] = y[t]] ELSE cpu
  /\ rep' = [rep EXCEPT ![t] = 0]
  /\ warm' = [warm EXCEPT ![t] = TRUE]
  /\ UNCHANGED <<bar, table, lines, max_stdev, x, y, k>>

(* ATOMIC_OP: thread 0 after the barrier, thread 1 before it *)
Touch(t) ==
  /\ pc[t] = "touch"
  /\ Goto(t, IF t = 0 THEN "next_rep" ELSE "arrive_rep")
  /\ last' = [last EXCEPT ![cache_line[t]] = t]
  /\ UNCHANGED <<bar, table, test_cache_line, cache_line, max_stdev, loops,
                 cpu, k>>

(* Mutant of NextRep: the measured repetitions do not start with a barrier. *)
NextRepUngated(t) ==
  /\ pc[t] = "next_rep"
  /\ \/ /\ warm[t] /\ rep[t] < Warmups
        /\ Goto(t, FirstOfRep[t + 1])
        /\ rep' = [rep EXCEPT ![t] = @ + 1]
        /\ UNCHANGED warm
     \/ /\ warm[t] /\ rep[t] = Warmups
        /\ Goto(t, FirstOfRep[t + 1])
        /\ rep' = [rep EXCEPT ![t] = 0]
        /\ warm' = [warm EXCEPT ![t] = FALSE]
     \/ /\ ~ warm[t] /\ rep[t] + 1 < Reps
        /\ Goto(t, FirstOfRep[t + 1])
        /\ rep' = [rep EXCEPT ![t] = @ + 1]
        /\ UNCHANGED warm
     \/ /\ ~ warm[t] /\ rep[t] + 1 = Reps
        /\ Goto(t, "stats")
        /\ UNCHANGED <<rep, warm>>
  /\ UNCHANGED <<bar, table, lines, max_stdev, x, y, cpu, k>>

(* hw_warmup runs one repetition more than its parameter says; only the      *)
(* measured repetitions start with a barrier of their own.                   *)
NextRep(t) ==
  /\ pc[t] = "next_rep"
  /\ \/ /\ warm[t] /\ rep[t] < Warmups
        /\ Goto(t, FirstOfRep[t + 1])
        /\ rep' = [rep EXCEPT ![t] = @ + 1]
        /\ UNCHANGED warm
     \/ /\ warm[t] /\ rep[t] = Warmups
        /\ Goto(t, "arrive5")
        /\ rep' = [rep EXCEPT ![t] = 0]
        /\ warm' = [warm EXCEPT ![t] = FALSE]
     \/ /\ ~ warm[t] /\ rep[t] + 1 < Reps
        /\ Goto(t, "arrive5")
        /\ rep' = [rep EXCEPT ![t] = @ + 1]
        /\ UNCHANGED warm
     \/ /\ ~ warm[t] /\ rep[t] + 1 = Reps
        /\ Goto(t, "stats")
        /\ UNCHANGED <<rep, warm>>
  /\ UNCHANGED <<bar, table, lines, max_stdev, x, y, cpu, k>>

(* The repetitions scatter, and their median is not that of the two tries *)
(* before.                                                                *)
Scatters(median, stdev) ==
  stdev > max_stdev[0] /\ history_med # <<median, median>>

(* A repetition is asked for, and the line replaced, which neither thread *)
(* will look at: cache_line keeps its value.                              *)
AskRetry ==
  /\ high_stdev_retry' = 1
  /\ \E l \in Lines : NewLine(l)

(* Thread 0 judges and stores the median of the pair. *)
Stats0(median, stdev) ==
  /\ pc[0] = "stats"
  /\ Goto(0, "arrive6")
  /\ \/ /\ median = Negative
        /\ AskRetry
        /\ UNCHANGED <<lat_table, history_med>>
     \/ /\ median # Negative
        /\ \/ Scatters(median, stdev) /\ AskRetry
           \/ /\ ~ Scatters(median, stdev)
              /\ UNCHANGED <<high_stdev_retry, test_cache_line, last>>
        /\ lat_table' = [lat_table EXCEPT ![<<x[0], y[0]>>] = median]
        /\ history_med' = <<history_med[2], median>>
  /\ UNCHANGED <<bar, cache_line, max_stdev, loops, cpu, k>>

(* Thread 1 stores its own median in the other half of the table. *)
Stats1(median) ==
  /\ pc[1] = "stats"
  /\ Goto(1, "arrive6")
  /\ lat_table' = [lat_table EXCEPT ![<<y[1], x[1]>>] = median]
  /\ UNCHANGED <<bar, high_stdev_retry, history_med, lines, max_stdev, loops,
                 cpu, k>>

(* Mutant of Decide: the flag is reset without another barrier. *)
DecideUngated(t) ==
  /\ pc[t] = "decide"
  /\ \/ /\ high_stdev_retry = 1
        /\ Goto(t, "reset")
        /\ UNCHANGED <<max_stdev, history_med, y>>
     \/ /\ high_stdev_retry = 0
        /\ Goto(t, "pair")
        /\ max_stdev' = [max_stdev EXCEPT ![t] = MaxStdev]
        /\ history_med' = IF t = 0 THEN <<0, 0>> ELSE history_med
        /\ y' = [y EXCEPT ![t] = @ + 1]
  /\ UNCHANGED <<bar, high_stdev_retry, lat_table, lines, x, rep, warm, cpu, k>>

(* After barrier 6: both threads read the flag. *)
Decide(t) ==
  /\ pc[t] = "decide"
  /\ \/ /\ high_stdev_retry = 1
        /\ Goto(t, "arrive7")
        /\ UNCHANGED <<max_stdev, history_med, y>>
     \/ /\ high_stdev_retry = 0
        /\ Goto(t, "pair")
        /\ max_stdev' = [max_stdev EXCEPT ![t] = MaxStdev]
        /\ history_med' = IF t = 0 THEN <<0, 0>> ELSE history_med
        /\ y' = [y EXCEPT ![t] = @ + 1]
  /\ UNCHANGED <<bar, high_stdev_retry, lat_table, lines, x, rep, warm, cpu, k>>

(* After barrier 7: the limit grows up to twice its start, both threads reset *)
(* the flag and repeat the pair.                                              *)
Reset(t) ==
  /\ pc[t] = "reset"
  /\ Goto(t, "pair")
  /\ max_stdev' = [max_stdev EXCEPT ![t] =
                     IF @ + 1 > 2 * MaxStdev THEN 2 * MaxStdev ELSE @ + 1]
  /\ high_stdev_retry' = 0
  /\ UNCHANGED <<bar, lat_table, history_med, lines, loops, cpu, k>>

NextX(t) ==
  /\ pc[t] = "pair" /\ y[t] >= N
  /\ \/ /\ x[t] + 1 < N
        /\ Goto(t, IF t = 0 THEN "setup" ELSE "sleep")
        /\ x' = [x EXCEPT ![t] = @ + 1]
     \/ /\ x[t] + 1 = N
        /\ Goto(t, IF t = 0 THEN "copy" ELSE "done")
        /\ UNCHANGED x
  /\ UNCHANGED <<bar, table, lines, max_stdev, y, rep, warm, cpu, k>>

(* Mutant of Copy: the halves of the table are swapped. *)
CopySwapped(t) ==
  /\ pc[t] = "copy"
  /\ Goto(t, "done")
  /\ lat_table' = [p \in Contexts \X Contexts |-> lat_table[<<p[2], p[1]>>]]
  /\ UNCHANGED <<bar, high_stdev_retry, history_med, lines, max_stdev, loops,
                 cpu, k>>

(* Thread 0 copies its half of the table over the other one. *)
Copy(t) ==
  /\ pc[t] = "copy"
  /\ Goto(t, "done")
  /\ lat_table' = [p \in Contexts \X Contexts |->
                   IF p[1] < p[2] THEN lat_table[p] ELSE lat_table[<<p[2], p[1]>>]]
  /\ UNCHANGED <<bar, high_stdev_retry, history_med, lines, max_stdev, loops,
                 cpu, k>>

-----------------------------------------------------------------------------
(* main joins the threads and starts is_smt *)

Start ==
  /\ \A t \in Threads : pc[t] = "done"
  /\ pc' = [t \in Threads |-> "arrive0"]
  /\ UNCHANGED <<bar, table, lines, max_stdev, loops, cpu, k>>

(* Mutant of SmtNext: no barrier before the spin loop that is to run alone. *)
SmtNextUngated(t) ==
  /\ pc[t] = "smt_next"
  /\ Goto(t, IF k[t] < NumSmt THEN After["wait2"][t + 1] ELSE "end")
  /\ UNCHANGED <<bar, table, lines, max_stdev, loops, cpu, k>>

SmtNext(t) ==
  /\ pc[t] = "smt_next"
  /\ Goto(t, IF k[t] < NumSmt THEN "arrive2" ELSE "end")
  /\ UNCHANGED <<bar, table, lines, max_stdev, loops, cpu, k>>

(* spin_time of thread 0 alone *)
Solo(t) ==
  /\ pc[t] = "solo"
  /\ Goto(t, "join1")
  /\ UNCHANGED <<bar, table, lines, max_stdev, loops, cpu, k>>

(* Two pthread_barrier_waits in a row. *)
Join(from, to) ==
  /\ \A t \in Threads : pc[t] = from
  /\ pc' = [t \in Threads |-> to]
  /\ UNCHANGED <<bar, table, lines, max_stdev, loops, cpu, k>>

(* spin_time of both threads *)
Duo(t) ==
  /\ pc[t] = "duo"
  /\ Goto(t, "smt_next")
  /\ k' = [k EXCEPT ![t] = @ + 1]
  /\ UNCHANGED <<bar, table, lines, max_stdev, loops, cpu>>

Finished == (\A t \in Threads : pc[t] = "end") /\ UNCHANGED vars

-----------------------------------------------------------------------------
Step(t) ==
  \/ Arrive(t) \/ Pass(t)
  \/ Setup(t) \/ Load(t) \/ Pair(t) \/ Touch(t) \/ NextRep(t)
  \/ t = 0 /\ \E m \in Medians \cup {Negative}, s \in Stdevs : Stats0(m, s)
  \/ t = 1 /\ \E m \in Medians \cup {Negative} : Stats1(m)
  \/ Decide(t) \/ Reset(t) \/ NextX(t) \/ Copy(t)
  \/ SmtNext(t) \/ Solo(t) \/ Duo(t)

Together ==
  Sleep \/ Start \/ Join("join1", "join2") \/ Join("join2", "arrive1")

Next == (\E t \in Threads : Step(t)) \/ Together \/ Finished

(* Both threads run until they wait for the other one. *)
Fairness == (\A t \in Threads : WF_vars(Step(t))) /\ WF_vars(Together)

Spec == Init /\ [][Next]_vars /\ Fairness

-----------------------------------------------------------------------------
Pcs == {"setup", "sleep", "load", "pair", "touch", "next_rep", "stats",
        "decide", "reset", "copy", "done", "smt_next", "solo", "join1",
        "join2", "duo", "end"} \cup DOMAIN Waiting \cup DOMAIN After

(* Types; no barrier word runs away: a thread never arrives a second time at *)
(* a barrier before the other one has left it.                               *)
TypeOK ==
  /\ bar \in [Barriers -> {-1, 0, 1}]
  /\ high_stdev_retry \in {0, 1}
  /\ lat_table \in [Contexts \X Contexts -> Medians \cup {Negative, 0}]
  /\ test_cache_line \in Lines
  /\ cache_line \in [Threads -> Lines]
  /\ last \in [Lines -> Threads \cup {2}]
  /\ history_med \in (Medians \cup {0}) \X (Medians \cup {0})
  /\ max_stdev \in [Threads -> MaxStdev..2 * MaxStdev]
  /\ pc \in [Threads -> Pcs]
  /\ x \in [Threads -> Contexts]
  /\ y \in [Threads -> 0..N]
  /\ rep \in [Threads -> Nat]
  /\ warm \in [Threads -> BOOLEAN]
  /\ cpu \in [Threads -> Contexts]
  /\ k \in [Threads -> 0..NumSmt]

(* Every timed update moves the line from the other thread, which runs on    *)
(* the other context of the pair, works on the same pair and repetition, and *)
(* is not updating the line meanwhile: what is timed is the latency between  *)
(* x and y, through any number of repetitions of the pair.                   *)
Timed(t) == pc[t] = "touch" /\ ~ warm[t]
TimesTheTransfer ==
  \A t \in Threads :
    Timed(t) =>
      /\ last[cache_line[t]] = 1 - t
      /\ cache_line[0] = cache_line[1]
      /\ <<x[0], y[0]>> = <<x[1], y[1]>>
      /\ cpu[0] = x[0] /\ cpu[1] = y[1]
      /\ pc[1 - t] # "touch"

(* The threads agree on the pair whenever both work on one: they read the   *)
(* same value of the retry flag, which either of them resets.               *)
InPair(t) == pc[t] \in {"next_rep", "arrive5", "wait5", "stats", "arrive6",
                        "wait6", "decide", "arrive7", "wait7"}
SamePair ==
  InPair(0) /\ InPair(1) => <<x[0], y[0]>> = <<x[1], y[1]>>

(* When the threads end, the table is symmetric and has for every pair a     *)
(* median that thread 0 stored: neither its initial 0, nor what thread 1     *)
(* wrote into the other half, nor a negative one.                            *)
TableComplete ==
  pc[0] = "done" =>
    \A a, b \in Contexts : a # b => /\ lat_table[<<a, b>>] \in Medians
                                    /\ lat_table[<<a, b>>] = lat_table[<<b, a>>]

(* The spin loop that is to run alone does: the other thread has ended the   *)
(* one that both run.                                                        *)
SoloIsAlone == ~ (pc[0] = "solo" /\ pc[1] = "duo")

(* The threads measure again and again until they end: the barriers, which   *)
(* are used over and over, never leave both threads spinning.                *)
KeepsMeasuring == []<>(pc[0] \in {"stats", "end"})
=============================================================================
