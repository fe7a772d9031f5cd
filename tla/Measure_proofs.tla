---------------------------- MODULE Measure_proofs ----------------------------
(***************************************************************************)
(* Proofs about the measurements of mctop: the latencies (crawl and is_smt *)
(* in mctop.c, with the barrier they run in step by, barrier.c), for any   *)
(* number of contexts, repetitions and barrier words, any medians and any  *)
(* addresses; and the memory bandwidth (mem_bandwidth, mini_barrier), for  *)
(* any number of threads, sockets and nodes.                               *)
(*                                                                         *)
(* The two threads of a crawl meet: at a barrier word, at a pthread        *)
(* barrier, or in main.  For every place in the code there is the next     *)
(* meeting the thread is on its way to; a thread that still spins on a     *)
(* word that reads 0 has crossed that barrier already and is on its way to *)
(* the next one.  The invariant is that both threads are on their way to   *)
(* the same meeting (InStep), and that a word which does not read 0 was    *)
(* written by a thread that spins on it (WordsInUse).  It is inductive     *)
(* because two barriers in a row never use the same word: a thread that    *)
(* arrives at a barrier finds the word at 0, or left by the other thread   *)
(* that waits there.  Everything else follows the meetings: two threads    *)
(* between the same two meetings are on the same pair, the same repetition *)
(* and the same line.                                                      *)
(*                                                                         *)
(* The threads that measure bandwidth meet at the three pthread barriers   *)
(* of a round (OnOneRound).  Between two meetings the counter of           *)
(* mini_barrier is the number of the threads that have counted themselves; *)
(* thread 0 sets it back on the way to a meeting at which nobody looks at  *)
(* it (CounterCounts).  So a thread measures while all threads do, and     *)
(* thread 0 adds up what was measured in its own round, though the others  *)
(* are on their way to the next.                                           *)
(***************************************************************************)
EXTENDS Measure, FiniteSetTheorems, TLAPS

(* The meetings: a warmup or a measured repetition of a pair, the barriers    *)
(* 5, 6, 7 of the pair, the sleep before the pairs of x, the end of crawl;    *)
(* those of the SMT test, by its iteration.                                   *)
NoMore == <<"end", 0, 0, 0>>
FirstOf(a, b) == IF b < N THEN <<"warm", a, b, 0>>
                 ELSE IF a + 1 < N THEN <<"sleep", a + 1, 0, 0>>
                 ELSE <<"done", 0, 0, 0>>
AtRep(t) == <<IF warm[t] THEN "warm" ELSE "rep", x[t], y[t], rep[t]>>
AtFive(t) == <<"five", x[t], y[t], rep[t]>>
AtSix(t) == <<"six", x[t], y[t], 0>>
AtSeven(t) == <<"seven", x[t], y[t], 0>>
AfterRep(t) ==
  IF warm[t] THEN IF rep[t] < Warmups THEN <<"warm", x[t], y[t], rep[t] + 1>>
                  ELSE <<"five", x[t], y[t], 0>>
  ELSE IF rep[t] + 1 < Reps THEN <<"five", x[t], y[t], rep[t] + 1>> ELSE AtSix(t)
AfterSix(t) == IF high_stdev_retry = 1 THEN AtSeven(t) ELSE FirstOf(x[t], y[t] + 1)
AtSolo(n) == IF n < NumSmt THEN <<"two", 0, 0, n>> ELSE NoMore

(* The thread spins, but the word reads 0: the other one has arrived too. *)
Crossed(t) == pc[t] \in DOMAIN After /\ bar[Gate(t)] = 0

(* The next meeting of a thread. *)
Ahead(t) ==
  CASE pc[t] \in {"setup", "sleep"} -> <<"sleep", x[t], 0, 0>>
    [] pc[t] = "load" -> FirstOf(x[t], x[t] + 1)
    [] pc[t] \in {"pair", "reset"} -> FirstOf(x[t], y[t])
    [] pc[t] = "arrive_rep" -> AtRep(t)
    [] pc[t] = "touch" -> IF t = 0 THEN AfterRep(t) ELSE AtRep(t)
    [] pc[t] = "wait_rep" -> IF Crossed(t) THEN AfterRep(t) ELSE AtRep(t)
    [] pc[t] = "next_rep" -> AfterRep(t)
    [] pc[t] = "arrive5" -> AtFive(t)
    [] pc[t] = "wait5" -> IF Crossed(t) THEN <<"rep", x[t], y[t], rep[t]>> ELSE AtFive(t)
    [] pc[t] \in {"stats", "arrive6"} -> AtSix(t)
    [] pc[t] = "wait6" -> IF Crossed(t) THEN AfterSix(t) ELSE AtSix(t)
    [] pc[t] = "decide" -> AfterSix(t)
    [] pc[t] = "arrive7" -> AtSeven(t)
    [] pc[t] = "wait7" -> IF Crossed(t) THEN FirstOf(x[t], y[t]) ELSE AtSeven(t)
    [] pc[t] \in {"copy", "done"} -> <<"done", 0, 0, 0>>
    [] pc[t] = "arrive0" -> <<"zero", 0, 0, 0>>
    [] pc[t] = "wait0" -> IF Crossed(t) THEN AtSolo(k[t]) ELSE <<"zero", 0, 0, 0>>
    [] pc[t] = "smt_next" -> AtSolo(k[t])
    [] pc[t] = "arrive2" -> <<"two", 0, 0, k[t]>>
    [] pc[t] = "wait2" -> IF Crossed(t) THEN <<"join1", 0, 0, k[t]>> ELSE <<"two", 0, 0, k[t]>>
    [] pc[t] \in {"solo", "join1"} -> <<"join1", 0, 0, k[t]>>
    [] pc[t] = "join2" -> <<"join2", 0, 0, k[t]>>
    [] pc[t] = "arrive1" -> <<"one", 0, 0, k[t]>>
    [] pc[t] = "wait1" -> IF Crossed(t) THEN AtSolo(k[t] + 1) ELSE <<"one", 0, 0, k[t]>>
    [] pc[t] = "duo" -> AtSolo(k[t] + 1)
    [] pc[t] = "end" -> NoMore

InStep == Ahead(0) = Ahead(1)

(* A word that does not read 0 was written by one thread, which spins on it. *)
Sign(t) == IF t = 0 THEN -1 ELSE 1
Spins(t) == pc[t] \in DOMAIN After
WordsInUse ==
  /\ \A g \in Barriers : bar[g] # 0 => \E t \in Threads : Spins(t) /\ Gate(t) = g /\ bar[g] = Sign(t)
  /\ \A t \in Threads : Spins(t) => bar[Gate(t)] \in {0, Sign(t)}

(* Where the thread is in the loops. *)
BeforePairs == {"setup", "sleep", "load"}
OnPair == {"touch", "arrive_rep", "wait_rep", "next_rep", "arrive5", "wait5", "stats",
           "arrive6", "wait6", "decide", "arrive7", "wait7", "reset"}
Crawling == BeforePairs \cup {"pair"} \cup OnPair \cup {"copy", "done"}
Before(t) ==
  /\ pc[t] \in OnPair => y[t] < N
  /\ pc[t] \in OnPair \cup {"pair"} => x[t] < y[t]
  /\ pc[t] \in {"copy", "done"} => x[t] = N - 1
  /\ pc[t] \in {"arrive5", "wait5"} => ~ warm[t]
  /\ pc[t] \in Crawling \cup {"arrive0", "wait0"} => k[t] = 0
  /\ pc[t] \in {"arrive2", "wait2", "solo", "join1", "join2", "arrive1", "wait1", "duo"} => k[t] < NumSmt
  /\ pc[t] \in {"setup", "copy", "solo"} => t = 0
Loops == \A t \in Threads : Before(t)

(* One thread has crossed barrier 7 only after the other one has read the    *)
(* flag behind barrier 6.                                                    *)
BehindSix(t) == pc[t] = "decide" \/ (pc[t] = "wait6" /\ Crossed(t))
BehindSeven(t) == pc[t] = "reset" \/ (pc[t] = "wait7" /\ Crossed(t))
FlagIsRead == \A t \in Threads : BehindSeven(t) => ~ BehindSix(1 - t)

(* Both threads work on the same line from the load on. *)
SameLine ==
  /\ \A t \in Threads : pc[t] = "load" /\ pc[1 - t] # "load" => cache_line[1 - t] = test_cache_line
  /\ (\A t \in Threads : pc[t] # "load") => cache_line[0] = cache_line[1]

OnContexts ==
  /\ pc[0] # "setup" => cpu[0] = x[0]
  /\ pc[1] \in OnPair => cpu[1] = y[1]

(* Who has updated the line last, around each measured repetition. *)
Measuring == Ahead(0)[1]
TurnsTaken ==
  /\ pc[1] \in {"arrive_rep", "wait_rep"} /\ Measuring = "rep" => last[cache_line[1]] = 1
  /\ ~ warm[0] /\ (pc[0] = "touch" \/ (pc[0] = "wait_rep" /\ Crossed(0))) => last[cache_line[0]] = 1
  /\ pc[0] \in {"next_rep", "arrive5", "wait5"} /\ Measuring = "five" => last[cache_line[0]] = 0
  /\ pc[1] \in {"wait5", "touch"} /\ Measuring = "rep" => last[cache_line[1]] = 0

(* What thread 0 has stored so far: pairs of earlier x, or of this x and     *)
(* an earlier y, and the pair it is at once it has been judged.              *)
Stored(a, b) ==
  \/ a < x[0]
  \/ a = x[0] /\ pc[0] \notin BeforePairs /\ b < y[0]
  \/ /\ a = x[0] /\ b = y[0] /\ pc[0] \in {"arrive6", "wait6", "decide"} /\ high_stdev_retry = 0
TableSoFar ==
  /\ \A a, b \in Contexts : a < b /\ pc[0] \in Crawling /\ Stored(a, b) => lat_table[<<a, b>>] \in Medians
  /\ pc[0] \in {"copy", "done"} => y[0] >= N
  /\ pc[0] = "done" => \A a, b \in Contexts : lat_table[<<a, b>>] = lat_table[<<b, a>>]

IInv ==
  /\ TypeOK
  /\ Loops
  /\ WordsInUse
  /\ InStep
  /\ FlagIsRead
  /\ SameLine
  /\ OnContexts
  /\ TurnsTaken
  /\ TableSoFar
-----------------------------------------------------------------------------
Arriving == {"arrive_rep", "arrive5", "arrive6", "arrive7", "arrive0", "arrive1", "arrive2"}
Spinning == {"wait_rep", "wait5", "wait6", "wait7", "wait0", "wait1", "wait2"}

(* The tables of the barriers (barrier2_cross), entry by entry.              *)
LEMMA Tables ==
  /\ DOMAIN Waiting = Arriving /\ DOMAIN After = Spinning
  /\ Waiting["arrive_rep"] = "wait_rep" /\ Waiting["arrive5"] = "wait5"
  /\ Waiting["arrive6"] = "wait6" /\ Waiting["arrive7"] = "wait7"
  /\ Waiting["arrive0"] = "wait0" /\ Waiting["arrive1"] = "wait1"
  /\ Waiting["arrive2"] = "wait2"
  /\ \A t \in Threads :
       /\ After["wait_rep"][t + 1] = (IF t = 0 THEN "touch" ELSE "next_rep")
       /\ After["wait5"][t + 1] = (IF t = 0 THEN "arrive_rep" ELSE "touch")
       /\ After["wait6"][t + 1] = "decide" /\ After["wait7"][t + 1] = "reset"
       /\ After["wait0"][t + 1] = "smt_next" /\ After["wait1"][t + 1] = "duo"
       /\ After["wait2"][t + 1] = (IF t = 0 THEN "solo" ELSE "join1")
BY DEF Waiting, After, Arriving, Spinning, Threads

(* Two repetitions in a row do not use the same word of val. *)
LEMMA NextRemainder ==
  ASSUME NEW n \in Nat
  PROVE  (n + 1) % NB # n % NB /\ n % NB \in 0..NB - 1
<1> DEFINE q == n \div NB
           p == (n + 1) \div NB
<1>1. NB \in Nat /\ NB >= 2
  BY CrawlAssumption
<1>2. n = NB * q + (n % NB) /\ q \in Int /\ n % NB \in 0..NB - 1
  BY <1>1
<1>3. n + 1 = NB * p + ((n + 1) % NB) /\ p \in Int /\ (n + 1) % NB \in 0..NB - 1
  BY <1>1
<1>4. ASSUME (n + 1) % NB = n % NB PROVE FALSE
  <2> HIDE DEF p, q
  <2>1. NB * p - NB * q = 1
    BY <1>1, <1>2, <1>3, <1>4
  <2>2. NB * (p - q) = 1
    BY <1>1, <1>2, <1>3, <2>1
  <2>3. CASE p - q >= 1
    <3>1. NB * (p - q) >= NB
      BY <1>1, <1>2, <1>3, <2>3
    <3> QED BY <1>1, <2>2, <3>1
  <2>4. CASE p - q <= 0
    <3>1. NB * (p - q) <= 0
      BY <1>1, <1>2, <1>3, <2>4
    <3> QED BY <2>2, <3>1
  <2> QED BY <1>2, <1>3, <2>3, <2>4
<1> QED BY <1>2, <1>4


(* What is ahead of a thread at each place, and its word, in this state and  *)
(* in the next one.                                                          *)
AheadTable(t) ==
  /\ pc[t] \in {"setup", "sleep"} => Ahead(t) = <<"sleep", x[t], 0, 0>>
  /\ pc[t] = "load" => Ahead(t) = FirstOf(x[t], x[t] + 1)
  /\ pc[t] \in {"pair", "reset"} => Ahead(t) = FirstOf(x[t], y[t])
  /\ pc[t] = "arrive_rep" => Ahead(t) = AtRep(t)
  /\ pc[t] = "touch" => Ahead(t) = IF t = 0 THEN AfterRep(t) ELSE AtRep(t)
  /\ pc[t] = "wait_rep" => Ahead(t) = IF Crossed(t) THEN AfterRep(t) ELSE AtRep(t)
  /\ pc[t] = "next_rep" => Ahead(t) = AfterRep(t)
  /\ pc[t] = "arrive5" => Ahead(t) = AtFive(t)
  /\ pc[t] = "wait5" => Ahead(t) = IF Crossed(t) THEN <<"rep", x[t], y[t], rep[t]>> ELSE AtFive(t)
  /\ pc[t] \in {"stats", "arrive6"} => Ahead(t) = AtSix(t)
  /\ pc[t] = "wait6" => Ahead(t) = IF Crossed(t) THEN AfterSix(t) ELSE AtSix(t)
  /\ pc[t] = "decide" => Ahead(t) = AfterSix(t)
  /\ pc[t] = "arrive7" => Ahead(t) = AtSeven(t)
  /\ pc[t] = "wait7" => Ahead(t) = IF Crossed(t) THEN FirstOf(x[t], y[t]) ELSE AtSeven(t)
  /\ pc[t] \in {"copy", "done"} => Ahead(t) = <<"done", 0, 0, 0>>
  /\ pc[t] = "arrive0" => Ahead(t) = <<"zero", 0, 0, 0>>
  /\ pc[t] = "wait0" => Ahead(t) = IF Crossed(t) THEN AtSolo(k[t]) ELSE <<"zero", 0, 0, 0>>
  /\ pc[t] = "smt_next" => Ahead(t) = AtSolo(k[t])
  /\ pc[t] = "arrive2" => Ahead(t) = <<"two", 0, 0, k[t]>>
  /\ pc[t] = "wait2" => Ahead(t) = IF Crossed(t) THEN <<"join1", 0, 0, k[t]>> ELSE <<"two", 0, 0, k[t]>>
  /\ pc[t] \in {"solo", "join1"} => Ahead(t) = <<"join1", 0, 0, k[t]>>
  /\ pc[t] = "join2" => Ahead(t) = <<"join2", 0, 0, k[t]>>
  /\ pc[t] = "arrive1" => Ahead(t) = <<"one", 0, 0, k[t]>>
  /\ pc[t] = "wait1" => Ahead(t) = IF Crossed(t) THEN AtSolo(k[t] + 1) ELSE <<"one", 0, 0, k[t]>>
  /\ pc[t] = "duo" => Ahead(t) = AtSolo(k[t] + 1)
  /\ pc[t] = "end" => Ahead(t) = NoMore
GateTable(t) ==
  /\ pc[t] \in {"arrive_rep", "wait_rep"} => Gate(t) = <<"val", rep[t] % NB>>
  /\ pc[t] \in {"arrive5", "wait5"} => Gate(t) = <<"eval", 5>>
  /\ pc[t] \in {"arrive6", "wait6"} => Gate(t) = <<"eval", 6>>
  /\ pc[t] \in {"arrive7", "wait7"} => Gate(t) = <<"eval", 7>>
  /\ pc[t] \in {"arrive0", "wait0"} => Gate(t) = <<"eval", 0>>
  /\ pc[t] \in {"arrive1", "wait1"} => Gate(t) = <<"eval", 1>>
  /\ pc[t] \in {"arrive2", "wait2"} => Gate(t) = <<"eval", 2>>

(* Both tables hold, by definition of Ahead and Gate.                        *)
LEMMA AheadAt ==
  ASSUME NEW t \in Threads
  PROVE  AheadTable(t) /\ AheadTable(t)'
<1>1. AheadTable(t)
  BY DEF Ahead, AheadTable
<1>2. AheadTable(t)'
  BY DEF Ahead, AheadTable
<1> QED BY <1>1, <1>2

(* The word of every barrier, by place.                                      *)
LEMMA GateAt ==
  ASSUME NEW t \in Threads
  PROVE  GateTable(t) /\ GateTable(t)'
<1>1. GateTable(t)
  BY DEF Gate, GateTable
<1>2. GateTable(t)'
  BY DEF Gate, GateTable
<1> QED BY <1>1, <1>2

(* The kind of the next meeting. *)
Kind(t) == Ahead(t)[1]
NewPairs == {"warm", "sleep", "done"}
KindTable(t) ==
  /\ pc[t] \in {"setup", "sleep"} => Kind(t) = "sleep"
  /\ pc[t] = "load" => Kind(t) \in {"warm", "done"}
  /\ pc[t] \in {"pair", "reset"} => Kind(t) \in NewPairs
  /\ pc[t] = "arrive_rep" => Kind(t) \in {"warm", "rep"}
  /\ pc[t] = "touch" => Kind(t) \in IF t = 0 THEN {"warm", "five", "six"} ELSE {"warm", "rep"}
  /\ pc[t] = "wait_rep" => Kind(t) \in IF Crossed(t) THEN {"warm", "five", "six"} ELSE {"warm", "rep"}
  /\ pc[t] = "next_rep" => Kind(t) \in {"warm", "five", "six"}
  /\ pc[t] = "arrive5" => Kind(t) = "five"
  /\ pc[t] = "wait5" => Kind(t) = IF Crossed(t) THEN "rep" ELSE "five"
  /\ pc[t] \in {"stats", "arrive6"} => Kind(t) = "six"
  /\ pc[t] = "wait6" => Kind(t) \in IF Crossed(t) THEN NewPairs \cup {"seven"} ELSE {"six"}
  /\ pc[t] = "decide" => Kind(t) \in NewPairs \cup {"seven"}
  /\ pc[t] = "arrive7" => Kind(t) = "seven"
  /\ pc[t] = "wait7" => Kind(t) \in IF Crossed(t) THEN NewPairs ELSE {"seven"}
  /\ pc[t] \in {"copy", "done"} => Kind(t) = "done"
  /\ pc[t] = "arrive0" => Kind(t) = "zero"
  /\ pc[t] = "wait0" => Kind(t) \in IF Crossed(t) THEN {"two", "end"} ELSE {"zero"}
  /\ pc[t] = "smt_next" => Kind(t) \in {"two", "end"}
  /\ pc[t] = "arrive2" => Kind(t) = "two"
  /\ pc[t] = "wait2" => Kind(t) = IF Crossed(t) THEN "join1" ELSE "two"
  /\ pc[t] \in {"solo", "join1"} => Kind(t) = "join1"
  /\ pc[t] = "join2" => Kind(t) = "join2"
  /\ pc[t] = "arrive1" => Kind(t) = "one"
  /\ pc[t] = "wait1" => Kind(t) \in IF Crossed(t) THEN {"two", "end"} ELSE {"one"}
  /\ pc[t] = "duo" => Kind(t) \in {"two", "end"}
  /\ pc[t] = "end" => Kind(t) = "end"

(* From the first pair of a row on, the next meeting is a warmup or the end  *)
(* of the row.                                                               *)
LEMMA KindOfFirst ==
  ASSUME NEW a \in Contexts, NEW b
  PROVE  FirstOf(a, b)[1] \in NewPairs /\ FirstOf(a, a + 1)[1] \in {"warm", "done"}
BY CrawlAssumption DEF FirstOf, NewPairs, Contexts

(* The kinds of meeting ahead of a thread, by place.                         *)
LEMMA KindAt ==
  ASSUME TypeOK, NEW t \in Threads
  PROVE  KindTable(t)
<1>1. x[t] \in Contexts
  BY DEF TypeOK
<1>2. AheadTable(t)
  BY AheadAt
<1> QED
  BY <1>1, <1>2, KindOfFirst DEF KindTable, Kind, AheadTable, AtRep, AfterRep, AtFive, AtSix, AtSeven,
     AfterSix, AtSolo, NoMore, NewPairs

(* A thread that crossed a barrier and still spins there does not spin on the *)
(* word of its next meeting.                                                  *)
LEMMA NextWordIsFree ==
  ASSUME TypeOK, InStep, NEW t \in Threads, NEW u \in Threads, u # t,
         pc[t] \in Arriving, Crossed(u)
  PROVE  Gate(u) # Gate(t)
<1>1. KindTable(t) /\ KindTable(u) /\ Kind(t) = Kind(u) /\ Ahead(t) = Ahead(u)
  BY KindAt DEF InStep, Kind, Threads
<1>2. AheadTable(t) /\ AheadTable(u) /\ GateTable(t) /\ GateTable(u)
  BY AheadAt, GateAt
<1>3. pc[u] \in Spinning
  BY Tables DEF Crossed
<1>4. CASE pc[t] = "arrive_rep" /\ pc[u] = "wait_rep"
  <2>1. Ahead(t) = AtRep(t) /\ Ahead(u) = AfterRep(u)
    BY <1>2, <1>4 DEF AheadTable
  <2>2. Kind(t) \in {"warm", "rep"}
    BY <1>1, <1>4 DEF KindTable
  <2>3. rep[t] = rep[u] + 1
    <3>1. Ahead(t) = <<Kind(t), x[t], y[t], rep[t]>>
      BY <2>1 DEF AtRep, Kind
    <3>2. Kind(u) \in {"warm", "rep"} => Ahead(u) = <<"warm", x[u], y[u], rep[u] + 1>>
      BY <2>1 DEF AfterRep, AtSix, Kind
    <3> QED BY <1>1, <2>2, <3>1, <3>2
  <2>4. rep[u] \in Nat
    BY DEF TypeOK
  <2> QED
    BY <1>2, <1>4, <2>3, <2>4, NextRemainder DEF GateTable
<1>5. CASE ~ (pc[t] = "arrive_rep" /\ pc[u] = "wait_rep")
  BY <1>1, <1>2, <1>3, <1>5 DEF GateTable, KindTable, Arriving, Spinning, NewPairs
<1> QED BY <1>4, <1>5

(* A thread that arrives finds the other one at the same barrier or not at    *)
(* any.                                                                       *)
LEMMA MeetingTells ==
  ASSUME TypeOK, Loops, InStep, NEW t \in Threads, NEW u \in Threads, u # t,
         pc[t] \in Arriving, Spins(u), ~ Crossed(u)
  PROVE  /\ pc[u] = Waiting[pc[t]] /\ Gate(u) = Gate(t)
         /\ k[t] = k[u]
         /\ pc[t] \in {"arrive_rep", "arrive5", "arrive6", "arrive7"} => x[t] = x[u] /\ y[t] = y[u]
         /\ pc[t] \in {"arrive_rep", "arrive5"} => rep[t] = rep[u] /\ warm[t] = warm[u]
<1>1. KindTable(t) /\ KindTable(u) /\ Kind(t) = Kind(u) /\ Ahead(t) = Ahead(u)
  BY KindAt DEF InStep, Kind, Threads
<1>2. AheadTable(t) /\ AheadTable(u) /\ GateTable(t) /\ GateTable(u)
  BY AheadAt, GateAt
<1>3. pc[u] \in Spinning
  BY Tables DEF Spins
<1>4. pc[u] = Waiting[pc[t]]
  BY <1>1, <1>3, Tables DEF KindTable, Arriving, Spinning, NewPairs
<1>5. warm \in [Threads -> BOOLEAN] /\ Before(t) /\ Before(u)
  BY DEF TypeOK, Loops
<1>6. CASE pc[t] = "arrive_rep"
  <2>1. AtRep(t) = AtRep(u) /\ pc[u] = "wait_rep"
    BY <1>1, <1>2, <1>4, <1>6, Tables DEF AheadTable
  <2> QED
    BY <1>1, <1>2, <1>4, <1>5, <1>6, <2>1, Tables DEF AheadTable, GateTable, AtRep, Before, Crawling, OnPair
<1>7. CASE pc[t] \in {"arrive5", "arrive6", "arrive7"}
  BY <1>1, <1>2, <1>4, <1>5, <1>7, Tables DEF AheadTable, GateTable, AtFive, AtSix, AtSeven, Before, Crawling, OnPair
<1>8. CASE pc[t] \in {"arrive0", "arrive1", "arrive2"}
  BY <1>1, <1>2, <1>4, <1>5, <1>8, Tables DEF AheadTable, GateTable, Before
<1> QED BY <1>4, <1>6, <1>7, <1>8 DEF Arriving

(* A thread that keeps its place, its word and what it has read of the flag  *)
(* keeps its next meeting.                                                    *)
Still(t) ==
  /\ pc'[t] = pc[t] /\ x'[t] = x[t] /\ y'[t] = y[t] /\ k'[t] = k[t]
  /\ rep'[t] = rep[t] /\ warm'[t] = warm[t]

(* A thread that keeps its place keeps its word.                             *)
LEMMA GateStays ==
  ASSUME TypeOK, NEW t \in Threads, Still(t), pc[t] \in Arriving \cup Spinning
  PROVE  Gate(t)' = Gate(t) /\ Gate(t) \in Barriers
<1>1. GateTable(t) /\ GateTable(t)'
  BY GateAt
<1>2. rep[t] % NB \in 0..NB - 1
  BY NextRemainder DEF TypeOK
<1> QED
  BY <1>1, <1>2 DEF GateTable, Still, Arriving, Spinning, Barriers, Explicit

(* ... and its next meeting, if its word and its reading of the flag are     *)
(* kept.                                                                     *)
LEMMA AheadStays ==
  ASSUME TypeOK, NEW t \in Threads, Still(t),
         Spins(t) => (Crossed(t)' <=> Crossed(t)),
         BehindSix(t) => high_stdev_retry' = high_stdev_retry
  PROVE  Ahead(t)' = Ahead(t)
<1>1. AheadTable(t) /\ AheadTable(t)'
  BY AheadAt
<1>2. /\ AtRep(t)' = AtRep(t) /\ AfterRep(t)' = AfterRep(t) /\ AtFive(t)' = AtFive(t)
      /\ AtSix(t)' = AtSix(t) /\ AtSeven(t)' = AtSeven(t)
  BY DEF Still, AtRep, AfterRep, AtFive, AtSix, AtSeven
<1>3. BehindSix(t) => AfterSix(t)' = AfterSix(t)
  BY DEF Still, AfterSix, AtSeven, FirstOf
<1>4. /\ FirstOf(x[t], x[t] + 1)' = FirstOf(x[t], x[t] + 1)
      /\ FirstOf(x[t], y[t])' = FirstOf(x[t], y[t])
      /\ AtSolo(k[t])' = AtSolo(k[t]) /\ AtSolo(k[t] + 1)' = AtSolo(k[t] + 1)
  BY DEF Still, FirstOf, AtSolo, NoMore
<1>5. pc[t] \in Pcs
  BY DEF TypeOK
<1> QED
  BY <1>1, <1>2, <1>3, <1>4, <1>5, Tables
  DEF AheadTable, Still, Pcs, Arriving, Spinning, BehindSix, Spins, FirstOf, AtSolo, NoMore

(* A step of one thread that leaves the words alone, from a place off the     *)
(* barriers to another one on the way to the same meeting.                    *)
LEMMA OneWalks ==
  ASSUME TypeOK, WordsInUse, InStep, NEW t \in Threads, NEW u \in Threads, u # t, Still(u),
         bar' = bar, pc[t] \notin Spinning, pc'[t] \notin Spinning \cup {"decide", "reset"},
         BehindSix(u) => high_stdev_retry' = high_stdev_retry, Ahead(t)' = Ahead(t)
  PROVE  /\ WordsInUse' /\ InStep' /\ FlagIsRead'
         /\ (Crossed(u)' <=> Crossed(u)) /\ Ahead(u)' = Ahead(u)
<1>1. Spins(u) => Gate(u)' = Gate(u)
  BY GateStays, Tables DEF Spins
<1>2. (Spins(u)' <=> Spins(u)) /\ ~ Spins(t)' /\ ~ Spins(t)
  BY Tables DEF Spins, Still
<1>3. Crossed(u)' <=> Crossed(u)
  BY <1>1, <1>2, Tables DEF Crossed, Spins
<1>4. Ahead(u)' = Ahead(u)
  BY <1>3, AheadStays
<1>5. InStep'
  BY <1>4 DEF InStep, Threads
<1>6. \A s \in Threads : s = t \/ s = u
  BY DEF Threads
<1>7. WordsInUse'
  <2>1. ASSUME NEW g \in Barriers, bar'[g] # 0 PROVE Spins(u)' /\ Gate(u)' = g /\ bar'[g] = Sign(u)
    <3>1. PICK s \in Threads : Spins(s) /\ Gate(s) = g /\ bar[g] = Sign(s)
      BY <2>1 DEF WordsInUse
    <3> QED BY <1>1, <1>2, <1>6, <3>1
  <2>2. Spins(u)' => bar'[Gate(u)'] \in {0, Sign(u)}
    BY <1>1, <1>2 DEF WordsInUse
  <2> QED BY <1>2, <1>6, <2>1, <2>2 DEF WordsInUse, Sign
<1>8. FlagIsRead'
  <2>1. ~ BehindSix(t)' /\ ~ BehindSeven(t)'
    BY Tables DEF BehindSix, BehindSeven, Spinning
  <2> QED BY <1>6, <2>1 DEF FlagIsRead, Threads
<1> QED BY <1>3, <1>4, <1>5, <1>7, <1>8

(* A thread arrives: it waits for the other one, or the two meet. *)
LEMMA OneArrives ==
  ASSUME TypeOK, Loops, WordsInUse, InStep, NEW t \in Threads, NEW u \in Threads, u # t,
         Arrive(t)
  PROVE  /\ WordsInUse' /\ InStep' /\ bar' \in [Barriers -> {-1, 0, 1}]
         /\ Still(u) /\ pc[t] \in Arriving /\ pc'[t] = Waiting[pc[t]]
         /\ \/ /\ Ahead(t)' = Ahead(t) /\ ~ Crossed(t)'
               /\ Ahead(u)' = Ahead(u) /\ (Crossed(u)' <=> Crossed(u))
            \/ /\ pc[u] = Waiting[pc[t]] /\ ~ Crossed(u)
               /\ Crossed(t)' /\ Crossed(u)'
<1> PICK g : g = Gate(t)
  OBVIOUS
<1>1. /\ pc[t] \in Arriving /\ pc'[t] = Waiting[pc[t]] /\ pc'[t] \in Spinning
      /\ x' = x /\ y' = y /\ k' = k /\ rep' = rep /\ warm' = warm
      /\ high_stdev_retry' = high_stdev_retry
  BY Tables DEF Arrive, Goto, TypeOK, Arriving, Spinning, loops, table
<1>2. Still(u)
  BY <1>1 DEF Arrive, Goto, TypeOK, Still
<1>3. g \in Barriers /\ Gate(t)' = g
  <2>1. rep[t] % NB \in 0..NB - 1
    BY NextRemainder DEF TypeOK
  <2>2. GateTable(t) /\ GateTable(t)'
    BY GateAt
  <2> QED
    BY <1>1, <2>1, <2>2, Tables DEF GateTable, Arriving, Barriers, Explicit
<1>4. /\ bar'[g] = bar[g] + Sign(t)
      /\ \A w \in Barriers : w # g => bar'[w] = bar[w]
      /\ DOMAIN bar' = Barriers /\ bar' = [bar EXCEPT ![g] = bar'[g]]
  BY <1>3 DEF Arrive, Sign, TypeOK
<1>5. Spins(u) => Gate(u)' = Gate(u) /\ Gate(u) \in Barriers
  BY <1>2, GateStays, Tables DEF Spins
<1>6. (Spins(u)' <=> Spins(u)) /\ Spins(t)' /\ ~ Spins(t)
  BY <1>1, <1>2, Tables DEF Spins, Still, Arriving, Spinning
<1>7. (\A s \in Threads : s = t \/ s = u) /\ Sign(t) = - Sign(u) /\ Sign(u) \in {-1, 1}
  BY DEF Threads, Sign
<1>8. /\ Crossed(t)' <=> bar'[g] = 0
      /\ Spins(u) => (Crossed(u)' <=> bar'[Gate(u)] = 0)
      /\ Spins(u) => (Crossed(u) <=> bar[Gate(u)] = 0)
      /\ ~ Spins(u) => ~ Crossed(u) /\ ~ Crossed(u)'
  BY <1>3, <1>5, <1>6 DEF Crossed, Spins
<1>9. CASE bar[g] = 0
  <2>1. Spins(u) => Gate(u) # g
    <3>1. CASE Crossed(u)
      BY <1>1, <3>1, NextWordIsFree
    <3>2. CASE ~ Crossed(u)
      BY <1>8, <1>9, <3>2
    <3> QED BY <3>1, <3>2
  <2>2. ~ Crossed(t)' /\ bar'[g] = Sign(t)
    BY <1>4, <1>7, <1>8, <1>9
  <2>3. Crossed(u)' <=> Crossed(u)
    BY <1>4, <1>5, <1>8, <2>1
  <2>4. Ahead(u)' = Ahead(u)
    BY <1>1, <1>2, <2>3, AheadStays
  <2>5. Ahead(t)' = Ahead(t)
    <3>1. AheadTable(t) /\ AheadTable(t)'
      BY AheadAt
    <3> QED
      BY <1>1, <2>2, <3>1, Tables
      DEF AheadTable, Arriving, AtRep, AtFive, AtSix, AtSeven
  <2>6. InStep'
    BY <2>4, <2>5 DEF InStep, Threads
  <2>7. WordsInUse'
    <3>1. ASSUME NEW w \in Barriers, bar'[w] # 0
          PROVE  \E s \in Threads : Spins(s)' /\ Gate(s)' = w /\ bar'[w] = Sign(s)
      <4>1. CASE w = g
        BY <1>3, <1>6, <2>2, <4>1
      <4>2. CASE w # g
        <5>1. PICK s \in Threads : Spins(s) /\ Gate(s) = w /\ bar[w] = Sign(s)
          BY <1>4, <3>1, <4>2 DEF WordsInUse
        <5> QED BY <1>4, <1>5, <1>6, <1>7, <4>2, <5>1
      <4> QED BY <4>1, <4>2
    <3>2. ASSUME NEW s \in Threads, Spins(s)' PROVE bar'[Gate(s)'] \in {0, Sign(s)}
      <4>1. CASE s = t
        BY <1>3, <2>2, <4>1
      <4>2. CASE s = u
        BY <1>4, <1>5, <1>6, <2>1, <3>2, <4>2 DEF WordsInUse
      <4> QED BY <1>7, <4>1, <4>2
    <3> QED BY <3>1, <3>2 DEF WordsInUse, Sign
  <2>8. bar' \in [Barriers -> {-1, 0, 1}]
    BY <1>3, <1>4, <1>7, <2>2 DEF TypeOK
  <2> QED BY <1>1, <1>2, <2>2, <2>3, <2>4, <2>5, <2>6, <2>7, <2>8
<1>10. CASE bar[g] # 0
  <2>1. Spins(u) /\ Gate(u) = g /\ bar[g] = Sign(u)
    <3>1. PICK s \in Threads : Spins(s) /\ Gate(s) = g /\ bar[g] = Sign(s)
      BY <1>3, <1>10 DEF WordsInUse
    <3> QED BY <1>6, <1>7, <3>1
  <2>2. bar'[g] = 0
    BY <1>4, <1>7, <2>1
  <2>3. ~ Crossed(u) /\ Crossed(t)' /\ Crossed(u)'
    BY <1>8, <1>10, <2>1, <2>2
  <2>4. /\ pc[u] = Waiting[pc[t]]
        /\ k[t] = k[u]
        /\ pc[t] \in {"arrive_rep", "arrive5", "arrive6", "arrive7"} => x[t] = x[u] /\ y[t] = y[u]
        /\ pc[t] \in {"arrive_rep", "arrive5"} => rep[t] = rep[u] /\ warm[t] = warm[u]
    BY <1>1, <2>1, <2>3, MeetingTells
  <2>5. Ahead(t)' = Ahead(u)'
    <3>1. AheadTable(t)' /\ AheadTable(u)'
      BY AheadAt
    <3>2. pc'[u] = pc'[t]
      BY <1>1, <1>2, <2>4 DEF Still
    <3> QED
      BY <1>1, <1>2, <2>3, <2>4, <3>1, <3>2, Tables
      DEF AheadTable, Arriving, AfterRep, AtSix, AfterSix, AtSeven
  <2>6. InStep'
    BY <2>5 DEF InStep, Threads
  <2>7. WordsInUse'
    <3>1. ASSUME NEW w \in Barriers, bar'[w] # 0
          PROVE  \E s \in Threads : Spins(s)' /\ Gate(s)' = w /\ bar'[w] = Sign(s)
      <4>1. PICK s \in Threads : Spins(s) /\ Gate(s) = w /\ bar[w] = Sign(s) /\ w # g
        BY <1>4, <2>2, <3>1 DEF WordsInUse
      <4> QED BY <1>6, <1>7, <2>1, <4>1
    <3>2. ASSUME NEW s \in Threads, Spins(s)' PROVE bar'[Gate(s)'] \in {0, Sign(s)}
      BY <1>3, <1>5, <1>7, <2>1, <2>2
    <3> QED BY <3>1, <3>2 DEF WordsInUse, Sign
  <2>8. bar' \in [Barriers -> {-1, 0, 1}]
    BY <1>3, <1>4, <2>2 DEF TypeOK
  <2> QED BY <1>1, <1>2, <2>3, <2>4, <2>6, <2>7, <2>8
<1> QED BY <1>9, <1>10

(* A thread that reads 0 leaves the barrier, on the way to the meeting it was *)
(* on the way to already.                                                     *)
LEMMA OnePasses ==
  ASSUME TypeOK, Loops, WordsInUse, InStep, NEW t \in Threads, NEW u \in Threads, u # t,
         Pass(t)
  PROVE  /\ WordsInUse' /\ InStep' /\ Still(u) /\ (Crossed(u)' <=> Crossed(u))
         /\ Ahead(u)' = Ahead(u) /\ Ahead(t)' = Ahead(t)
         /\ Crossed(t) /\ pc'[t] = After[pc[t]][t + 1]
<1>1. /\ pc[t] \in Spinning /\ pc'[t] = After[pc[t]][t + 1] /\ pc'[t] \notin Spinning
      /\ x' = x /\ y' = y /\ k' = k /\ rep' = rep /\ warm' = warm
      /\ high_stdev_retry' = high_stdev_retry /\ bar' = bar /\ Crossed(t)
  BY Tables DEF Pass, Goto, TypeOK, Arriving, Spinning, loops, table, Crossed, Threads
<1>2. Still(u)
  BY <1>1 DEF Pass, Goto, TypeOK, Still
<1>3. Spins(u) => Gate(u)' = Gate(u)
  BY <1>2, GateStays, Tables DEF Spins
<1>4. (Spins(u)' <=> Spins(u)) /\ ~ Spins(t)' /\ Spins(t)
  BY <1>1, <1>2, Tables DEF Spins, Still
<1>5. Crossed(u)' <=> Crossed(u)
  BY <1>1, <1>3, <1>4, Tables DEF Crossed, Spins
<1>6. Ahead(u)' = Ahead(u)
  BY <1>1, <1>2, <1>5, AheadStays
<1>7. Ahead(t)' = Ahead(t)
  <2>1. AheadTable(t) /\ AheadTable(t)'
    BY AheadAt
  <2>2. /\ AtRep(t)' = AtRep(t) /\ AfterRep(t)' = AfterRep(t)
        /\ AfterSix(t)' = AfterSix(t)
        /\ FirstOf(x[t], y[t])' = FirstOf(x[t], y[t])
        /\ AtSolo(k[t])' = AtSolo(k[t]) /\ AtSolo(k[t] + 1)' = AtSolo(k[t] + 1)
    BY <1>1 DEF AtRep, AfterRep, AfterSix, FirstOf, AtSix, AtSeven, AtSolo, NoMore
  <2>3. pc[t] = "wait5" => AtRep(t) = <<"rep", x[t], y[t], rep[t]>>
    BY DEF Loops, Before, AtRep
  <2> QED
    BY <1>1, <2>1, <2>2, <2>3, Tables DEF AheadTable, Spinning, Threads, AtSolo, NoMore, FirstOf
<1>8. InStep'
  BY <1>6, <1>7 DEF InStep, Threads
<1>9. (\A s \in Threads : s = t \/ s = u)
  BY DEF Threads
<1>10. WordsInUse'
  <2>1. ASSUME NEW w \in Barriers, bar'[w] # 0 PROVE Spins(u)' /\ Gate(u)' = w /\ bar'[w] = Sign(u)
    <3>1. PICK s \in Threads : Spins(s) /\ Gate(s) = w /\ bar[w] = Sign(s)
      BY <1>1, <2>1 DEF WordsInUse
    <3> QED BY <1>1, <1>3, <1>4, <1>9, <2>1, <3>1 DEF Crossed
  <2>2. Spins(u)' => bar'[Gate(u)'] \in {0, Sign(u)}
    BY <1>1, <1>3, <1>4 DEF WordsInUse
  <2> QED BY <1>4, <1>9, <2>1, <2>2 DEF WordsInUse, Sign
<1> QED BY <1>1, <1>2, <1>5, <1>6, <1>7, <1>8, <1>10

(* When a step leaves the other parts of the invariant alone. *)
LEMMA LinesKept ==
  ASSUME SameLine, NEW t \in Threads, NEW u \in Threads, u # t, Still(u),
         pc[t] # "load", pc'[t] # "load", cache_line' = cache_line,
         pc[u] = "load" => test_cache_line' = test_cache_line
  PROVE  SameLine'
BY DEF SameLine, Still, Threads

(* The turns at the line are kept by steps that do not touch it.             *)
LEMMA TurnsKept ==
  ASSUME TurnsTaken, InStep, NEW t \in Threads, NEW u \in Threads, u # t, Still(u),
         Crossed(u)' <=> Crossed(u), Ahead(t)' = Ahead(t), Ahead(u)' = Ahead(u),
         last' = last, cache_line' = cache_line, pc'[t] \notin Spinning,
         t = 0 => pc'[t] \notin {"touch", "next_rep"},
         t = 0 /\ pc'[t] = "arrive5" => pc[t] = "next_rep",
         t = 1 /\ pc'[t] \in {"arrive_rep", "touch"} => Kind(t) = "warm"
  PROVE  TurnsTaken'
<1>1. Measuring' = Measuring /\ Measuring = Kind(t)
  BY DEF Measuring, InStep, Kind, Threads
<1> QED
  BY <1>1 DEF TurnsTaken, Still, Spinning, Threads

(* The table is kept by steps that store nothing.                            *)
LEMMA TableKept ==
  ASSUME TableSoFar, lat_table' = lat_table, x'[0] = x[0], y'[0] = y[0],
         pc[0] \in {"arrive6", "wait6", "decide"} => high_stdev_retry' = high_stdev_retry,
         \/ pc'[0] = pc[0]
         \/ /\ pc'[0] \notin {"copy", "done"}
            /\ pc'[0] \in {"arrive6", "wait6", "decide"} => pc[0] \in {"arrive6", "wait6", "decide"}
            /\ pc[0] \in BeforePairs => pc'[0] \in BeforePairs
            /\ pc'[0] \in Crawling => pc[0] \in Crawling
  PROVE  TableSoFar'
BY DEF TableSoFar, Stored, BeforePairs
-----------------------------------------------------------------------------
(* The steps of one thread, off the barriers. *)
LEMMA SetupStep ==
  ASSUME IInv, NEW t \in Threads, NEW u \in Threads, u # t, Setup(t)
  PROVE  IInv'
<1>1. /\ t = 0 /\ u = 1 /\ pc[t] = "setup" /\ pc'[t] = "sleep" /\ bar' = bar
      /\ x' = x /\ y' = y /\ k' = k /\ rep' = rep /\ warm' = warm
      /\ high_stdev_retry' = high_stdev_retry /\ lat_table' = lat_table
      /\ cache_line' = cache_line /\ cpu'[t] = x[t] /\ cpu'[u] = cpu[u]
  BY DEF IInv, Loops, Before, Setup, Goto, TypeOK, loops, table, Threads
<1>2. Still(u) /\ TypeOK /\ pc[u] \in Pcs
  BY <1>1 DEF IInv, Setup, Goto, TypeOK, Still
<1>3. Ahead(t)' = Ahead(t) /\ Kind(t) = "sleep" /\ Kind(u) = "sleep"
  BY <1>1, <1>2, AheadAt, KindAt DEF AheadTable, KindTable, IInv, InStep, Kind
<1>4. WordsInUse' /\ InStep' /\ FlagIsRead' /\ (Crossed(u)' <=> Crossed(u)) /\ Ahead(u)' = Ahead(u)
  BY <1>1, <1>2, <1>3, OneWalks DEF IInv, Spinning
<1>5. TypeOK'
  BY DEF IInv, TypeOK, Setup, Goto, NewLine, Pcs, loops, table, Threads
<1>6. Loops'
  BY <1>1, <1>2 DEF IInv, Loops, Before, Still, OnPair, Crawling, BeforePairs, Threads
<1>7. SameLine'
  <2>1. pc[u] # "load"
    BY <1>2, <1>3, KindAt DEF KindTable
  <2> QED BY <1>1, <1>2, <2>1, LinesKept DEF IInv
<1>8. OnContexts'
  BY <1>1, <1>2 DEF IInv, OnContexts, Still
<1>9. TurnsTaken'
  BY <1>1, <1>3, <1>4 DEF TurnsTaken, Measuring, Kind
<1>10. TableSoFar'
  BY <1>1, TableKept DEF IInv, BeforePairs, Crawling
<1> QED BY <1>4, <1>5, <1>6, <1>7, <1>8, <1>9, <1>10 DEF IInv

(* The thread reads the address of the line and starts a row.                *)
LEMMA LoadStep ==
  ASSUME IInv, NEW t \in Threads, NEW u \in Threads, u # t, Load(t)
  PROVE  IInv'
<1>1. /\ pc[t] = "load" /\ pc'[t] = "pair" /\ bar' = bar
      /\ x' = x /\ y'[t] = x[t] + 1 /\ y'[u] = y[u] /\ k' = k /\ rep' = rep /\ warm' = warm
      /\ high_stdev_retry' = high_stdev_retry /\ lat_table' = lat_table
      /\ cache_line'[t] = test_cache_line /\ cache_line'[u] = cache_line[u]
      /\ test_cache_line' = test_cache_line /\ last' = last /\ cpu' = cpu
  BY DEF IInv, Load, Goto, TypeOK
<1>2. Still(u) /\ TypeOK /\ pc[u] \in Pcs /\ x[t] \in Contexts
  BY <1>1 DEF IInv, Load, Goto, TypeOK, Still
<1>3. Ahead(t)' = Ahead(t) /\ Kind(t) \in {"warm", "done"} /\ Kind(u) = Kind(t)
  BY <1>1, <1>2, AheadAt, KindAt DEF AheadTable, KindTable, IInv, InStep, Kind, Threads, FirstOf
<1>4. WordsInUse' /\ InStep' /\ FlagIsRead' /\ (Crossed(u)' <=> Crossed(u)) /\ Ahead(u)' = Ahead(u)
  BY <1>1, <1>2, <1>3, OneWalks DEF IInv, Spinning
<1>5. TypeOK'
  BY <1>2, CrawlAssumption DEF IInv, TypeOK, Load, Goto, Pcs, Contexts, Threads
<1>6. Loops'
  BY <1>1, <1>2 DEF IInv, Loops, Before, Still, OnPair, Crawling, BeforePairs, Threads, Contexts
<1>7. SameLine'
  BY <1>1, <1>2 DEF IInv, SameLine, Still, Threads
<1>8. OnContexts'
  BY <1>1, <1>2 DEF IInv, OnContexts, Still, OnPair, Threads
<1>9. TurnsTaken'
  <2>1. Measuring' = Kind(t)
    BY <1>3, <1>4 DEF Measuring, Kind, Threads
  <2>2. u = 0 => ~ (~ warm[0] /\ (pc[0] = "touch" \/ (pc[0] = "wait_rep" /\ Crossed(0))))
    BY <1>2, <1>3, AheadAt DEF AheadTable, Kind, AfterRep, AtSix
  <2> QED BY <1>1, <1>2, <1>3, <1>4, <2>1, <2>2 DEF TurnsTaken, Still, Threads
<1>10. TableSoFar'
  <2>1. CASE t = 1
    BY <1>1, <1>2, <2>1, TableKept DEF IInv, Still, Threads
  <2>2. CASE t = 0
    <3>1. pc[0] \in Crawling /\ pc'[0] \notin {"copy", "done"}
      BY <1>1, <2>2 DEF Crawling, BeforePairs
    <3>2. ASSUME NEW a \in Contexts, NEW b \in Contexts, a < b, Stored(a, b)'
          PROVE  lat_table'[<<a, b>>] \in Medians
      <4>1. a \in Int /\ b \in Int /\ x[0] \in Int
        BY <1>2, <2>2, CrawlAssumption DEF Contexts
      <4>2. Stored(a, b)
        BY <1>1, <2>2, <3>2, <4>1 DEF Stored
      <4> QED BY <1>1, <3>1, <3>2, <4>2 DEF IInv, TableSoFar
    <3> QED BY <3>1, <3>2 DEF TableSoFar
  <2> QED BY <2>1, <2>2 DEF Threads
<1> QED BY <1>4, <1>5, <1>6, <1>7, <1>8, <1>9, <1>10 DEF IInv

(* The thread starts the warmup of a pair.                                   *)
LEMMA PairStep ==
  ASSUME IInv, NEW t \in Threads, NEW u \in Threads, u # t, Pair(t)
  PROVE  IInv'
<1>1. /\ pc[t] = "pair" /\ pc'[t] = (IF t = 0 THEN "arrive_rep" ELSE "touch") /\ bar' = bar
      /\ x' = x /\ y' = y /\ y[t] < N /\ k' = k /\ rep'[t] = 0 /\ rep'[u] = rep[u]
      /\ warm'[t] = TRUE /\ warm'[u] = warm[u]
      /\ high_stdev_retry' = high_stdev_retry /\ lat_table' = lat_table
      /\ cache_line' = cache_line /\ test_cache_line' = test_cache_line /\ last' = last
      /\ cpu'[t] = (IF t = 1 THEN y[t] ELSE cpu[t]) /\ cpu'[u] = cpu[u]
  BY DEF IInv, Pair, FirstOfRep, Goto, TypeOK, table, lines, Threads
<1>2. Still(u) /\ TypeOK /\ pc[u] \in Pcs /\ x[t] \in Contexts
  BY <1>1 DEF IInv, Pair, Goto, TypeOK, Still
<1>3. Ahead(t)' = Ahead(t) /\ Kind(t) = "warm" /\ Kind(u) = Kind(t)
  <2>1. Ahead(t) = <<"warm", x[t], y[t], 0>>
    BY <1>1, AheadAt DEF AheadTable, FirstOf
  <2>2. Ahead(t)' = <<"warm", x[t], y[t], 0>>
    BY <1>1, AheadAt DEF AheadTable, AtRep, Threads
  <2> QED BY <2>1, <2>2 DEF IInv, InStep, Kind, Threads
<1>4. WordsInUse' /\ InStep' /\ FlagIsRead' /\ (Crossed(u)' <=> Crossed(u)) /\ Ahead(u)' = Ahead(u)
  BY <1>1, <1>2, <1>3, OneWalks DEF IInv, Spinning
<1>5. TypeOK'
  BY <1>2, CrawlAssumption DEF IInv, TypeOK, Pair, FirstOfRep, Goto, Pcs, Contexts, Threads, table, lines, Waiting
<1>6. Loops'
  BY <1>1, <1>2 DEF IInv, Loops, Before, Still, OnPair, Crawling, BeforePairs, Threads
<1>7. SameLine'
  BY <1>1, <1>2, LinesKept DEF IInv, Threads
<1>8. OnContexts'
  BY <1>1, <1>2 DEF IInv, OnContexts, Still, OnPair, Threads
<1>9. TurnsTaken'
  BY <1>1, <1>2, <1>3, <1>4, TurnsKept DEF IInv, Spinning, Threads
<1>10. TableSoFar'
  BY <1>1, <1>2, TableKept DEF IInv, Still, Threads, Crawling, BeforePairs
<1> QED BY <1>4, <1>5, <1>6, <1>7, <1>8, <1>9, <1>10 DEF IInv

(* The thread updates the line (ATOMIC_OP).                                  *)
LEMMA TouchStep ==
  ASSUME IInv, NEW t \in Threads, NEW u \in Threads, u # t, Touch(t)
  PROVE  IInv'
<1>1. /\ pc[t] = "touch" /\ pc'[t] = (IF t = 0 THEN "next_rep" ELSE "arrive_rep") /\ bar' = bar
      /\ x' = x /\ y' = y /\ k' = k /\ rep' = rep /\ warm' = warm
      /\ high_stdev_retry' = high_stdev_retry /\ lat_table' = lat_table
      /\ cache_line' = cache_line /\ test_cache_line' = test_cache_line
      /\ last'[cache_line[t]] = t /\ cpu' = cpu
  BY DEF IInv, Touch, Goto, TypeOK, table, loops, Threads
<1>2. Still(u) /\ TypeOK /\ pc[u] \in Pcs
  BY <1>1 DEF IInv, Touch, Goto, TypeOK, Still
<1>3. Ahead(t)' = Ahead(t) /\ Kind(u) = Kind(t)
  <2>1. AtRep(t)' = AtRep(t) /\ AfterRep(t)' = AfterRep(t)
    BY <1>1 DEF AtRep, AfterRep, AtSix
  <2> QED BY <1>1, <2>1, AheadAt DEF AheadTable, IInv, InStep, Kind, Threads
<1>4. WordsInUse' /\ InStep' /\ FlagIsRead' /\ (Crossed(u)' <=> Crossed(u)) /\ Ahead(u)' = Ahead(u)
  BY <1>1, <1>2, <1>3, OneWalks DEF IInv, Spinning
<1>5. TypeOK'
  BY <1>2 DEF IInv, TypeOK, Touch, Goto, Pcs, Threads, table, loops, Waiting
<1>6. Loops'
  BY <1>1, <1>2 DEF IInv, Loops, Before, Still, OnPair, Crawling, BeforePairs, Threads
<1>7. SameLine'
  BY <1>1, <1>2, LinesKept DEF IInv, Threads
<1>8. OnContexts'
  BY <1>1, <1>2 DEF IInv, OnContexts, Still, OnPair, Threads
<1>9. TurnsTaken'
  <2>1. Measuring' = Kind(t)
    BY <1>3, <1>4 DEF Measuring, Kind, Threads
  <2>2. CASE t = 0
    BY <1>1, <1>2, <1>3, <2>1, <2>2, KindAt DEF KindTable, TurnsTaken
  <2>3. CASE t = 1
    <3>1. ~ (~ warm[0] /\ (pc[0] = "touch" \/ (pc[0] = "wait_rep" /\ Crossed(0))))
      <4>1. Kind(0) \in {"warm", "rep"}
        BY <1>1, <1>2, <1>3, <2>3, KindAt DEF KindTable, Threads
      <4> QED BY <4>1, AheadAt DEF AheadTable, Kind, AfterRep, AtSix, Threads
    <3>2. pc[0] \in {"next_rep", "arrive5", "wait5"} => Kind(t) # "five"
      BY <1>1, <1>2, <1>3, <2>3, KindAt DEF KindTable, Threads
    <3> QED
      BY <1>1, <1>2, <1>4, <2>1, <2>3, <3>1, <3>2 DEF TurnsTaken, Still, Threads
  <2> QED BY <2>2, <2>3 DEF Threads
<1>10. TableSoFar'
  BY <1>1, <1>2, TableKept DEF IInv, Still, Threads, Crawling, BeforePairs, OnPair
<1> QED BY <1>4, <1>5, <1>6, <1>7, <1>8, <1>9, <1>10 DEF IInv

(* The thread goes to the next repetition, or to the statistics.             *)
LEMMA NextRepStep ==
  ASSUME IInv, NEW t \in Threads, NEW u \in Threads, u # t, NextRep(t)
  PROVE  IInv'
<1>1. /\ pc[t] = "next_rep" /\ bar' = bar
      /\ x' = x /\ y' = y /\ k' = k
      /\ high_stdev_retry' = high_stdev_retry /\ lat_table' = lat_table
      /\ cache_line' = cache_line /\ test_cache_line' = test_cache_line /\ last' = last
      /\ cpu' = cpu
  BY DEF NextRep, table, lines
<1>2. \/ /\ warm[t] /\ warm'[t] /\ rep[t] < Warmups /\ rep'[t] = rep[t] + 1
         /\ pc'[t] = IF t = 0 THEN "arrive_rep" ELSE "touch"
      \/ /\ warm[t] /\ ~ warm'[t] /\ rep[t] = Warmups /\ rep'[t] = 0
         /\ pc'[t] = "arrive5"
      \/ /\ ~ warm[t] /\ ~ warm'[t] /\ rep[t] + 1 < Reps /\ rep'[t] = rep[t] + 1
         /\ pc'[t] = "arrive5"
      \/ /\ ~ warm[t] /\ ~ warm'[t] /\ rep[t] + 1 = Reps /\ rep'[t] = rep[t]
         /\ pc'[t] = "stats"
  BY DEF IInv, NextRep, FirstOfRep, Goto, TypeOK, Threads
<1>3. Still(u) /\ TypeOK /\ pc[u] \in Pcs /\ rep[t] \in Nat
  BY <1>1 DEF IInv, NextRep, Goto, TypeOK, Still
<1>4. Ahead(t)' = Ahead(t) /\ Kind(u) = Kind(t) /\ (pc'[t] = "touch" => Kind(t) = "warm")
  <2>1. Ahead(t) = AfterRep(t) /\ AheadTable(t)'
    BY <1>1, AheadAt DEF AheadTable
  <2>2. Kind(u) = Kind(t)
    BY DEF IInv, InStep, Kind, Threads
  <2> QED
    BY <1>1, <1>2, <1>3, <2>1, <2>2, CrawlAssumption
    DEF AheadTable, AfterRep, AtRep, AtFive, AtSix, Kind, Threads
<1>5. WordsInUse' /\ InStep' /\ FlagIsRead' /\ (Crossed(u)' <=> Crossed(u)) /\ Ahead(u)' = Ahead(u)
  BY <1>1, <1>2, <1>3, <1>4, OneWalks DEF IInv, Spinning
<1>6. TypeOK'
  <2>1. pc' \in [Threads -> Pcs]
    BY <1>3 DEF TypeOK, NextRep, FirstOfRep, Goto, Pcs, Threads, Waiting
  <2>2. rep' \in [Threads -> Nat]
    BY <1>3 DEF TypeOK, NextRep
  <2>3. warm' = warm \/ warm' = [warm EXCEPT ![t] = FALSE]
    BY DEF NextRep
  <2>4. warm' \in [Threads -> BOOLEAN]
    BY <1>3, <2>3 DEF TypeOK
  <2> QED BY <1>1, <1>3, <2>1, <2>2, <2>4 DEF TypeOK, NextRep, table
<1>7. Loops'
  BY <1>1, <1>2, <1>3 DEF IInv, Loops, Before, Still, OnPair, Crawling, BeforePairs, Threads
<1>8. SameLine'
  BY <1>1, <1>2, <1>3, LinesKept DEF IInv, Threads
<1>9. OnContexts'
  BY <1>1, <1>2, <1>3 DEF IInv, OnContexts, Still, OnPair, Threads
<1>10. TurnsTaken'
  BY <1>1, <1>2, <1>3, <1>4, <1>5, TurnsKept DEF IInv, Spinning, Threads
<1>11. TableSoFar'
  BY <1>1, <1>2, <1>3, TableKept DEF IInv, Still, Threads, Crawling, BeforePairs, OnPair
<1> QED BY <1>5, <1>6, <1>7, <1>8, <1>9, <1>10, <1>11 DEF IInv

(* Thread 1 stores its median in the other half of the table.                *)
LEMMA Stats1Step ==
  ASSUME IInv, NEW m \in Medians \cup {Negative}, Stats1(m)
  PROVE  IInv'
<1>1. /\ pc[1] = "stats" /\ pc'[1] = "arrive6" /\ bar' = bar
      /\ x' = x /\ y' = y /\ k' = k /\ rep' = rep /\ warm' = warm
      /\ high_stdev_retry' = high_stdev_retry /\ cpu' = cpu
      /\ lat_table' = [lat_table EXCEPT ![<<y[1], x[1]>>] = m]
      /\ cache_line' = cache_line /\ test_cache_line' = test_cache_line /\ last' = last
  BY DEF IInv, Stats1, Goto, TypeOK, lines, loops, Threads
<1>2. Still(0) /\ TypeOK /\ pc[0] \in Pcs
  BY <1>1 DEF IInv, Stats1, Goto, TypeOK, Still, Threads
<1>3. Ahead(1)' = Ahead(1) /\ Kind(0) = "six" /\ Kind(1) = "six"
  BY <1>1, <1>2, AheadAt, KindAt DEF AheadTable, KindTable, IInv, InStep, Kind, Threads, AtSix
<1>4. 0 \in Threads /\ 1 \in Threads
  BY DEF Threads
<1>5. WordsInUse' /\ InStep' /\ FlagIsRead' /\ (Crossed(0)' <=> Crossed(0)) /\ Ahead(0)' = Ahead(0)
  BY <1>1, <1>2, <1>3, <1>4, OneWalks DEF IInv, Spinning
<1>6. x[1] \in Contexts /\ y[1] \in Contexts /\ x[1] < y[1]
  BY <1>1, <1>2, <1>4, CrawlAssumption DEF IInv, TypeOK, Loops, Before, OnPair, Contexts
<1>7. TypeOK'
  <2>1. lat_table' \in [Contexts \X Contexts -> Medians \cup {Negative, 0}]
    BY <1>1, <1>2, <1>6 DEF TypeOK
  <2> QED BY <1>1, <1>2, <1>4, <2>1 DEF TypeOK, Stats1, Goto, Pcs, Waiting
<1>8. Loops'
  BY <1>1, <1>2 DEF IInv, Loops, Before, Still, OnPair, Crawling, BeforePairs, Threads
<1>9. SameLine'
  BY <1>1, <1>2, <1>4, LinesKept DEF IInv
<1>10. OnContexts'
  BY <1>1, <1>2 DEF IInv, OnContexts, Still, OnPair
<1>11. TurnsTaken'
  BY <1>1, <1>2, <1>3, <1>4, <1>5, TurnsKept DEF IInv, Spinning
<1>12. TableSoFar'
  <2>1. pc[0] \notin {"copy", "done"}
    BY <1>2, <1>3, <1>4, KindAt DEF KindTable
  <2>2. ASSUME NEW a \in Contexts, NEW b \in Contexts, a < b
        PROVE  lat_table'[<<a, b>>] = lat_table[<<a, b>>]
    BY <1>1, <1>2, <1>6, <2>2, CrawlAssumption DEF TypeOK, Contexts
  <2>3. \A a, b : Stored(a, b)' <=> Stored(a, b)
    BY <1>1, <1>2 DEF Stored, Still
  <2> QED BY <1>1, <1>2, <2>1, <2>2, <2>3 DEF IInv, TableSoFar, Still
<1> QED BY <1>5, <1>7, <1>8, <1>9, <1>10, <1>11, <1>12 DEF IInv

(* Thread 0 judges the repetitions and stores their median, or asks for a    *)
(* retry.                                                                    *)
LEMMA Stats0Step ==
  ASSUME IInv, NEW m \in Medians \cup {Negative}, NEW s \in Stdevs, Stats0(m, s)
  PROVE  IInv'
<1>1. /\ pc[0] = "stats" /\ pc'[0] = "arrive6" /\ bar' = bar
      /\ x' = x /\ y' = y /\ k' = k /\ rep' = rep /\ warm' = warm
      /\ cpu' = cpu /\ cache_line' = cache_line
  BY DEF IInv, Stats0, Goto, TypeOK, loops, Threads
<1>2. Still(1) /\ TypeOK /\ pc[1] \in Pcs
  BY <1>1 DEF IInv, Stats0, Goto, TypeOK, Still, Threads
<1>3. Ahead(0)' = Ahead(0) /\ Kind(0) = "six" /\ Kind(1) = "six"
  BY <1>1, <1>2, AheadAt, KindAt DEF AheadTable, KindTable, IInv, InStep, Kind, Threads, AtSix
<1>4. 0 \in Threads /\ 1 \in Threads
  BY DEF Threads
<1>5. ~ BehindSix(1) /\ pc[1] # "load"
  BY <1>2, <1>3, <1>4, KindAt DEF KindTable, BehindSix, NewPairs
<1>6. WordsInUse' /\ InStep' /\ FlagIsRead' /\ (Crossed(1)' <=> Crossed(1)) /\ Ahead(1)' = Ahead(1)
  BY <1>1, <1>2, <1>3, <1>4, <1>5, OneWalks DEF IInv, Spinning
<1>7. x[0] \in Contexts /\ y[0] \in Contexts /\ x[0] < y[0]
  BY <1>1, <1>2, <1>4, CrawlAssumption DEF IInv, TypeOK, Loops, Before, OnPair, Contexts
<1>8. \/ high_stdev_retry' = 1 /\ lat_table' = lat_table
      \/ /\ m \in Medians
         /\ high_stdev_retry' = 1 \/ high_stdev_retry' = high_stdev_retry
         /\ lat_table' = [lat_table EXCEPT ![<<x[0], y[0]>>] = m]
  BY DEF Stats0, AskRetry
<1>9. TypeOK'
  <2>1. lat_table' \in [Contexts \X Contexts -> Medians \cup {Negative, 0}]
    BY <1>2, <1>7, <1>8 DEF TypeOK
  <2>2. /\ high_stdev_retry' \in {0, 1}
        /\ history_med' \in (Medians \cup {0}) \X (Medians \cup {0})
        /\ test_cache_line' \in Lines /\ last' \in [Lines -> Threads \cup {2}]
    BY <1>2 DEF TypeOK, Stats0, AskRetry, NewLine
  <2> QED BY <1>1, <1>2, <1>4, <2>1, <2>2 DEF TypeOK, Stats0, Goto, Pcs, Waiting
<1>10. Loops'
  BY <1>1, <1>2 DEF IInv, Loops, Before, Still, OnPair, Crawling, BeforePairs, Threads
<1>11. SameLine'
  BY <1>1, <1>2, <1>4, <1>5, LinesKept DEF IInv
<1>12. OnContexts'
  BY <1>1, <1>2 DEF IInv, OnContexts, Still, OnPair
<1>13. TurnsTaken'
  BY <1>1, <1>3, <1>6 DEF TurnsTaken, Measuring, Kind
<1>14. TableSoFar'
  <2>1. pc'[0] \notin {"copy", "done"} /\ pc[0] \in Crawling
    BY <1>1 DEF Crawling, OnPair
  <2>2. ASSUME NEW a \in Contexts, NEW b \in Contexts, a < b, Stored(a, b)'
        PROVE  lat_table'[<<a, b>>] \in Medians
    <3>1. CASE a = x[0] /\ b = y[0]
      BY <1>1, <1>2, <1>7, <1>8, <2>2, <3>1, CrawlAssumption DEF Stored, TypeOK, BeforePairs, Contexts
    <3>2. CASE ~ (a = x[0] /\ b = y[0])
      <4>1. Stored(a, b)
        BY <1>1, <2>2, <3>2 DEF Stored, BeforePairs
      <4>2. lat_table'[<<a, b>>] = lat_table[<<a, b>>]
        BY <1>2, <1>7, <1>8, <3>2 DEF TypeOK
      <4> QED BY <2>1, <2>2, <4>1, <4>2 DEF IInv, TableSoFar
    <3> QED BY <3>1, <3>2
  <2> QED BY <2>1, <2>2 DEF TableSoFar
<1> QED BY <1>6, <1>9, <1>10, <1>11, <1>12, <1>13, <1>14 DEF IInv

(* The thread reads the flag behind barrier 6.                               *)
LEMMA DecideStep ==
  ASSUME IInv, NEW t \in Threads, NEW u \in Threads, u # t, Decide(t)
  PROVE  IInv'
<1>1. /\ pc[t] = "decide" /\ bar' = bar
      /\ x' = x /\ k' = k /\ rep' = rep /\ warm' = warm /\ y'[u] = y[u]
      /\ high_stdev_retry' = high_stdev_retry /\ lat_table' = lat_table
      /\ cache_line' = cache_line /\ test_cache_line' = test_cache_line /\ last' = last
      /\ cpu' = cpu
  BY DEF IInv, TypeOK, Decide, lines
<1>2. \/ high_stdev_retry = 1 /\ pc'[t] = "arrive7" /\ y'[t] = y[t]
      \/ high_stdev_retry = 0 /\ pc'[t] = "pair" /\ y'[t] = y[t] + 1
  BY DEF IInv, TypeOK, Decide, Goto
<1>3. Still(u) /\ TypeOK /\ pc[u] \in Pcs
  BY <1>1 DEF IInv, Decide, Goto, TypeOK, Still
<1>4. /\ y[t] < N /\ x[t] < y[t] /\ y[t] \in Contexts /\ y[t] + 1 \in 0..N
      /\ x[t] \in Contexts
  BY <1>1, <1>3, CrawlAssumption DEF IInv, TypeOK, Loops, Before, OnPair, Contexts
<1>5. Ahead(t)' = Ahead(t)
  <2>1. Ahead(t) = AfterSix(t) /\ AheadTable(t)'
    BY <1>1, AheadAt DEF AheadTable
  <2> QED BY <1>1, <1>2, <2>1 DEF AheadTable, AfterSix, AtSeven, FirstOf
<1>6. WordsInUse' /\ InStep' /\ FlagIsRead' /\ (Crossed(u)' <=> Crossed(u)) /\ Ahead(u)' = Ahead(u)
  BY <1>1, <1>2, <1>3, <1>5, OneWalks DEF IInv, Spinning
<1>7. TypeOK'
  <2>1. y' \in [Threads -> 0..N]
    BY <1>3, <1>4 DEF TypeOK, Decide
  <2>2. max_stdev' \in [Threads -> MaxStdev..2 * MaxStdev]
    BY <1>3, CrawlAssumption DEF TypeOK, Decide
  <2>3. history_med' \in (Medians \cup {0}) \X (Medians \cup {0})
    BY <1>3 DEF TypeOK, Decide
  <2>4. pc' \in [Threads -> Pcs]
    BY <1>3 DEF TypeOK, Decide, Goto, Pcs, Waiting
  <2> QED BY <1>1, <1>3, <2>1, <2>2, <2>3, <2>4 DEF TypeOK
<1>8. Loops'
  BY <1>1, <1>2, <1>3, <1>4 DEF IInv, Loops, Before, Still, OnPair, Crawling, BeforePairs, Threads, Contexts
<1>9. SameLine'
  BY <1>1, <1>2, <1>3, LinesKept DEF IInv
<1>10. OnContexts'
  BY <1>1, <1>2, <1>3 DEF IInv, OnContexts, Still, OnPair, Threads
<1>11. TurnsTaken'
  BY <1>1, <1>2, <1>3, <1>5, <1>6, TurnsKept DEF IInv, Spinning
<1>12. TableSoFar'
  <2>1. CASE t = 1
    BY <1>1, <1>3, <2>1, TableKept DEF IInv, Still, Threads
  <2>2. CASE t = 0
    <3>1. pc[0] \in Crawling /\ pc'[0] \notin {"copy", "done"}
      BY <1>1, <1>2, <2>2 DEF Crawling, OnPair
    <3>2. ASSUME NEW a \in Contexts, NEW b \in Contexts, a < b, Stored(a, b)'
          PROVE  Stored(a, b)
      <4>1. b \in Int /\ y[0] \in Int
        BY <1>4, <2>2, CrawlAssumption DEF Contexts
      <4> QED BY <1>1, <1>2, <2>2, <3>2, <4>1 DEF Stored, BeforePairs
    <3> QED BY <1>1, <3>1, <3>2 DEF IInv, TableSoFar
  <2> QED BY <2>1, <2>2 DEF Threads
<1> QED BY <1>6, <1>7, <1>8, <1>9, <1>10, <1>11, <1>12 DEF IInv

(* The thread resets the flag behind barrier 7.                              *)
LEMMA ResetStep ==
  ASSUME IInv, NEW t \in Threads, NEW u \in Threads, u # t, Reset(t)
  PROVE  IInv'
<1>1. /\ pc[t] = "reset" /\ pc'[t] = "pair" /\ bar' = bar
      /\ x' = x /\ y' = y /\ k' = k /\ rep' = rep /\ warm' = warm
      /\ high_stdev_retry' = 0 /\ lat_table' = lat_table
      /\ cache_line' = cache_line /\ test_cache_line' = test_cache_line /\ last' = last
      /\ cpu' = cpu
  BY DEF IInv, TypeOK, Reset, Goto, lines, loops
<1>2. Still(u) /\ TypeOK /\ pc[u] \in Pcs
  BY <1>1 DEF IInv, Reset, Goto, TypeOK, Still
<1>3. u = 1 - t /\ ~ BehindSix(u)
  BY <1>1 DEF IInv, FlagIsRead, BehindSeven, Threads
<1>4. Ahead(t)' = Ahead(t)
  BY <1>1, AheadAt DEF AheadTable, FirstOf
<1>5. WordsInUse' /\ InStep' /\ FlagIsRead' /\ (Crossed(u)' <=> Crossed(u)) /\ Ahead(u)' = Ahead(u)
  BY <1>1, <1>2, <1>3, <1>4, OneWalks DEF IInv, Spinning
<1>6. TypeOK'
  <2>1. max_stdev' \in [Threads -> MaxStdev..2 * MaxStdev]
    BY <1>2, CrawlAssumption DEF TypeOK, Reset
  <2>2. pc' \in [Threads -> Pcs]
    BY <1>2 DEF TypeOK, Reset, Goto, Pcs
  <2> QED BY <1>1, <1>2, <2>1, <2>2 DEF TypeOK, Reset
<1>7. Loops'
  BY <1>1, <1>2 DEF IInv, Loops, Before, Still, OnPair, Crawling, BeforePairs, Threads
<1>8. SameLine'
  BY <1>1, <1>2, LinesKept DEF IInv
<1>9. OnContexts'
  BY <1>1, <1>2 DEF IInv, OnContexts, Still, OnPair, Threads
<1>10. TurnsTaken'
  BY <1>1, <1>2, <1>4, <1>5, TurnsKept DEF IInv, Spinning
<1>11. TableSoFar'
  <2>1. CASE t = 0
    BY <1>1, <2>1, TableKept DEF IInv, BeforePairs, Crawling, OnPair
  <2>2. CASE t = 1
    <3>1. pc[0] \notin {"wait6", "decide", "arrive6"} \/ (pc[0] \in {"arrive6", "wait6"} /\ ~ Crossed(0))
      BY <1>3, <2>2, Tables DEF BehindSix, Crossed, Spinning
    <3>2. Kind(0) \in NewPairs
      BY <1>1, <1>2, <2>2, KindAt DEF KindTable, IInv, InStep, Kind, Threads
    <3>3. pc[0] \notin {"wait6", "decide", "arrive6"}
      BY <1>2, <1>3, <2>2, <3>1, <3>2, KindAt DEF KindTable, NewPairs
    <3> QED BY <1>1, <1>2, <2>2, <3>3, TableKept DEF IInv, Still, Threads
  <2> QED BY <2>1, <2>2 DEF Threads
<1> QED BY <1>5, <1>6, <1>7, <1>8, <1>9, <1>10, <1>11 DEF IInv

(* The row is done: the next one, or the end.                                *)
LEMMA NextXStep ==
  ASSUME IInv, NEW t \in Threads, NEW u \in Threads, u # t, NextX(t)
  PROVE  IInv'
<1>1. /\ pc[t] = "pair" /\ y[t] >= N /\ bar' = bar
      /\ x'[u] = x[u] /\ y' = y /\ k' = k /\ rep' = rep /\ warm' = warm
      /\ high_stdev_retry' = high_stdev_retry /\ lat_table' = lat_table
      /\ cache_line' = cache_line /\ test_cache_line' = test_cache_line /\ last' = last
      /\ cpu' = cpu
  BY DEF IInv, TypeOK, NextX, table, lines
<1>2. \/ /\ x[t] + 1 < N /\ x'[t] = x[t] + 1
         /\ pc'[t] = IF t = 0 THEN "setup" ELSE "sleep"
      \/ /\ x[t] + 1 = N /\ x'[t] = x[t]
         /\ pc'[t] = IF t = 0 THEN "copy" ELSE "done"
  BY DEF IInv, TypeOK, NextX, Goto
<1>3. Still(u) /\ TypeOK /\ pc[u] \in Pcs
  BY <1>1 DEF IInv, NextX, Goto, TypeOK, Still
<1>4. x[t] \in Contexts /\ y[t] \in 0..N /\ (x[t] + 1 < N => x[t] + 1 \in Contexts)
  BY <1>3, CrawlAssumption DEF TypeOK, Contexts
<1>5. Ahead(t)' = Ahead(t)
  <2>1. Ahead(t) = FirstOf(x[t], y[t]) /\ AheadTable(t)'
    BY <1>1, AheadAt DEF AheadTable
  <2>2. ~ (y[t] < N)
    BY <1>1, <1>4, CrawlAssumption
  <2>3. x[t] \in Int /\ N \in Int
    BY <1>4, CrawlAssumption DEF Contexts
  <2> QED BY <1>1, <1>2, <2>1, <2>2, <2>3 DEF AheadTable, FirstOf
<1>6. WordsInUse' /\ InStep' /\ FlagIsRead' /\ (Crossed(u)' <=> Crossed(u)) /\ Ahead(u)' = Ahead(u)
  BY <1>1, <1>2, <1>3, <1>5, OneWalks DEF IInv, Spinning
<1>7. TypeOK'
  <2>1. x' \in [Threads -> Contexts]
    BY <1>3, <1>4 DEF TypeOK, NextX
  <2>2. pc' \in [Threads -> Pcs]
    BY <1>3 DEF TypeOK, NextX, Goto, Pcs
  <2> QED BY <1>1, <1>3, <2>1, <2>2 DEF TypeOK, NextX, table
<1>8. Loops'
  BY <1>1, <1>2, <1>3, <1>4, CrawlAssumption
  DEF IInv, Loops, Before, Still, OnPair, Crawling, BeforePairs, Threads, Contexts
<1>9. SameLine'
  BY <1>1, <1>2, <1>3, LinesKept DEF IInv
<1>10. OnContexts'
  BY <1>1, <1>2, <1>3 DEF IInv, OnContexts, Still, OnPair, Threads
<1>11. TurnsTaken'
  BY <1>1, <1>2, <1>3, <1>5, <1>6, TurnsKept DEF IInv, Spinning
<1>12. TableSoFar'
  <2>1. CASE t = 1
    BY <1>1, <1>3, <2>1, TableKept DEF IInv, Still, Threads
  <2>2. CASE t = 0
    <3>1. pc[0] \in Crawling /\ pc'[0] # "done" /\ y'[0] >= N
      BY <1>1, <1>2, <2>2 DEF Crawling, OnPair
    <3>2. ASSUME NEW a \in Contexts, NEW b \in Contexts, a < b, Stored(a, b)'
          PROVE  Stored(a, b)
      <4>1. a \in Int /\ b \in Int /\ b < N /\ x[0] \in Int /\ y[0] \in Int /\ N \in Int
        BY <1>4, <2>2, CrawlAssumption DEF Contexts
      <4>2. b < y[0]
        BY <1>1, <2>2, <4>1
      <4> QED BY <1>1, <1>2, <2>2, <3>2, <4>1, <4>2 DEF Stored, BeforePairs
    <3> QED BY <1>1, <3>1, <3>2 DEF IInv, TableSoFar
  <2> QED BY <2>1, <2>2 DEF Threads
<1> QED BY <1>6, <1>7, <1>8, <1>9, <1>10, <1>11, <1>12 DEF IInv

(* Thread 0 copies its half of the table over the other.                     *)
LEMMA CopyStep ==
  ASSUME IInv, NEW t \in Threads, NEW u \in Threads, u # t, Copy(t)
  PROVE  IInv'
<1>1. /\ pc[t] = "copy" /\ pc'[t] = "done" /\ bar' = bar /\ t = 0
      /\ x' = x /\ y' = y /\ k' = k /\ rep' = rep /\ warm' = warm
      /\ high_stdev_retry' = high_stdev_retry
      /\ cache_line' = cache_line /\ test_cache_line' = test_cache_line /\ last' = last
      /\ cpu' = cpu
  BY DEF IInv, TypeOK, Copy, Goto, lines, loops, Loops, Before
<1>2. Still(u) /\ TypeOK /\ pc[u] \in Pcs
  BY <1>1 DEF IInv, Copy, Goto, TypeOK, Still
<1>3. Ahead(t)' = Ahead(t)
  BY <1>1, AheadAt DEF AheadTable
<1>4. WordsInUse' /\ InStep' /\ FlagIsRead' /\ (Crossed(u)' <=> Crossed(u)) /\ Ahead(u)' = Ahead(u)
  BY <1>1, <1>2, <1>3, OneWalks DEF IInv, Spinning
<1>5. ASSUME NEW a \in Contexts, NEW b \in Contexts
      PROVE  lat_table'[<<a, b>>] = IF a < b THEN lat_table[<<a, b>>] ELSE lat_table[<<b, a>>]
  BY DEF Copy
<1>6. TypeOK'
  <2>1. lat_table' \in [Contexts \X Contexts -> Medians \cup {Negative, 0}]
    BY <1>2 DEF TypeOK, Copy
  <2>2. pc' \in [Threads -> Pcs]
    BY <1>2 DEF TypeOK, Copy, Goto, Pcs
  <2> QED BY <1>1, <1>2, <2>1, <2>2 DEF TypeOK, Copy
<1>7. Loops'
  BY <1>1, <1>2 DEF IInv, Loops, Before, Still, OnPair, Crawling, BeforePairs, Threads
<1>8. SameLine'
  BY <1>1, <1>2, LinesKept DEF IInv
<1>9. OnContexts'
  BY <1>1, <1>2 DEF IInv, OnContexts, Still, OnPair, Threads
<1>10. TurnsTaken'
  BY <1>1, <1>2, <1>3, <1>4, TurnsKept DEF IInv, Spinning
<1>11. TableSoFar'
  <2>1. \A a, b : Stored(a, b)' => Stored(a, b)
    BY <1>1 DEF Stored, BeforePairs
  <2>2. pc[0] \in Crawling /\ y'[0] >= N
    BY <1>1 DEF Crawling, IInv, TableSoFar
  <2>3. ASSUME NEW a \in Contexts, NEW b \in Contexts
        PROVE  lat_table'[<<a, b>>] = lat_table'[<<b, a>>]
    <3>1. a = b \/ (a < b /\ ~ (b < a)) \/ (b < a /\ ~ (a < b))
      BY CrawlAssumption DEF Contexts
    <3> QED BY <1>5, <3>1
  <2> QED BY <1>5, <2>1, <2>2, <2>3 DEF IInv, TableSoFar
<1> QED BY <1>4, <1>6, <1>7, <1>8, <1>9, <1>10, <1>11 DEF IInv

(* The steps of the SMT test, which only move the thread and count. *)
LEMMA SmtStep ==
  ASSUME IInv, NEW t \in Threads, NEW u \in Threads, u # t,
         SmtNext(t) \/ Solo(t) \/ Duo(t)
  PROVE  IInv'
<1>1. /\ bar' = bar /\ x' = x /\ y' = y /\ rep' = rep /\ warm' = warm /\ k'[u] = k[u]
      /\ high_stdev_retry' = high_stdev_retry /\ lat_table' = lat_table
      /\ history_med' = history_med /\ max_stdev' = max_stdev
      /\ cache_line' = cache_line /\ test_cache_line' = test_cache_line /\ last' = last
      /\ cpu' = cpu
  BY DEF IInv, TypeOK, SmtNext, Solo, Duo, table, lines, loops
<1>2. \/ /\ pc[t] = "smt_next" /\ k'[t] = k[t]
         /\ \/ k[t] < NumSmt /\ pc'[t] = "arrive2"
            \/ ~ (k[t] < NumSmt) /\ pc'[t] = "end"
      \/ pc[t] = "solo" /\ k'[t] = k[t] /\ pc'[t] = "join1"
      \/ pc[t] = "duo" /\ k'[t] = k[t] + 1 /\ pc'[t] = "smt_next"
  BY DEF IInv, TypeOK, SmtNext, Solo, Duo, Goto
<1>3. Still(u) /\ TypeOK /\ pc[u] \in Pcs
  <2>1. pc' = [pc EXCEPT ![t] = pc'[t]]
    BY DEF IInv, SmtNext, Solo, Duo, Goto, TypeOK
  <2> QED BY <1>1, <2>1 DEF IInv, TypeOK, Still
<1>4. Ahead(t)' = Ahead(t)
  <2>1. AheadTable(t) /\ AheadTable(t)'
    BY AheadAt
  <2> QED BY <1>2, <2>1 DEF AheadTable, AtSolo, NoMore
<1>5. WordsInUse' /\ InStep' /\ FlagIsRead' /\ (Crossed(u)' <=> Crossed(u)) /\ Ahead(u)' = Ahead(u)
  BY <1>1, <1>2, <1>3, <1>4, OneWalks DEF IInv, Spinning
<1>6. TypeOK'
  <2>1. k' \in [Threads -> 0..NumSmt]
    <3>1. k' = k \/ (pc[t] = "duo" /\ k' = [k EXCEPT ![t] = @ + 1])
      BY DEF SmtNext, Solo, Duo, loops
    <3>2. pc[t] = "duo" => k[t] + 1 \in 0..NumSmt
      BY <1>3 DEF IInv, TypeOK, Loops, Before, NumSmt
    <3> QED BY <1>3, <3>1, <3>2 DEF TypeOK
  <2>2. pc' \in [Threads -> Pcs]
    BY <1>3 DEF TypeOK, SmtNext, Solo, Duo, Goto, Pcs, Waiting
  <2> QED BY <1>1, <1>3, <2>1, <2>2 DEF TypeOK
<1>7. Loops'
  BY <1>1, <1>2, <1>3 DEF IInv, Loops, Before, Still, OnPair, Crawling, BeforePairs, Threads
<1>8. SameLine'
  BY <1>1, <1>2, <1>3, LinesKept DEF IInv
<1>9. OnContexts'
  BY <1>1, <1>2, <1>3 DEF IInv, OnContexts, Still, OnPair, Threads
<1>10. TurnsTaken'
  BY <1>1, <1>2, <1>3, <1>4, <1>5, TurnsKept DEF IInv, Spinning
<1>11. TableSoFar'
  BY <1>1, <1>2, <1>3, TableKept DEF IInv, Still, Threads, Crawling, BeforePairs, OnPair
<1> QED BY <1>5, <1>6, <1>7, <1>8, <1>9, <1>10, <1>11 DEF IInv
-----------------------------------------------------------------------------
(* The steps at the barriers. *)
LEMMA ArriveStep ==
  ASSUME IInv, NEW t \in Threads, NEW u \in Threads, u # t, Arrive(t)
  PROVE  IInv'
<1>1. /\ pc[t] \in Arriving /\ pc'[t] = Waiting[pc[t]]
      /\ x' = x /\ y' = y /\ k' = k /\ rep' = rep /\ warm' = warm
      /\ high_stdev_retry' = high_stdev_retry /\ lat_table' = lat_table
      /\ cache_line' = cache_line /\ test_cache_line' = test_cache_line /\ last' = last
      /\ cpu' = cpu
  BY Tables DEF Arrive, Goto, IInv, TypeOK, loops, table, lines
<1>2. TypeOK /\ Loops /\ WordsInUse /\ InStep
  BY DEF IInv
<1>3. WordsInUse' /\ InStep' /\ bar' \in [Barriers -> {-1, 0, 1}] /\ Still(u)
  BY <1>2, OneArrives
<1>4. \/ /\ Ahead(t)' = Ahead(t) /\ ~ Crossed(t)'
         /\ Ahead(u)' = Ahead(u) /\ (Crossed(u)' <=> Crossed(u))
      \/ /\ pc[u] = Waiting[pc[t]] /\ ~ Crossed(u)
         /\ Crossed(t)' /\ Crossed(u)'
  BY <1>2, OneArrives
<1>5. \/ pc[t] = "arrive_rep" /\ pc'[t] = "wait_rep"
      \/ pc[t] = "arrive5" /\ pc'[t] = "wait5"
      \/ pc[t] = "arrive6" /\ pc'[t] = "wait6"
      \/ pc[t] = "arrive7" /\ pc'[t] = "wait7"
      \/ pc[t] = "arrive0" /\ pc'[t] = "wait0"
      \/ pc[t] = "arrive1" /\ pc'[t] = "wait1"
      \/ pc[t] = "arrive2" /\ pc'[t] = "wait2"
  BY <1>1, Tables DEF Arriving
<1>6. TypeOK'
  <2>1. pc' \in [Threads -> Pcs]
    BY <1>2, <1>5, Tables DEF TypeOK, Arrive, Goto, Pcs, Spinning
  <2> QED BY <1>1, <1>2, <1>3, <2>1 DEF TypeOK, Arrive, table
<1>7. Loops'
  BY <1>1, <1>2, <1>3, <1>5 DEF Loops, Before, Still, OnPair, Crawling, BeforePairs, Threads
<1>8. FlagIsRead'
  <2>1. (\A s \in Threads : s = t \/ s = u) /\ u = 1 - t /\ t = 1 - u
    BY DEF Threads
  <2>2. pc'[u] = pc[u]
    BY <1>3 DEF Still
  <2>3. CASE ~ Crossed(t)' /\ (Crossed(u)' <=> Crossed(u))
    <3>1. ~ BehindSeven(t)' /\ ~ BehindSix(t)'
      BY <1>5, <2>3 DEF BehindSeven, BehindSix
    <3> QED BY <2>1, <3>1 DEF FlagIsRead
  <2>4. CASE pc[u] = Waiting[pc[t]]
    <3>1. pc'[t] = pc'[u] /\ pc'[t] \notin {"decide", "reset"}
      BY <1>1, <1>5, <2>2, <2>4
    <3> QED BY <2>1, <3>1 DEF FlagIsRead, BehindSeven, BehindSix
  <2> QED BY <1>4, <2>3, <2>4
<1>9. SameLine'
  BY <1>1, <1>3, <1>5, LinesKept DEF IInv
<1>10. OnContexts'
  BY <1>1, <1>3, <1>5 DEF IInv, OnContexts, Still, OnPair, Threads
<1>11. TurnsTaken'
  <2>1. CASE /\ Ahead(t)' = Ahead(t) /\ ~ Crossed(t)'
             /\ Ahead(u)' = Ahead(u) /\ (Crossed(u)' <=> Crossed(u))
    <3>1. Measuring' = Measuring /\ Measuring = Kind(t)
      BY <1>2, <2>1 DEF Measuring, InStep, Kind, Threads
    <3>2. pc[t] = "arrive5" => Kind(t) = "five"
      BY <1>2, KindAt DEF KindTable
    <3> QED
      BY <1>1, <1>3, <1>5, <2>1, <3>1, <3>2 DEF IInv, TurnsTaken, Still, Threads
  <2>2. CASE /\ pc[u] = Waiting[pc[t]] /\ ~ Crossed(u)
             /\ Crossed(t)' /\ Crossed(u)'
    <3>1. pc'[0] = pc'[1] /\ pc'[0] = pc'[t] /\ Crossed(0)' /\ pc'[0] = pc[u]
      BY <1>1, <1>3, <2>2 DEF Still, Threads
    <3>2. cache_line[0] = cache_line[1]
      BY <1>5, <2>2, Tables DEF IInv, SameLine, Threads
    <3>3. CASE pc[t] = "arrive_rep"
      <4>1. Ahead(0)' = AfterRep(0)' /\ Measuring' # "rep"
        BY <1>5, <3>1, <3>3, AheadAt DEF AheadTable, AfterRep, AtSix, Measuring, Threads
      <4>2. pc[0] \in {"arrive_rep", "wait_rep"} /\ pc[1] \in {"arrive_rep", "wait_rep"}
        BY <1>5, <2>2, <3>3, Tables DEF Threads
      <4>3. Ahead(0) = AtRep(0)
        <5>1. pc[0] = "wait_rep" => ~ Crossed(0)
          BY <2>2, <3>3 DEF Threads
        <5> QED BY <4>2, <5>1, AheadAt DEF AheadTable, Threads
      <4>4. ~ warm[0] => last[cache_line[0]] = 1
        BY <3>2, <4>2, <4>3 DEF IInv, TurnsTaken, Measuring, AtRep
      <4> QED
        BY <1>1, <1>5, <3>1, <3>3, <4>1, <4>4 DEF TurnsTaken
    <3>4. CASE pc[t] = "arrive5"
      <4>1. Measuring' = "rep" /\ Measuring = "five"
        <5>1. Ahead(t) = AtFive(t)
          BY <3>4, AheadAt DEF AheadTable
        <5>2. Ahead(0)' = <<"rep", x'[0], y'[0], rep'[0]>>
          BY <1>5, <3>1, <3>4, AheadAt DEF AheadTable, Threads
        <5> QED BY <1>2, <5>1, <5>2 DEF AtFive, Measuring, InStep, Threads
      <4>2. pc[0] \in {"arrive5", "wait5"}
        BY <1>5, <2>2, <3>4, Tables DEF Threads
      <4>3. last[cache_line[1]] = 0
        BY <3>2, <4>1, <4>2 DEF IInv, TurnsTaken
      <4> QED
        BY <1>1, <1>5, <3>1, <3>4, <4>1, <4>3 DEF TurnsTaken
    <3>5. CASE pc[t] \notin {"arrive_rep", "arrive5"}
      BY <1>5, <3>1, <3>5 DEF TurnsTaken
    <3> QED BY <3>3, <3>4, <3>5
  <2> QED BY <1>4, <2>1, <2>2
<1>12. TableSoFar'
  BY <1>1, <1>3, <1>5, TableKept DEF IInv, Still, Threads, Crawling, BeforePairs, OnPair
<1> QED BY <1>3, <1>6, <1>7, <1>8, <1>9, <1>10, <1>11, <1>12 DEF IInv

(* The thread leaves a barrier.                                              *)
LEMMA PassStep ==
  ASSUME IInv, NEW t \in Threads, NEW u \in Threads, u # t, Pass(t)
  PROVE  IInv'
<1>1. /\ pc[t] \in Spinning /\ pc'[t] = After[pc[t]][t + 1]
      /\ x' = x /\ y' = y /\ k' = k /\ rep' = rep /\ warm' = warm /\ bar' = bar
      /\ high_stdev_retry' = high_stdev_retry /\ lat_table' = lat_table
      /\ cache_line' = cache_line /\ test_cache_line' = test_cache_line /\ last' = last
      /\ cpu' = cpu
  BY Tables DEF Pass, Goto, IInv, TypeOK, loops, table, lines
<1>2. TypeOK /\ Loops /\ WordsInUse /\ InStep
  BY DEF IInv
<1>3. /\ WordsInUse' /\ InStep' /\ Still(u) /\ (Crossed(u)' <=> Crossed(u))
      /\ Ahead(u)' = Ahead(u) /\ Ahead(t)' = Ahead(t) /\ Crossed(t)
  BY <1>2, OnePasses
<1>4. \/ pc[t] = "wait_rep" /\ pc'[t] = IF t = 0 THEN "touch" ELSE "next_rep"
      \/ pc[t] = "wait5" /\ pc'[t] = IF t = 0 THEN "arrive_rep" ELSE "touch"
      \/ pc[t] = "wait6" /\ pc'[t] = "decide"
      \/ pc[t] = "wait7" /\ pc'[t] = "reset"
      \/ pc[t] = "wait0" /\ pc'[t] = "smt_next"
      \/ pc[t] = "wait1" /\ pc'[t] = "duo"
      \/ pc[t] = "wait2" /\ pc'[t] = IF t = 0 THEN "solo" ELSE "join1"
  BY <1>1, Tables DEF Spinning
<1>5. TypeOK'
  <2>1. pc' \in [Threads -> Pcs]
    BY <1>1, <1>2, <1>4, Tables DEF TypeOK, Pass, Goto, Pcs, Arriving
  <2> QED BY <1>1, <1>2, <2>1 DEF TypeOK, Pass, table
<1>6. Loops'
  BY <1>1, <1>2, <1>3, <1>4 DEF Loops, Before, Still, OnPair, Crawling, BeforePairs, Threads
<1>7. FlagIsRead'
  <2>1. (\A s \in Threads : s = t \/ s = u) /\ u = 1 - t /\ t = 1 - u
    BY DEF Threads
  <2>2. (BehindSeven(u)' <=> BehindSeven(u)) /\ (BehindSix(u)' <=> BehindSix(u))
    BY <1>3 DEF BehindSeven, BehindSix, Still
  <2>3. (BehindSeven(t)' => BehindSeven(t)) /\ (BehindSix(t)' => BehindSix(t))
    BY <1>3, <1>4 DEF BehindSeven, BehindSix
  <2> QED BY <2>1, <2>2, <2>3 DEF IInv, FlagIsRead
<1>8. SameLine'
  BY <1>1, <1>3, <1>4, LinesKept DEF IInv
<1>9. OnContexts'
  BY <1>1, <1>3, <1>4 DEF IInv, OnContexts, Still, OnPair, Threads
<1>10. TurnsTaken'
  <2>1. Measuring' = Measuring
    BY <1>2, <1>3 DEF Measuring, Threads
  <2> QED BY <1>1, <1>3, <1>4, <2>1 DEF IInv, TurnsTaken, Still, Threads
<1>11. TableSoFar'
  BY <1>1, <1>3, <1>4, TableKept DEF IInv, Still, Threads, Crawling, BeforePairs, OnPair
<1> QED BY <1>3, <1>5, <1>6, <1>7, <1>8, <1>9, <1>10, <1>11 DEF IInv
-----------------------------------------------------------------------------
(* The steps both threads take together, between places off the barriers. *)
LEMMA TogetherStep ==
  ASSUME IInv, Together
  PROVE  IInv'
<1>1. \/ (\A t \in Threads : pc[t] = "sleep" /\ pc'[t] = "load")
      \/ (\A t \in Threads : pc[t] = "done" /\ pc'[t] = "arrive0")
      \/ (\A t \in Threads : pc[t] = "join1" /\ pc'[t] = "join2")
      \/ (\A t \in Threads : pc[t] = "join2" /\ pc'[t] = "arrive1")
  BY DEF Together, Sleep, Start, Join
<1>2. /\ x' = x /\ y' = y /\ k' = k /\ rep' = rep /\ warm' = warm /\ bar' = bar
      /\ high_stdev_retry' = high_stdev_retry /\ lat_table' = lat_table
      /\ history_med' = history_med /\ max_stdev' = max_stdev
      /\ cache_line' = cache_line /\ test_cache_line' = test_cache_line /\ last' = last
      /\ cpu' = cpu
  BY DEF Together, Sleep, Start, Join, table, lines, loops
<1>3. 0 \in Threads /\ 1 \in Threads /\ \A t \in Threads : t = 0 \/ t = 1
  BY DEF Threads
<1>4. TypeOK'
  <2>1. pc' \in [Threads -> Pcs]
    BY DEF Together, Sleep, Start, Join, Pcs, Waiting
  <2> QED BY <1>2, <2>1 DEF IInv, TypeOK
<1>5. Loops'
  BY <1>1, <1>2 DEF IInv, Loops, Before, OnPair, Crawling, BeforePairs
<1>6. WordsInUse'
  <2>1. \A t \in Threads : ~ Spins(t) /\ ~ Spins(t)'
    BY <1>1, Tables DEF Spins, Spinning
  <2>2. \A g \in Barriers : bar[g] = 0
    BY <2>1 DEF IInv, WordsInUse
  <2> QED BY <1>2, <2>1, <2>2 DEF WordsInUse
<1>7. InStep'
  <2>1. AheadTable(0) /\ AheadTable(1) /\ AheadTable(0)' /\ AheadTable(1)'
    BY <1>3, AheadAt
  <2>2. Ahead(0) = Ahead(1)
    BY DEF IInv, InStep
  <2>3. CASE \A t \in Threads : pc[t] = "sleep" /\ pc'[t] = "load"
    <3>1. x[0] = x[1]
      BY <1>3, <2>1, <2>2, <2>3 DEF AheadTable
    <3> QED BY <1>2, <1>3, <2>1, <2>3, <3>1 DEF InStep, AheadTable, FirstOf
  <2>4. CASE \A t \in Threads : pc[t] = "done" /\ pc'[t] = "arrive0"
    BY <1>3, <2>1, <2>4 DEF InStep, AheadTable
  <2>5. CASE \/ (\A t \in Threads : pc[t] = "join1" /\ pc'[t] = "join2")
             \/ (\A t \in Threads : pc[t] = "join2" /\ pc'[t] = "arrive1")
    <3>1. k[0] = k[1]
      BY <1>3, <2>1, <2>2, <2>5 DEF AheadTable
    <3> QED BY <1>2, <1>3, <2>1, <2>5, <3>1 DEF InStep, AheadTable
  <2> QED BY <1>1, <2>3, <2>4, <2>5
<1>8. FlagIsRead'
  BY <1>1 DEF FlagIsRead, BehindSeven
<1>9. SameLine'
  BY <1>1, <1>2 DEF IInv, SameLine, Threads
<1>10. OnContexts'
  BY <1>1, <1>2, <1>3 DEF IInv, OnContexts, OnPair
<1>11. TurnsTaken'
  BY <1>1, <1>3 DEF TurnsTaken
<1>12. TableSoFar'
  BY <1>1, <1>2, <1>3, TableKept DEF IInv, BeforePairs, Crawling, OnPair
<1> QED BY <1>4, <1>5, <1>6, <1>7, <1>8, <1>9, <1>10, <1>11, <1>12 DEF IInv

(* The invariant holds at the start, of a run that crawls or does not.       *)
LEMMA InitHolds ==
  ASSUME Unmeasured,
         \/ pc = [t \in Threads |-> IF t = 0 THEN "setup" ELSE "sleep"]
         \/ pc = [t \in Threads |-> "end"]
  PROVE  IInv
<1>1. \/ pc[0] = "setup" /\ pc[1] = "sleep"
      \/ pc[0] = "end" /\ pc[1] = "end"
  BY DEF Threads
<1>2. 0 \in Threads /\ 1 \in Threads /\ \A t \in Threads : t = 0 \/ t = 1
  BY DEF Threads
<1>3. \A t \in Threads : x[t] = 0 /\ y[t] = 0 /\ k[t] = 0 /\ cpu[t] = 0
  BY DEF Unmeasured
<1>4. TypeOK
  <2>1. pc \in [Threads -> Pcs]
    BY DEF Pcs
  <2>2. bar \in [Barriers -> {-1, 0, 1}] /\ lat_table \in [Contexts \X Contexts -> Medians \cup {Negative, 0}]
    BY DEF Unmeasured
  <2>3. max_stdev \in [Threads -> MaxStdev..2 * MaxStdev]
    BY CrawlAssumption DEF Unmeasured
  <2>4. /\ x \in [Threads -> Contexts] /\ y \in [Threads -> 0..N] /\ cpu \in [Threads -> Contexts]
        /\ k \in [Threads -> 0..NumSmt]
    BY CrawlAssumption DEF Unmeasured, Contexts, NumSmt
  <2> QED BY <2>1, <2>2, <2>3, <2>4 DEF TypeOK, Unmeasured
<1>5. Loops
  BY <1>1, <1>2, <1>3 DEF Loops, Before, OnPair, Crawling, BeforePairs
<1>6. \A t \in Threads : ~ Spins(t)
  BY <1>1, <1>2, Tables DEF Spins, Spinning
<1>7. WordsInUse
  BY <1>6 DEF WordsInUse, Unmeasured
<1>8. InStep
  BY <1>1, <1>2, <1>3, AheadAt DEF InStep, AheadTable
<1>9. FlagIsRead
  BY <1>1, <1>2 DEF FlagIsRead, BehindSeven
<1>10. SameLine
  BY <1>1, <1>2 DEF SameLine, Unmeasured
<1>11. OnContexts
  BY <1>1, <1>2, <1>3 DEF OnContexts, OnPair
<1>12. TurnsTaken
  BY <1>1 DEF TurnsTaken
<1>13. TableSoFar
  <2>1. CASE pc[0] = "setup"
    <3>1. ASSUME NEW a \in Contexts, NEW b PROVE ~ Stored(a, b)
      BY <1>2, <1>3, <2>1, CrawlAssumption DEF Stored, BeforePairs, Contexts
    <3> QED BY <2>1, <3>1 DEF TableSoFar
  <2>2. CASE pc[0] = "end"
    BY <2>2 DEF TableSoFar, Crawling, BeforePairs, OnPair
  <2> QED BY <1>1, <2>1, <2>2
<1> QED BY <1>4, <1>5, <1>7, <1>8, <1>9, <1>10, <1>11, <1>12, <1>13 DEF IInv

(* Every step of one thread keeps the invariant.                             *)
LEMMA StepKeeps ==
  ASSUME IInv, NEW t \in Threads, Step(t)
  PROVE  IInv'
<1> PICK u \in Threads : u # t
  BY DEF Threads
<1>1. CASE Arrive(t) \/ Pass(t)
  BY <1>1, ArriveStep, PassStep
<1>2. CASE Setup(t) \/ Load(t) \/ Pair(t) \/ Touch(t) \/ NextRep(t)
  BY <1>2, SetupStep, LoadStep, PairStep, TouchStep, NextRepStep
<1>3. CASE \E m \in Medians \cup {Negative}, s \in Stdevs : Stats0(m, s)
  BY <1>3, Stats0Step
<1>4. CASE \E m \in Medians \cup {Negative} : Stats1(m)
  BY <1>4, Stats1Step
<1>5. CASE Decide(t) \/ Reset(t) \/ NextX(t) \/ Copy(t)
  BY <1>5, DecideStep, ResetStep, NextXStep, CopyStep
<1>6. CASE SmtNext(t) \/ Solo(t) \/ Duo(t)
  BY <1>6, SmtStep
<1> QED BY <1>1, <1>2, <1>3, <1>4, <1>5, <1>6 DEF Step

(* So does a step that changes nothing.                                      *)
LEMMA Stutters ==
  ASSUME IInv, UNCHANGED vars
  PROVE  IInv'
<1>1. /\ x' = x /\ y' = y /\ k' = k /\ rep' = rep /\ warm' = warm /\ bar' = bar /\ pc' = pc
      /\ high_stdev_retry' = high_stdev_retry /\ lat_table' = lat_table
      /\ history_med' = history_med /\ max_stdev' = max_stdev
      /\ cache_line' = cache_line /\ test_cache_line' = test_cache_line /\ last' = last
      /\ cpu' = cpu
  BY DEF vars, table, lines, loops
<1>2. TypeOK /\ \A t \in Threads : Still(t)
  BY <1>1 DEF IInv, Still
<1>3. ASSUME NEW t \in Threads
      PROVE  /\ Spins(t)' <=> Spins(t)
             /\ Spins(t) => Gate(t)' = Gate(t)
             /\ Crossed(t)' <=> Crossed(t)
             /\ Ahead(t)' = Ahead(t)
  <2>1. Spins(t)' <=> Spins(t)
    BY <1>1 DEF Spins
  <2>2. Spins(t) => Gate(t)' = Gate(t)
    BY <1>2, GateStays, Tables DEF Spins
  <2>3. Crossed(t)' <=> Crossed(t)
    BY <1>1, <2>1, <2>2 DEF Crossed, Spins
  <2>4. Ahead(t)' = Ahead(t)
    BY <1>1, <1>2, <2>3, AheadStays
  <2> QED BY <2>1, <2>2, <2>3, <2>4
<1>4. TypeOK'
  BY <1>1 DEF IInv, TypeOK
<1>5. Loops'
  BY <1>1 DEF IInv, Loops, Before
<1>6. WordsInUse'
  BY <1>1, <1>3 DEF IInv, WordsInUse, Sign
<1>7. InStep' /\ Measuring' = Measuring
  BY <1>3 DEF IInv, InStep, Measuring, Threads
<1>8. FlagIsRead'
  BY <1>1, <1>3 DEF IInv, FlagIsRead, BehindSeven, BehindSix, Threads
<1>9. SameLine' /\ OnContexts' /\ TableSoFar'
  BY <1>1 DEF IInv, SameLine, OnContexts, TableSoFar, Stored
<1>10. TurnsTaken'
  BY <1>1, <1>3, <1>7 DEF IInv, TurnsTaken, Threads
<1> QED BY <1>4, <1>5, <1>6, <1>7, <1>8, <1>9, <1>10 DEF IInv
-----------------------------------------------------------------------------
(* The two threads of a crawl and of the SMT test, and the run that skips    *)
(* them, stay in step: the inductive invariant.                              *)
THEOREM MeasureInvariant == MeasureSpec => []IInv
<1>1. MeasureInit => IInv
  BY InitHolds DEF MeasureInit, Init
<1>2. ASSUME IInv, [MeasureNext]_measureVars PROVE IInv'
  <2>1. CASE ~ Augmenting /\ Next
    <3>1. CASE \E t \in Threads : Step(t)
      BY <1>2, <3>1, StepKeeps
    <3>2. CASE Together
      BY <1>2, <3>2, TogetherStep
    <3>3. CASE Finished
      BY <1>2, <3>3, Stutters DEF Finished
    <3> QED BY <2>1, <3>1, <3>2, <3>3 DEF Next
  <2>2. CASE UNCHANGED vars
    BY <1>2, <2>2, Stutters
  <2> QED BY <1>2, <2>1, <2>2 DEF MeasureNext, measureVars
<1> QED BY <1>1, <1>2, PTL DEF MeasureSpec

(* The types of the state, and that no barrier word runs away: a thread never *)
(* arrives a second time before the other one has left (barrier2_cross).      *)
THEOREM TypeCorrect == MeasureSpec => []TypeOK
<1>1. IInv => TypeOK
  BY DEF IInv
<1> QED BY <1>1, MeasureInvariant, PTL

(* When both threads work on a pair, it is the same one: they leave every    *)
(* round of crawl by the same branch, though both reset high_stdev_retry.    *)
LEMMA PairsAgree ==
  ASSUME IInv
  PROVE  SamePair
<1> SUFFICES ASSUME InPair(0), InPair(1) PROVE <<x[0], y[0]>> = <<x[1], y[1]>>
  BY DEF SamePair
<1>1. 0 \in Threads /\ 1 \in Threads /\ TypeOK /\ Ahead(0) = Ahead(1) /\ Kind(0) = Kind(1)
  BY DEF Threads, IInv, InStep, Kind
<1>2. AheadTable(0) /\ AheadTable(1) /\ KindTable(0) /\ KindTable(1)
  BY <1>1, AheadAt, KindAt
<1>3. ASSUME NEW t \in Threads, InPair(t)
      PROVE  /\ y[t] < N /\ x[t] \in 0..N - 1 /\ y[t] \in 0..N - 1 /\ N \in Nat
             /\ rep[t] \in Nat /\ pc[t] \in OnPair
  BY <1>1, <1>3, CrawlAssumption DEF InPair, IInv, Loops, Before, TypeOK, OnPair, Contexts
<1>4. ASSUME NEW t \in Threads, InPair(t)
      PROVE  \/ BehindSix(t) /\ high_stdev_retry # 1 /\ Ahead(t) = FirstOf(x[t], y[t] + 1)
             \/ /\ Ahead(t)[2] = x[t] /\ Ahead(t)[3] = y[t]
                /\ Kind(t) \notin NewPairs \/ BehindSeven(t) \/ Ahead(t)[4] # 0
  <2>1. CASE BehindSix(t)
    <3>1. Ahead(t) = AfterSix(t)
      BY <2>1, AheadAt DEF AheadTable, BehindSix
    <3> QED BY <2>1, <3>1 DEF AfterSix, AtSeven, Kind, NewPairs
  <2>2. CASE BehindSeven(t)
    <3>1. Ahead(t) = FirstOf(x[t], y[t])
      BY <2>2, AheadAt DEF AheadTable, BehindSeven
    <3> QED BY <1>3, <1>4, <2>2, <3>1 DEF FirstOf
  <2>3. CASE pc[t] = "next_rep"
    <3>1. Ahead(t) = AfterRep(t)
      BY <2>3, AheadAt DEF AheadTable
    <3> QED BY <1>3, <1>4, <3>1 DEF AfterRep, AtSix, Kind, NewPairs
  <2>4. CASE ~ BehindSix(t) /\ ~ BehindSeven(t) /\ pc[t] # "next_rep"
    BY <1>4, <2>4, AheadAt
    DEF AheadTable, InPair, BehindSix, BehindSeven, AtFive, AtSix, AtSeven, Kind, NewPairs
  <2> QED BY <2>1, <2>2, <2>3, <2>4
<1>5. \A t \in Threads : BehindSix(t) => ~ BehindSeven(1 - t)
  BY DEF IInv, FlagIsRead, Threads
<1>6. ASSUME NEW t \in Threads, InPair(t), Ahead(t) = FirstOf(x[t], y[t] + 1)
      PROVE  Kind(t) \in NewPairs /\ Ahead(t)[4] = 0
  BY <1>6 DEF FirstOf, Kind, NewPairs
<1>7. CASE /\ Ahead(0) = FirstOf(x[0], y[0] + 1)
           /\ Ahead(1) = FirstOf(x[1], y[1] + 1)
  BY <1>1, <1>3, <1>7 DEF FirstOf
<1>8. CASE Ahead(0)[2] = x[0] /\ Ahead(0)[3] = y[0] /\ Ahead(1)[2] = x[1] /\ Ahead(1)[3] = y[1]
  BY <1>1, <1>8
<1> QED BY <1>1, <1>4, <1>5, <1>6, <1>7, <1>8

(* The same of every reachable state (crawl).                                *)
THEOREM ThreadsOnOnePair == MeasureSpec => []SamePair
BY PairsAgree, MeasureInvariant, PTL

(* Every timed update moves the line between the two contexts of the pair:    *)
(* crawl measures what it stores.                                             *)
LEMMA Times ==
  ASSUME IInv
  PROVE  TimesTheTransfer
<1>1. 0 \in Threads /\ 1 \in Threads /\ TypeOK /\ Ahead(0) = Ahead(1) /\ Kind(0) = Kind(1)
  BY DEF Threads, IInv, InStep, Kind
<1>2. AheadTable(0) /\ AheadTable(1) /\ KindTable(0) /\ KindTable(1)
  BY <1>1, AheadAt, KindAt
<1>3. pc[0] \in Pcs /\ pc[1] \in Pcs /\ rep[0] \in Nat
  BY <1>1 DEF TypeOK
<1>4. Kind(0) \in {"rep", "five", "six"} => /\ cache_line[0] = cache_line[1]
                                           /\ cpu[0] = x[0]
  <2>1. Kind(0) \in {"rep", "five", "six"} => pc[0] \notin {"load", "setup"} /\ pc[1] # "load"
    BY <1>1, <1>2 DEF KindTable
  <2> QED BY <1>1, <2>1 DEF IInv, SameLine, OnContexts, Threads
<1>5. Timed(0) => /\ last[cache_line[0]] = 1 /\ cache_line[0] = cache_line[1]
                  /\ <<x[0], y[0]>> = <<x[1], y[1]>> /\ cpu[0] = x[0] /\ cpu[1] = y[1]
                  /\ pc[1] # "touch"
  <2> SUFFICES ASSUME Timed(0)
               PROVE  /\ last[cache_line[0]] = 1 /\ cache_line[0] = cache_line[1]
                      /\ x[0] = x[1] /\ y[0] = y[1] /\ cpu[0] = x[0] /\ cpu[1] = y[1]
                      /\ pc[1] # "touch"
    OBVIOUS
  <2>1. pc[0] = "touch" /\ ~ warm[0] /\ Ahead(0) = AfterRep(0) /\ Kind(0) \in {"five", "six"}
    BY <1>2 DEF Timed, AheadTable, AfterRep, AtSix, Kind
  <2>2. last[cache_line[0]] = 1
    BY <2>1 DEF IInv, TurnsTaken
  <2>3. /\ pc[1] \in {"wait_rep", "next_rep", "arrive5", "wait5", "stats", "arrive6", "wait6"}
        /\ pc[1] = "wait_rep" => Crossed(1)
        /\ pc[1] \in {"wait5", "wait6"} => ~ Crossed(1)
    BY <1>1, <1>2, <1>3, <2>1, Tables DEF KindTable, Pcs, Arriving, Spinning, NewPairs
  <2>4. Ahead(1)[2] = x[1] /\ Ahead(1)[3] = y[1]
    BY <1>2, <2>3 DEF AheadTable, AfterRep, AtFive, AtSix
  <2>5. Ahead(0)[2] = x[0] /\ Ahead(0)[3] = y[0]
    BY <2>1 DEF AfterRep, AtSix
  <2>6. cpu[1] = y[1]
    BY <2>3 DEF IInv, OnContexts, OnPair
  <2> QED BY <1>1, <1>4, <2>1, <2>2, <2>3, <2>4, <2>5, <2>6
<1>6. Timed(1) => /\ last[cache_line[1]] = 0 /\ cache_line[0] = cache_line[1]
                  /\ <<x[0], y[0]>> = <<x[1], y[1]>> /\ cpu[0] = x[0] /\ cpu[1] = y[1]
                  /\ pc[0] # "touch"
  <2> SUFFICES ASSUME Timed(1)
               PROVE  /\ last[cache_line[1]] = 0 /\ cache_line[0] = cache_line[1]
                      /\ x[0] = x[1] /\ y[0] = y[1] /\ cpu[0] = x[0] /\ cpu[1] = y[1]
                      /\ pc[0] # "touch"
    OBVIOUS
  <2>1. pc[1] = "touch" /\ ~ warm[1] /\ Ahead(1) = AtRep(1) /\ Kind(1) = "rep"
    BY <1>2 DEF Timed, AheadTable, AtRep, Kind
  <2>2. last[cache_line[1]] = 0
    BY <1>1, <2>1 DEF IInv, TurnsTaken, Measuring, Kind
  <2>3. /\ pc[0] \in {"arrive_rep", "wait_rep", "wait5"}
        /\ pc[0] = "wait_rep" => ~ Crossed(0)
        /\ pc[0] = "wait5" => Crossed(0)
    BY <1>1, <1>2, <1>3, <2>1, Tables DEF KindTable, Pcs, Arriving, Spinning, NewPairs
  <2>4. Ahead(0)[2] = x[0] /\ Ahead(0)[3] = y[0]
    BY <1>2, <2>3 DEF AheadTable, AtRep
  <2>5. Ahead(1)[2] = x[1] /\ Ahead(1)[3] = y[1]
    BY <2>1 DEF AtRep
  <2>6. cpu[1] = y[1]
    BY <2>1 DEF IInv, OnContexts, OnPair
  <2> QED BY <1>1, <1>4, <2>1, <2>2, <2>3, <2>4, <2>5, <2>6
<1> QED BY <1>5, <1>6 DEF TimesTheTransfer, Threads

(* In every reachable state, the update being timed moves the line from the  *)
(* other context of the pair (ATOMIC_OP between the barriers of crawl).      *)
THEOREM TransferIsTimed == MeasureSpec => []TimesTheTransfer
BY Times, MeasureInvariant, PTL

(* When crawl ends every pair has a median that thread 0 stored, and the      *)
(* table is symmetric.                                                        *)
LEMMA Completes ==
  ASSUME IInv
  PROVE  TableComplete
<1> SUFFICES ASSUME pc[0] = "done", NEW a \in Contexts, NEW b \in Contexts, a # b
             PROVE  lat_table[<<a, b>>] \in Medians /\ lat_table[<<a, b>>] = lat_table[<<b, a>>]
  BY DEF TableComplete
<1>1. x[0] = N - 1 /\ pc[0] \in Crawling
  BY DEF IInv, Loops, Before, Threads, Crawling
<1>2. ASSUME NEW c \in Contexts, NEW d \in Contexts, c < d PROVE lat_table[<<c, d>>] \in Medians
  <2>1. Stored(c, d)
    BY <1>1, <1>2, CrawlAssumption DEF Stored, Contexts
  <2> QED BY <1>1, <1>2, <2>1 DEF IInv, TableSoFar
<1>3. lat_table[<<a, b>>] = lat_table[<<b, a>>]
  BY DEF IInv, TableSoFar
<1>4. a < b \/ b < a
  BY CrawlAssumption DEF Contexts
<1> QED BY <1>2, <1>3, <1>4

(* At the end of every crawl the table has a stored median for every pair.   *)
THEOREM TableIsComplete == MeasureSpec => []TableComplete
BY Completes, MeasureInvariant, PTL

(* The spin loop that is_smt times alone runs while the other thread is not   *)
(* in the loop that both run.                                                 *)
LEMMA RunsAlone ==
  ASSUME IInv
  PROVE  SoloIsAlone
<1>1. 0 \in Threads /\ 1 \in Threads /\ TypeOK /\ Kind(0) = Kind(1)
  BY DEF Threads, IInv, InStep, Kind
<1>2. KindTable(0) /\ KindTable(1)
  BY <1>1, KindAt
<1> QED BY <1>1, <1>2 DEF KindTable, SoloIsAlone

(* At every moment of is_smt, spin_time is timed alone when it should be.    *)
THEOREM SpinsAlone == MeasureSpec => []SoloIsAlone
BY RunsAlone, MeasureInvariant, PTL

(* The two threads never spin both on words that do not read 0: no barrier   *)
(* that is used over and over again leaves them waiting for each other.       *)
BothStuck == \A t \in Threads : pc[t] \in DOMAIN After /\ bar[Gate(t)] # 0

(* One of two threads that spin reads 0.                                     *)
LEMMA OneGoesOn ==
  ASSUME IInv
  PROVE  ~ BothStuck
<1> SUFFICES ASSUME BothStuck PROVE FALSE
  OBVIOUS
<1>1. 0 \in Threads /\ 1 \in Threads /\ TypeOK /\ Ahead(0) = Ahead(1) /\ Kind(0) = Kind(1)
  BY DEF Threads, IInv, InStep, Kind
<1>2. /\ AheadTable(0) /\ AheadTable(1) /\ KindTable(0) /\ KindTable(1)
      /\ GateTable(0) /\ GateTable(1)
  BY <1>1, AheadAt, KindAt, GateAt
<1>3. pc[0] \in Spinning /\ pc[1] \in Spinning /\ ~ Crossed(0) /\ ~ Crossed(1)
  BY <1>1, Tables DEF BothStuck, Crossed
<1>4. pc[0] = pc[1]
  BY <1>1, <1>2, <1>3 DEF KindTable, Spinning
<1>5. Gate(0) = Gate(1)
  <2>1. CASE pc[0] = "wait_rep"
    <3>1. AtRep(0) = AtRep(1)
      BY <1>1, <1>2, <1>3, <1>4, <2>1 DEF AheadTable
    <3>2. rep[0] = rep[1]
      BY <3>1 DEF AtRep
    <3> QED BY <1>2, <1>4, <2>1, <3>2 DEF GateTable
  <2>2. CASE pc[0] # "wait_rep"
    BY <1>2, <1>3, <1>4, <2>2 DEF GateTable, Spinning
  <2> QED BY <2>1, <2>2
<1>6. bar[Gate(0)] \in {0, -1} /\ bar[Gate(1)] \in {0, 1}
  BY <1>1, <1>3, Tables DEF IInv, WordsInUse, Spins, Sign
<1> QED BY <1>1, <1>5, <1>6 DEF BothStuck

(* The safety core of KeepsMeasuring: barrier2_cross never blocks both       *)
(* threads, for any number of repetitions and barrier words.                 *)
THEOREM BarriersDoNotBlock == MeasureSpec => []~BothStuck
BY OneGoesOn, MeasureInvariant, PTL
-----------------------------------------------------------------------------
BwPcs == {"wait1", "alone", "wait2", "arrive", "spin", "measure", "wait3",
          "sum", "add", "next", "joined"}

(* What a measurement leaves: nothing yet, or its round and its company. *)
Figures == {<< >>} \cup ((1..Rounds) \X BOOLEAN)

BwTypeOK ==
  /\ bw_pc \in [BwThreads -> BwPcs]
  /\ round \in [BwThreads -> 1..Rounds]
  /\ mem_bw_barrier \in Nat
  /\ mem_bw_gbps \in [BwThreads -> Figures]
  /\ mem_bw_table1 \in [1..Rounds -> Figures]
  /\ mem_bw_table \in [1..Rounds -> SUBSET (BwThreads \X Figures)]
  /\ \A t \in BwThreads :
       /\ bw_pc[t] \in {"alone", "sum", "add"} => t = 0
       /\ bw_pc[t] = "joined" => round[t] = Rounds

(* The barrier a thread is on its way to: the round, and which of the three. *)
NextMeeting(t) ==
  IF bw_pc[t] = "wait1" THEN <<round[t], 1>>
  ELSE IF bw_pc[t] \in {"alone", "wait2"} THEN <<round[t], 2>>
  ELSE IF bw_pc[t] \in {"arrive", "spin", "measure", "wait3"} THEN <<round[t], 3>>
  ELSE <<round[t] + 1, 1>>

OnOneRound == \A t, u \in BwThreads : NextMeeting(t) = NextMeeting(u)

(* The threads that have counted themselves in mini_barrier. *)
CountedIn == {t \in BwThreads : bw_pc[t] \in {"spin", "measure", "wait3"}}

CounterCounts ==
  /\ bw_pc[0] = "sum" => mem_bw_barrier = NumBwThreads
  /\ bw_pc[0] # "sum" => mem_bw_barrier = Cardinality(CountedIn)
  /\ (\E t \in BwThreads : bw_pc[t] \in {"measure", "wait3"}) => CountedIn = BwThreads

(* What was measured last was measured in company, in the round of thread 0. *)
MeasuredTogether ==
  /\ \A t \in BwThreads : bw_pc[t] = "wait3" => mem_bw_gbps[t] = <<round[t], TRUE>>
  /\ bw_pc[0] \in {"sum", "add"} =>
       \A t \in BwThreads : mem_bw_gbps[t] = <<round[0], TRUE>>

(* The tables up to where thread 0 is. *)
EntryAlone(r) == mem_bw_table1[r] = <<r, TRUE>>
EntryOfAll(r) == mem_bw_table[r] = {<<t, <<r, TRUE>>>> : t \in BwThreads}

EntriesSoFar ==
  \A r \in 1..Rounds :
    /\ r < round[0] \/ (r = round[0] /\ bw_pc[0] \notin {"wait1", "alone"}) => EntryAlone(r)
    /\ r < round[0] \/ (r = round[0] /\ bw_pc[0] \in {"next", "joined"}) => EntryOfAll(r)

BwInv ==
  /\ BwTypeOK
  /\ OnOneRound
  /\ CounterCounts
  /\ MeasuredTogether
  /\ EntriesSoFar

Skipped == \A t \in BwThreads : bw_pc[t] = "skipped"

BwIInv == Skipped \/ BwInv
-----------------------------------------------------------------------------
(* Thread 0 is one of the threads; they are finitely many. *)
LEMMA ThreadsAreCounted ==
  /\ 0 \in BwThreads /\ BwThreads \subseteq Nat
  /\ IsFiniteSet(BwThreads) /\ Cardinality(BwThreads) = NumBwThreads
  /\ IsFiniteSet(CountedIn) /\ CountedIn \subseteq BwThreads
  /\ Cardinality(CountedIn) \in Nat
<1>1. 0 \in BwThreads /\ BwThreads \subseteq Nat
  BY BwAssumption DEF BwThreads
<1>2. IsFiniteSet(BwThreads) /\ Cardinality(BwThreads) = NumBwThreads
  BY BwAssumption, FS_Interval DEF BwThreads
<1>3. CountedIn \subseteq BwThreads
  BY DEF CountedIn
<1>4. IsFiniteSet(CountedIn)
  BY <1>2, <1>3, FS_Subset
<1>5. Cardinality(CountedIn) \in Nat
  BY <1>4, FS_CardinalityType
<1> QED BY <1>1, <1>2, <1>3, <1>4, <1>5

(* The measurement starts with everything at its beginning. *)
LEMMA StartsInStep ==
  ASSUME BwInit("wait1")
  PROVE  BwInv
<1>1. BwTypeOK
  BY ThreadsAreCounted, BwAssumption DEF BwInit, BwTypeOK, BwPcs, Figures
<1>2. OnOneRound
  BY DEF BwInit, OnOneRound, NextMeeting
<1>3. CountedIn = {}
  BY DEF BwInit, CountedIn
<1>4. CounterCounts
  BY <1>3, FS_EmptySet, ThreadsAreCounted DEF BwInit, CounterCounts
<1>5. MeasuredTogether /\ EntriesSoFar
  BY ThreadsAreCounted DEF BwInit, MeasuredTogether, EntriesSoFar
<1> QED BY <1>1, <1>2, <1>4, <1>5 DEF BwInv
-----------------------------------------------------------------------------
(* The threads are between the same two meetings: what the place of one says *)
(* of the place of another.                                                  *)
LEMMA WhereOthersAre ==
  ASSUME BwTypeOK, OnOneRound, NEW t \in BwThreads, NEW u \in BwThreads
  PROVE  /\ bw_pc[t] = "wait1" =>
              bw_pc[u] \in {"wait1", "sum", "add", "next", "joined"}
         /\ bw_pc[t] \in {"alone", "wait2"} =>
              bw_pc[u] \in {"alone", "wait2"} /\ round[u] = round[t]
         /\ bw_pc[t] \in {"arrive", "spin", "measure", "wait3"} =>
              bw_pc[u] \in {"arrive", "spin", "measure", "wait3"} /\ round[u] = round[t]
         /\ bw_pc[t] \in {"sum", "add", "next", "joined"} =>
              \/ bw_pc[u] = "wait1" /\ round[u] = round[t] + 1
              \/ bw_pc[u] \in {"sum", "add", "next", "joined"} /\ round[u] = round[t]
<1>1. NextMeeting(t) = NextMeeting(u)
  BY DEF OnOneRound
<1>2. /\ bw_pc[t] \in BwPcs /\ bw_pc[u] \in BwPcs
      /\ round[t] \in Nat /\ round[u] \in Nat
  BY BwAssumption DEF BwTypeOK
<1> QED BY <1>1, <1>2 DEF NextMeeting, BwPcs

(* A thread that has passed mini_barrier has all the others behind it. *)
LEMMA AllAreAtIt ==
  ASSUME BwTypeOK, OnOneRound, CounterCounts, NEW t \in BwThreads,
         \/ bw_pc[t] = "measure"
         \/ bw_pc[t] = "spin" /\ mem_bw_barrier = NumBwThreads
  PROVE  /\ CountedIn = BwThreads /\ AllAtIt(round[t])
         /\ bw_pc[0] # "sum" /\ mem_bw_barrier = NumBwThreads
<1>1. bw_pc[0] \in {"arrive", "spin", "measure", "wait3"}
  BY WhereOthersAre, ThreadsAreCounted
<1>2. mem_bw_barrier = Cardinality(CountedIn)
  BY <1>1 DEF CounterCounts
<1>3. CountedIn = BwThreads
  <2>1. CASE bw_pc[t] = "measure"
    BY <2>1 DEF CounterCounts
  <2>2. CASE mem_bw_barrier = NumBwThreads
    BY <2>2, <1>2, ThreadsAreCounted, FS_Subset
  <2> QED BY <2>1, <2>2
<1>4. \A u \in BwThreads : round[u] = round[t]
  BY WhereOthersAre
<1>5. \A u \in BwThreads : bw_pc[u] \in {"spin", "measure", "wait3"}
  BY <1>3 DEF CountedIn
<1> QED BY <1>1, <1>2, <1>3, <1>4, <1>5, ThreadsAreCounted DEF AllAtIt

(* mini_barrier: a thread counts itself. *)
LEMMA MiniArriveKeeps ==
  ASSUME BwInv, NEW t \in BwThreads, MiniArrive(t)
  PROVE  BwInv'
<1> USE DEF MiniArrive, BwGoto
<1>0. BwTypeOK /\ OnOneRound /\ CounterCounts /\ MeasuredTogether /\ EntriesSoFar
  BY DEF BwInv
<1>1. BwTypeOK'
  BY <1>0 DEF BwTypeOK, BwPcs
<1>2. \A u \in BwThreads : NextMeeting(u)' = NextMeeting(u)
  BY <1>0 DEF BwTypeOK, NextMeeting
<1>3. OnOneRound'
  BY <1>0, <1>2 DEF OnOneRound
<1>4. /\ bw_pc[0] \in {"arrive", "spin", "measure", "wait3"}
      /\ bw_pc'[0] \in {"arrive", "spin", "measure", "wait3"}
  BY <1>0, WhereOthersAre, ThreadsAreCounted DEF BwTypeOK
<1>5. t \notin CountedIn /\ CountedIn' = CountedIn \cup {t}
  BY <1>0 DEF BwTypeOK, CountedIn
<1>6. \A u \in BwThreads : bw_pc[u] \notin {"measure", "wait3"}
  BY <1>0, <1>5 DEF CounterCounts
<1>7. Cardinality(CountedIn') = Cardinality(CountedIn) + 1
  BY <1>5, ThreadsAreCounted, FS_AddElement
<1>8. \A u \in BwThreads : bw_pc'[u] \notin {"measure", "wait3"}
  BY <1>6, <1>0 DEF BwTypeOK
<1>9. CounterCounts'
  BY <1>0, <1>4, <1>7, <1>8 DEF CounterCounts
<1>10. MeasuredTogether'
  BY <1>4, <1>8 DEF MeasuredTogether
<1>11. EntriesSoFar'
  BY <1>0, <1>4 DEF EntriesSoFar, EntryAlone, EntryOfAll
<1> QED BY <1>1, <1>3, <1>9, <1>10, <1>11 DEF BwInv

(* mini_barrier: a thread reads that all have counted themselves. *)
LEMMA MiniPassKeeps ==
  ASSUME BwInv, NEW t \in BwThreads, MiniPass(t)
  PROVE  BwInv'
<1> USE DEF MiniPass, BwGoto
<1>0. BwTypeOK /\ OnOneRound /\ CounterCounts /\ MeasuredTogether /\ EntriesSoFar
  BY DEF BwInv
<1>1. BwTypeOK'
  BY <1>0 DEF BwTypeOK, BwPcs
<1>2. \A u \in BwThreads : NextMeeting(u)' = NextMeeting(u)
  BY <1>0 DEF BwTypeOK, NextMeeting
<1>3. OnOneRound'
  BY <1>0, <1>2 DEF OnOneRound
<1>4. /\ bw_pc[0] \in {"arrive", "spin", "measure", "wait3"}
      /\ bw_pc'[0] \in {"arrive", "spin", "measure", "wait3"}
  BY <1>0, WhereOthersAre, ThreadsAreCounted DEF BwTypeOK
<1>5. CountedIn = BwThreads /\ CountedIn' = CountedIn
  <2>1. CountedIn = BwThreads
    BY <1>0, AllAreAtIt
  <2> QED BY <1>0, <2>1 DEF BwTypeOK, CountedIn
<1>6. CounterCounts'
  BY <1>0, <1>4, <1>5 DEF CounterCounts
<1>7. MeasuredTogether'
  BY <1>0, <1>4 DEF MeasuredTogether, BwTypeOK
<1>8. EntriesSoFar'
  BY <1>0, <1>4 DEF EntriesSoFar, EntryAlone, EntryOfAll
<1> QED BY <1>1, <1>3, <1>6, <1>7, <1>8 DEF BwInv

(* A thread measures; all the others are at it. *)
LEMMA EstimateKeeps ==
  ASSUME BwInv, NEW t \in BwThreads, Estimate(t)
  PROVE  BwInv'
<1> USE DEF Estimate, BwGoto
<1>0. BwTypeOK /\ OnOneRound /\ CounterCounts /\ MeasuredTogether /\ EntriesSoFar
  BY DEF BwInv
<1>a. CountedIn = BwThreads /\ AllAtIt(round[t])
  BY <1>0, AllAreAtIt
<1>1. BwTypeOK'
  <2>1. AllAtIt(round[t]) \in BOOLEAN /\ round[t] \in 1..Rounds
    BY <1>a, <1>0 DEF BwTypeOK
  <2>2. <<round[t], AllAtIt(round[t])>> \in Figures
    BY <2>1 DEF Figures
  <2> QED BY <1>0, <2>2 DEF BwTypeOK, BwPcs
<1>2. \A u \in BwThreads : NextMeeting(u)' = NextMeeting(u)
  BY <1>0 DEF BwTypeOK, NextMeeting
<1>3. OnOneRound'
  BY <1>0, <1>2 DEF OnOneRound
<1>4. /\ bw_pc[0] \in {"arrive", "spin", "measure", "wait3"}
      /\ bw_pc'[0] \in {"arrive", "spin", "measure", "wait3"}
  BY <1>0, WhereOthersAre, ThreadsAreCounted DEF BwTypeOK
<1>5. CountedIn' = CountedIn
  BY <1>0 DEF BwTypeOK, CountedIn
<1>6. CounterCounts'
  BY <1>0, <1>4, <1>5, <1>a DEF CounterCounts
<1>7. MeasuredTogether'
  <2>1. mem_bw_gbps'[t] = <<round[t], TRUE>>
    BY <1>0, <1>a DEF BwTypeOK
  <2>2. \A u \in BwThreads \ {t} :
          bw_pc'[u] = bw_pc[u] /\ mem_bw_gbps'[u] = mem_bw_gbps[u]
    BY <1>0 DEF BwTypeOK
  <2> QED BY <1>0, <1>4, <2>1, <2>2 DEF MeasuredTogether
<1>8. EntriesSoFar'
  BY <1>0, <1>4 DEF EntriesSoFar, EntryAlone, EntryOfAll
<1> QED BY <1>1, <1>3, <1>6, <1>7, <1>8 DEF BwInv

(* Thread 0 measures alone: the others are at the second barrier. *)
LEMMA AloneKeeps ==
  ASSUME BwInv, Alone
  PROVE  BwInv'
<1> USE DEF Alone, BwGoto
<1>0. BwTypeOK /\ OnOneRound /\ CounterCounts /\ MeasuredTogether /\ EntriesSoFar
  BY DEF BwInv
<1>a. /\ round[0] \in 1..Rounds /\ 0 \in BwThreads
      /\ \A t \in BwThreads \ {0} : bw_pc[t] = "wait2"
  <2>1. \A t \in BwThreads : bw_pc[t] \in {"alone", "wait2"}
    BY <1>0, WhereOthersAre, ThreadsAreCounted
  <2> QED BY <2>1, <1>0, ThreadsAreCounted DEF BwTypeOK
<1>b. mem_bw_table1' = [mem_bw_table1 EXCEPT ![round[0]] = <<round[0], TRUE>>]
  BY <1>a
<1>1. BwTypeOK'
  <2>1. <<round[0], TRUE>> \in Figures
    BY <1>a DEF Figures
  <2>2. mem_bw_table1' \in [1..Rounds -> Figures]
    BY <1>0, <1>a, <1>b, <2>1 DEF BwTypeOK
  <2>3. bw_pc' \in [BwThreads -> BwPcs]
    BY <1>0 DEF BwTypeOK, BwPcs
  <2>4. \A u \in BwThreads : bw_pc'[u] # bw_pc[u] => bw_pc'[u] = "wait2"
    BY <1>0 DEF BwTypeOK
  <2> QED BY <1>0, <2>2, <2>3, <2>4 DEF BwTypeOK
<1>2. \A u \in BwThreads : NextMeeting(u)' = NextMeeting(u)
  BY <1>0 DEF BwTypeOK, NextMeeting
<1>3. OnOneRound'
  BY <1>0, <1>2 DEF OnOneRound
<1>4. bw_pc'[0] = "wait2"
  BY <1>0, <1>a DEF BwTypeOK
<1>5. CountedIn' = CountedIn
  BY <1>0 DEF BwTypeOK, CountedIn
<1>6. \A t \in BwThreads : bw_pc'[t] = "wait2"
  BY <1>0, <1>a DEF BwTypeOK
<1>7. CounterCounts'
  BY <1>0, <1>4, <1>5, <1>6 DEF CounterCounts
<1>8. MeasuredTogether'
  BY <1>4, <1>6 DEF MeasuredTogether
<1>9. EntriesSoFar'
  BY <1>0, <1>a, <1>b, <1>4 DEF EntriesSoFar, EntryAlone, EntryOfAll, BwTypeOK
<1> QED BY <1>1, <1>3, <1>7, <1>8, <1>9 DEF BwInv

(* Thread 0 sets the counter back: nobody is at mini_barrier. *)
LEMMA SetBackKeeps ==
  ASSUME BwInv, SetBack
  PROVE  BwInv'
<1> USE DEF SetBack, BwGoto
<1>0. BwTypeOK /\ OnOneRound /\ CounterCounts /\ MeasuredTogether /\ EntriesSoFar
  BY DEF BwInv
<1>a. \A t \in BwThreads : bw_pc[t] \in {"wait1", "sum", "add", "next", "joined"}
  BY <1>0, WhereOthersAre, ThreadsAreCounted
<1>1. BwTypeOK'
  BY <1>0 DEF BwTypeOK, BwPcs
<1>2. \A u \in BwThreads : NextMeeting(u)' = NextMeeting(u)
  BY <1>0 DEF BwTypeOK, NextMeeting
<1>3. OnOneRound'
  BY <1>0, <1>2 DEF OnOneRound
<1>4. bw_pc'[0] = "add"
  BY <1>0, ThreadsAreCounted DEF BwTypeOK
<1>5. \A t \in BwThreads : bw_pc'[t] \in {"wait1", "sum", "add", "next", "joined"}
  BY <1>0, <1>a DEF BwTypeOK
<1>6. CountedIn' = {}
  BY <1>5 DEF CountedIn
<1>7. CounterCounts'
  BY <1>4, <1>5, <1>6, FS_EmptySet DEF CounterCounts
<1>8. MeasuredTogether'
  BY <1>0, <1>4, <1>5 DEF MeasuredTogether
<1>9. EntriesSoFar'
  BY <1>0, <1>4 DEF EntriesSoFar, EntryAlone, EntryOfAll
<1> QED BY <1>1, <1>3, <1>7, <1>8, <1>9 DEF BwInv

(* Thread 0 adds up: nobody has measured again. *)
LEMMA AddUpKeeps ==
  ASSUME BwInv, AddUp
  PROVE  BwInv'
<1> USE DEF AddUp, BwGoto
<1>0. BwTypeOK /\ OnOneRound /\ CounterCounts /\ MeasuredTogether /\ EntriesSoFar
  BY DEF BwInv
<1>a. \A t \in BwThreads : bw_pc[t] \in {"wait1", "sum", "add", "next", "joined"}
  BY <1>0, WhereOthersAre, ThreadsAreCounted
<1>b. {<<t, mem_bw_gbps[t]>> : t \in BwThreads} = {<<t, <<round[0], TRUE>>>> : t \in BwThreads}
  BY <1>0 DEF MeasuredTogether
<1>c. round[0] \in 1..Rounds /\ 0 \in BwThreads
  BY <1>0, ThreadsAreCounted DEF BwTypeOK
<1>1. BwTypeOK'
  <2>1. {<<t, mem_bw_gbps[t]>> : t \in BwThreads} \in SUBSET (BwThreads \X Figures)
    BY <1>0 DEF BwTypeOK
  <2> QED BY <1>0, <2>1 DEF BwTypeOK, BwPcs
<1>2. \A u \in BwThreads : NextMeeting(u)' = NextMeeting(u)
  BY <1>0 DEF BwTypeOK, NextMeeting
<1>3. OnOneRound'
  BY <1>0, <1>2 DEF OnOneRound
<1>4. bw_pc'[0] = "next"
  BY <1>0, <1>c DEF BwTypeOK
<1>5. \A t \in BwThreads : bw_pc'[t] \in {"wait1", "sum", "add", "next", "joined"}
  BY <1>0, <1>a DEF BwTypeOK
<1>6. CountedIn' = {} /\ CountedIn = {}
  BY <1>a, <1>5 DEF CountedIn
<1>7. CounterCounts'
  BY <1>0, <1>4, <1>5, <1>6 DEF CounterCounts
<1>8. MeasuredTogether'
  BY <1>4, <1>5 DEF MeasuredTogether
<1>9. EntriesSoFar'
  <2>1. mem_bw_table' = [mem_bw_table EXCEPT ![round[0]] =
                           {<<t, <<round[0], TRUE>>>> : t \in BwThreads}]
    BY <1>b
  <2>2. ASSUME NEW r \in 1..Rounds, r = round[0] PROVE EntryOfAll(r)'
    <3>1. mem_bw_table'[r] = {<<t, <<round[0], TRUE>>>> : t \in BwThreads}
      BY <2>1, <2>2, <1>0 DEF BwTypeOK
    <3> QED BY <3>1, <2>2 DEF EntryOfAll
  <2>3. \A r \in 1..Rounds : /\ EntryAlone(r)' <=> EntryAlone(r)
                             /\ r # round[0] => (EntryOfAll(r)' <=> EntryOfAll(r))
    BY <2>1, <1>0 DEF BwTypeOK, EntryOfAll, EntryAlone
  <2> QED BY <1>0, <1>4, <2>2, <2>3 DEF EntriesSoFar
<1> QED BY <1>1, <1>3, <1>7, <1>8, <1>9 DEF BwInv
-----------------------------------------------------------------------------
(* A thread goes on to the next socket or node, or ends. *)
LEMMA NextRoundKeeps ==
  ASSUME BwInv, NEW t \in BwThreads, NextRound(t)
  PROVE  BwInv'
<1> USE DEF NextRound, BwGoto
<1>0. BwTypeOK /\ OnOneRound /\ CounterCounts /\ MeasuredTogether /\ EntriesSoFar
  BY DEF BwInv
<1>a. \A u \in BwThreads : bw_pc[u] \in {"wait1", "sum", "add", "next", "joined"}
  BY <1>0, WhereOthersAre
<1>b. /\ t \in BwThreads /\ 0 \in BwThreads /\ Rounds \in Nat
      /\ \A u \in BwThreads : round[u] \in 1..Rounds
  BY <1>0, BwAssumption, ThreadsAreCounted DEF BwTypeOK
<1>c. \A u \in BwThreads \ {t} : bw_pc'[u] = bw_pc[u] /\ round'[u] = round[u]
  BY <1>0 DEF BwTypeOK
<1>d. \/ bw_pc'[t] = "wait1" /\ round'[t] = round[t] + 1 /\ round[t] < Rounds
      \/ bw_pc'[t] = "joined" /\ round'[t] = round[t] /\ round[t] = Rounds
  BY <1>0 DEF BwTypeOK
<1>1. BwTypeOK'
  <2>1. bw_pc' \in [BwThreads -> BwPcs]
    BY <1>0 DEF BwTypeOK, BwPcs
  <2>2. round' \in [BwThreads -> 1..Rounds]
    <3>1. CASE round' = round
      BY <1>0, <3>1 DEF BwTypeOK
    <3>2. CASE round[t] < Rounds /\ round' = [round EXCEPT ![t] = @ + 1]
      <4>1. round[t] + 1 \in 1..Rounds
        BY <3>2, <1>b
      <4> QED BY <1>0, <3>2, <4>1 DEF BwTypeOK
    <3> QED BY <3>1, <3>2
  <2>3. \A u \in BwThreads : /\ bw_pc'[u] \in {"alone", "sum", "add"} => u = 0
                             /\ bw_pc'[u] = "joined" => round'[u] = Rounds
    BY <1>0, <1>c, <1>d DEF BwTypeOK
  <2> QED BY <1>0, <2>1, <2>2, <2>3 DEF BwTypeOK
<1>2. \A u \in BwThreads : NextMeeting(u)' = NextMeeting(u)
  <2>1. NextMeeting(t)' = NextMeeting(t)
    BY <1>d DEF NextMeeting
  <2>2. \A u \in BwThreads \ {t} : NextMeeting(u)' = NextMeeting(u)
    BY <1>c DEF NextMeeting
  <2> QED BY <2>1, <2>2
<1>3. OnOneRound'
  BY <1>0, <1>2 DEF OnOneRound
<1>5. \A u \in BwThreads : bw_pc'[u] \in {"wait1", "sum", "add", "next", "joined"}
  BY <1>a, <1>c, <1>d
<1>6. CountedIn' = {} /\ CountedIn = {}
  BY <1>a, <1>5 DEF CountedIn
<1>7. bw_pc'[0] \in {"sum", "add"} <=> bw_pc[0] \in {"sum", "add"}
  BY <1>b, <1>c, <1>d
<1>8. CounterCounts'
  <2>1. bw_pc'[0] = "sum" <=> bw_pc[0] = "sum"
    BY <1>b, <1>c, <1>d
  <2> QED BY <1>0, <2>1, <1>5, <1>6 DEF CounterCounts
<1>9. MeasuredTogether'
  <2>1. bw_pc'[0] \in {"sum", "add"} => round'[0] = round[0]
    BY <1>b, <1>c, <1>d
  <2> QED BY <1>0, <1>5, <1>7, <2>1 DEF MeasuredTogether
<1>10. EntriesSoFar'
  <2>1. \A r : EntryAlone(r)' = EntryAlone(r) /\ EntryOfAll(r)' = EntryOfAll(r)
    BY DEF EntryAlone, EntryOfAll
  <2>2. CASE t = 0
    BY <2>1, <2>2, <1>0, <1>b, <1>d DEF EntriesSoFar
  <2>3. CASE t # 0
    BY <2>1, <2>3, <1>0, <1>b, <1>c DEF EntriesSoFar
  <2> QED BY <2>2, <2>3
<1> QED BY <1>1, <1>3, <1>8, <1>9, <1>10 DEF BwInv

(* Where pthread_barrier_wait lets the threads go. *)
LEMMA AfterBwWaitTable ==
  ASSUME NEW t
  PROVE  /\ bw_pc[t] = "wait1" => AfterBwWait(t) = IF t = 0 THEN "alone" ELSE "wait2"
         /\ bw_pc[t] = "wait2" => AfterBwWait(t) = "arrive"
         /\ bw_pc[t] = "wait3" => AfterBwWait(t) = IF t = 0 THEN "sum" ELSE "next"
<1>1. bw_pc[t] = "wait1" => AfterBwWait(t) = IF t = 0 THEN "alone" ELSE "wait2"
  BY DEF AfterBwWait
<1>2. bw_pc[t] = "wait2" => AfterBwWait(t) = "arrive"
  BY DEF AfterBwWait
<1>3. bw_pc[t] = "wait3" => AfterBwWait(t) = IF t = 0 THEN "sum" ELSE "next"
  BY DEF AfterBwWait
<1> QED BY <1>1, <1>2, <1>3

(* All threads pass a pthread barrier. *)
LEMMA WaitKeeps ==
  ASSUME BwInv, NEW at \in {"wait1", "wait2", "wait3"}, BwWait(at)
  PROVE  BwInv'
<1> USE DEF BwWait
<1>0. BwTypeOK /\ OnOneRound /\ CounterCounts /\ MeasuredTogether /\ EntriesSoFar
  BY DEF BwInv
<1>a. 0 \in BwThreads /\ \A t \in BwThreads : bw_pc[t] = at
  BY ThreadsAreCounted
<1>b. /\ at = "wait1" => \A t \in BwThreads : bw_pc'[t] = IF t = 0 THEN "alone" ELSE "wait2"
      /\ at = "wait2" => \A t \in BwThreads : bw_pc'[t] = "arrive"
      /\ at = "wait3" => \A t \in BwThreads : bw_pc'[t] = IF t = 0 THEN "sum" ELSE "next"
  BY <1>a, AfterBwWaitTable
<1>c. ASSUME NEW t \in BwThreads PROVE round[t] = round[0] /\ round[t] \in 1..Rounds
  <2>1. bw_pc[t] = at /\ bw_pc[0] = at /\ NextMeeting(t) = NextMeeting(0)
    BY <1>0, <1>a DEF OnOneRound
  <2>2. round[t] = round[0]
    BY <2>1 DEF NextMeeting
  <2>3. round[t] \in 1..Rounds
    BY <1>0 DEF BwTypeOK
  <2> QED BY <2>2, <2>3
<1>1. BwTypeOK'
  <2>1. \A t \in BwThreads :
          /\ bw_pc'[t] \in BwPcs
          /\ bw_pc'[t] \in {"alone", "sum", "add"} => t = 0
          /\ bw_pc'[t] # "joined"
    BY <1>b DEF BwPcs
  <2>2. bw_pc' \in [BwThreads -> BwPcs]
    BY <2>1
  <2> QED BY <1>0, <2>1, <2>2 DEF BwTypeOK
<1>2. \A t \in BwThreads : NextMeeting(t)' = NextMeeting(0)'
  BY <1>a, <1>b, <1>c DEF NextMeeting
<1>3. OnOneRound'
  BY <1>2 DEF OnOneRound
<1>4. CountedIn' = {}
  BY <1>b DEF CountedIn
<1>5. CounterCounts'
  <2>1. \A t \in BwThreads : bw_pc'[t] \notin {"measure", "wait3"}
    BY <1>b
  <2>2. CASE at = "wait3"
    <3>1. CountedIn = BwThreads
      BY <2>2, <1>a DEF CountedIn
    <3>2. mem_bw_barrier = NumBwThreads
      BY <2>2, <3>1, <1>0, <1>a, ThreadsAreCounted DEF CounterCounts
    <3> QED BY <2>1, <2>2, <3>2, <1>a, <1>b DEF CounterCounts
  <2>3. CASE at # "wait3"
    <3>1. CountedIn = {}
      BY <2>3, <1>a DEF CountedIn
    <3>2. bw_pc'[0] # "sum"
      BY <2>3, <1>a, <1>b
    <3> QED BY <2>1, <2>3, <3>1, <3>2, <1>0, <1>4, <1>a DEF CounterCounts
  <2> QED BY <2>2, <2>3
<1>6. MeasuredTogether'
  BY <1>0, <1>a, <1>b, <1>c DEF MeasuredTogether
<1>7. EntriesSoFar'
  <2>1. \A r : EntryAlone(r)' = EntryAlone(r) /\ EntryOfAll(r)' = EntryOfAll(r)
    BY DEF EntryAlone, EntryOfAll
  <2>2. /\ bw_pc'[0] \notin {"next", "joined"}
        /\ bw_pc'[0] \notin {"wait1", "alone"} => bw_pc[0] \notin {"wait1", "alone"}
    BY <1>a, <1>b
  <2> QED BY <1>0, <2>1, <2>2 DEF EntriesSoFar
<1> QED BY <1>1, <1>3, <1>5, <1>6, <1>7 DEF BwInv

(* Every step of the measurement keeps the invariant. *)
LEMMA MeasuringKeeps ==
  ASSUME BwInv, BwNext
  PROVE  BwInv'
<1>1. ASSUME NEW t \in BwThreads, BwStep(t)
      PROVE  BwInv'
  BY <1>1, MiniArriveKeeps, MiniPassKeeps, EstimateKeeps, NextRoundKeeps, AloneKeeps,
     SetBackKeeps, AddUpKeeps DEF BwStep
<1>2. ASSUME BwTogether PROVE BwInv'
  BY <1>2, WaitKeeps DEF BwTogether
<1> QED BY <1>1, <1>2 DEF BwNext

(* The threads of a measurement that is skipped do nothing. *)
LEMMA SkippedStays ==
  ASSUME Skipped
  PROVE  ~ BwNext
<1>1. 0 \in BwThreads /\ bw_pc[0] = "skipped"
  BY ThreadsAreCounted DEF Skipped
<1>2. \A t \in BwThreads : ~ BwStep(t)
  BY <1>1 DEF Skipped, BwStep, MiniArrive, MiniPass, Estimate, NextRound, Alone, SetBack, AddUp
<1>3. ~ BwTogether
  BY <1>1 DEF BwTogether, BwWait
<1> QED BY <1>2, <1>3 DEF BwNext

(* A step that leaves the measurement of bandwidth alone. *)
LEMMA BwStutter ==
  ASSUME BwIInv, UNCHANGED bwVars
  PROVE  BwIInv'
<1> USE DEF bwVars
<1>1. Skipped => Skipped'
  BY DEF Skipped
<1>2. ASSUME BwInv PROVE BwInv'
  <2>1. BwTypeOK'
    BY <1>2 DEF BwInv, BwTypeOK
  <2>2. OnOneRound'
    BY <1>2 DEF BwInv, OnOneRound, NextMeeting
  <2>3. CounterCounts'
    BY <1>2 DEF BwInv, CounterCounts, CountedIn
  <2>4. MeasuredTogether'
    BY <1>2 DEF BwInv, MeasuredTogether
  <2>5. EntriesSoFar'
    BY <1>2 DEF BwInv, EntriesSoFar, EntryAlone, EntryOfAll
  <2> QED BY <2>1, <2>2, <2>3, <2>4, <2>5 DEF BwInv
<1> QED BY <1>1, <1>2 DEF BwIInv
-----------------------------------------------------------------------------
(* The threads that measure bandwidth are between the same two barriers, and *)
(* the counter of mini_barrier is the number of those that counted           *)
(* themselves: the inductive invariant.                                      *)
THEOREM BandwidthInvariant == MeasureSpec => []BwIInv
<1>1. MeasureInit => BwIInv
  BY StartsInStep, ThreadsAreCounted DEF MeasureInit, BwIInv, Skipped, BwInit
<1>2. BwIInv /\ [MeasureNext]_measureVars => BwIInv'
  <2> SUFFICES ASSUME BwIInv, [MeasureNext]_measureVars PROVE BwIInv'
    OBVIOUS
  <2>1. CASE UNCHANGED bwVars
    BY <2>1, BwStutter
  <2>2. CASE BwNext
    BY <2>2, SkippedStays, MeasuringKeeps DEF BwIInv
  <2> QED BY <2>1, <2>2 DEF MeasureNext, measureVars
<1> QED BY <1>1, <1>2, PTL DEF MeasureSpec

(* When the threads have ended, every entry of the tables is of its own      *)
(* round: the figure of one thread was measured while the others waited, the *)
(* sum while all threads measured, each counted once.                        *)
EntriesOfTheirRound ==
  (\A t \in BwThreads : bw_pc[t] = "joined") =>
    \A r \in 1..Rounds :
      /\ mem_bw_table1[r] = <<r, TRUE>>
      /\ mem_bw_table[r] = {<<t, <<r, TRUE>>>> : t \in BwThreads}

(* The safety half of BandwidthIsMeasured (mem_bandwidth, mctop.c:504).      *)
THEOREM EntriesAreOfTheirRound == MeasureSpec => []EntriesOfTheirRound
<1>1. BwIInv => EntriesOfTheirRound
  <2> SUFFICES ASSUME BwIInv, \A t \in BwThreads : bw_pc[t] = "joined"
               PROVE  \A r \in 1..Rounds :
                        /\ mem_bw_table1[r] = <<r, TRUE>>
                        /\ mem_bw_table[r] = {<<t, <<r, TRUE>>>> : t \in BwThreads}
    BY DEF EntriesOfTheirRound
  <2>1. 0 \in BwThreads /\ bw_pc[0] = "joined"
    BY ThreadsAreCounted
  <2>2. BwInv
    BY <2>1 DEF BwIInv, Skipped
  <2>3. round[0] = Rounds
    BY <2>1, <2>2 DEF BwInv, BwTypeOK
  <2>4. \A r \in 1..Rounds : r < round[0] \/ r = round[0]
    BY <2>3, BwAssumption
  <2> QED BY <2>1, <2>2, <2>4 DEF BwInv, EntriesSoFar, EntryAlone, EntryOfAll
<1> QED BY <1>1, BandwidthInvariant, PTL

(* A thread measures in company only, and no thread leaves mini_barrier      *)
(* before all have come (mini_barrier, mctop.c:434).                         *)
MeasuresInCompany ==
  \A t \in BwThreads : bw_pc[t] = "measure" => AllAtIt(round[t])

(* While one thread measures, all threads of the round have started it. *)
THEOREM NobodyMeasuresEarly == MeasureSpec => []MeasuresInCompany
<1>1. BwIInv => MeasuresInCompany
  BY AllAreAtIt DEF BwIInv, BwInv, Skipped, MeasuresInCompany
<1> QED BY <1>1, BandwidthInvariant, PTL

(* A thread has a step it may take. *)
MayStep(t) ==
  \/ bw_pc[t] \in {"alone", "arrive", "measure", "sum", "add", "next"}
  \/ bw_pc[t] = "spin" /\ mem_bw_barrier = NumBwThreads

(* The threads that measure have ended, wait at one barrier all, or one of   *)
(* them goes on: neither the barriers nor the spinning block them.           *)
BandwidthGoesOn ==
  \/ Skipped
  \/ \A t \in BwThreads : bw_pc[t] = "joined"
  \/ \E at \in {"wait1", "wait2", "wait3"} : \A t \in BwThreads : bw_pc[t] = at
  \/ \E t \in BwThreads : MayStep(t)

(* The same of every reachable state: a counter set back under a thread that *)
(* spins would leave it spinning.                                            *)
THEOREM BandwidthDoesNotBlock == MeasureSpec => []BandwidthGoesOn
<1>1. BwIInv => BandwidthGoesOn
  <2> SUFFICES ASSUME BwInv, \A t \in BwThreads : ~ MayStep(t)
               PROVE  BandwidthGoesOn
    BY DEF BwIInv, BandwidthGoesOn
  <2>0. BwTypeOK /\ OnOneRound /\ CounterCounts
    BY DEF BwInv
  <2>1. 0 \in BwThreads
    BY ThreadsAreCounted
  <2>2. \A t \in BwThreads : bw_pc[t] \in {"wait1", "wait2", "spin", "wait3", "joined"}
    BY <2>0 DEF BwTypeOK, BwPcs, MayStep
  <2>3. CASE bw_pc[0] = "wait1"
    <3>1. \A t \in BwThreads : bw_pc[t] \in {"wait1", "joined"}
      BY <2>0, <2>1, <2>2, <2>3, WhereOthersAre
    <3>2. ASSUME NEW t \in BwThreads, bw_pc[t] = "joined" PROVE FALSE
      <4>1. round[0] = round[t] + 1 /\ round[t] = Rounds /\ round[0] \in 1..Rounds
        BY <2>0, <2>1, <2>3, <3>2, WhereOthersAre DEF BwTypeOK
      <4> QED BY <4>1, BwAssumption
    <3> QED BY <3>1, <3>2 DEF BandwidthGoesOn
  <2>4. CASE bw_pc[0] = "wait2"
    BY <2>0, <2>1, <2>2, <2>4, WhereOthersAre DEF BandwidthGoesOn
  <2>5. CASE bw_pc[0] \in {"spin", "wait3"}
    <3>1. \A t \in BwThreads : bw_pc[t] \in {"spin", "wait3"}
      BY <2>0, <2>1, <2>2, <2>5, WhereOthersAre
    <3>2. CountedIn = BwThreads
      BY <3>1 DEF CountedIn
    <3>3. mem_bw_barrier = NumBwThreads
      BY <2>0, <2>5, <3>2, ThreadsAreCounted DEF CounterCounts
    <3>4. \A t \in BwThreads : bw_pc[t] = "wait3"
      BY <3>1, <3>3 DEF MayStep
    <3> QED BY <3>4 DEF BandwidthGoesOn
  <2>6. CASE bw_pc[0] = "joined"
    <3>1. \A t \in BwThreads : bw_pc[t] = "wait1" => round[t] = round[0] + 1
      BY <2>0, <2>1, <2>6, WhereOthersAre
    <3>2. \A t \in BwThreads : bw_pc[t] # "wait1"
      BY <2>0, <2>1, <2>6, <3>1, BwAssumption DEF BwTypeOK
    <3>3. \A t \in BwThreads : bw_pc[t] = "joined"
      BY <2>0, <2>1, <2>2, <2>6, <3>2, WhereOthersAre
    <3> QED BY <3>3 DEF BandwidthGoesOn
  <2> QED BY <2>1, <2>2, <2>3, <2>4, <2>5, <2>6
<1> QED BY <1>1, BandwidthInvariant, PTL
================================================================================
