------------------------------ MODULE AllocPolicy ------------------------------
(***************************************************************************)
(* The policies of src/src/mctop_alloc.c: which hardware contexts, in      *)
(* which order, an allocator hands out.  An allocator is the record        *)
(* Create returns; socket numbers stand for the pointers to sockets.       *)
(*                                                                         *)
(* Bandwidths are integers here and the factor 1.05 of the code            *)
(* (mctop_bw_sensitivity) is a comparison of products.  Every policy but   *)
(* NONE reads the bandwidth of a socket, a pointer that is NULL before     *)
(* they are measured: a topology is one with bandwidths.                   *)
(***************************************************************************)
EXTENDS Topology

CONSTANT Topologies     \* the machines' topologies, by name

ALL == -1

MinLat == {"MIN_LAT_HWCS", "MIN_LAT_CORES_HWCS", "MIN_LAT_CORES"}
MinLatBalance ==
    {"MIN_LAT_HWCS_BALANCE", "MIN_LAT_CORES_HWCS_BALANCE", "MIN_LAT_CORES_BALANCE"}
RoundRobin == {"BW_ROUND_ROBIN_HWCS", "BW_ROUND_ROBIN_CORES"}
Policies == {"NONE", "SEQUENTIAL", "BW_BOUND"} \cup MinLat \cup MinLatBalance \cup RoundRobin

\* smt_first: < 0 one context of each core, 0 cores first, > 0 the contexts of a core first.
SmtFirst(policy) ==
    CASE policy \in {"MIN_LAT_HWCS", "MIN_LAT_HWCS_BALANCE", "BW_ROUND_ROBIN_HWCS"} -> 1
      [] policy \in {"MIN_LAT_CORES", "MIN_LAT_CORES_BALANCE"} -> -1
      [] OTHER -> 0

\* topo->mem_bandwidths_r[s] is the bandwidth to the local node as well.
mctop_socket_get_bw_local(t, s) == t.mem_bandwidths_r[s][t.local_node[s]]
mctop_socket_get_bw_local_one(t, s) == t.mem_bandwidths1_r[s][t.local_node[s]]

Exceeds(a, b) == 100 * a > 105 * b
Up(a, b) == a \div b + (IF a % b > 0 THEN 1 ELSE 0)
AtMost(q, n) == IF Len(q) <= n THEN q ELSE SubSeq(q, 1, n)

\* Mutant of mctop_find_double_max: the comparison is the other way round.
FindDoubleMin(arr, n) ==
    FoldLeft(LAMBDA max_i, i : IF Exceeds(arr[max_i], arr[i]) THEN i ELSE max_i,
             0, Loop(1, n - 1))

\* The first socket that no later one surpasses.
mctop_find_double_max(arr, n) ==
    FoldLeft(LAMBDA max_i, i : IF Exceeds(arr[i], arr[max_i]) THEN i ELSE max_i,
             0, Loop(1, n - 1))

\* The inner loop of the sort: place i takes whatever surpasses it.
SortPlace(arr, n, sorted, i) ==
    FoldLeft(LAMBDA q, j : IF Exceeds(arr[q[j]], arr[q[i]])
                           THEN [q EXCEPT ![i] = q[j], ![j] = q[i]] ELSE q,
             sorted, Loop(i + 1, n))

mctop_sort_double_index(arr, n) ==
    FoldLeft(LAMBDA q, i : SortPlace(arr, n, q, i), Loop(0, n - 1), Loop(1, n))

\* The contexts of the cores of a socket, n_cores of them along the list of cores.
CoreHwcs(t, s) ==
    LET cores == AtMost(ListFrom(t, mctop_socket_get_first_gs_core(t, s)), t.n_cores[s])
    IN  [c \in DOMAIN cores |-> t.gs[cores[c]].hwcs]

\* Up to n_hwcs contexts of a socket.
mctop_socket_get_hwc_ids(t, s, n_hwcs, smt_first, hwc) ==
    LET cores == CoreHwcs(t, s)
        nth(ht) == [c \in DOMAIN cores |-> cores[c][ht]]
    IN  AtMost(CASE ~t.is_smt -> t.gs[socket(t, s)].hwcs
                 [] t.is_smt /\ smt_first < 0 -> nth(hwc + 1)
                 [] t.is_smt /\ smt_first = 0 ->
                        FlattenSeq([ht \in 1..t.n_hwcs_per_core |-> nth(ht)])
                 [] OTHER -> FlattenSeq(cores), n_hwcs)

mctop_socket_get_nth_hwc_id(t, s, nth, smt_first) ==
    LET core == IF smt_first > 0 THEN nth \div t.n_hwcs_per_core ELSE nth % t.n_cores[s]
        hwc_i == IF smt_first > 0 THEN nth % t.n_hwcs_per_core ELSE nth \div t.n_cores[s]
    IN  IF ~t.is_smt THEN mctop_socket_get_nth_hwc(t, s, nth)
        ELSE t.gs[mctop_socket_get_nth_gs_core(t, s, core)].hwcs[hwc_i + 1]

(***************************************************************************)
(* What the policies rely on: sockets with the same number of contexts     *)
(* (mctop_alloc_prep_min_lat takes that of the first for all) and, with    *)
(* SMT, all their cores in the list that n_cores cuts off; and every other *)
(* socket once among the siblings, ranked by one latency in both orders.   *)
(***************************************************************************)
SocketsAreAlike(t) ==
    /\ {t.n_sockets, t.n_hwcs, t.n_hwcs_per_core} \subseteq Nat \ {0}
    /\ t.socket_level \in Nat /\ t.is_smt \in BOOLEAN
    /\ ~t.is_smt => t.n_hwcs_per_core = 1
    /\ \A s \in Sockets(t) :
        LET it == t.gs[socket(t, s)]
            n == t.n_hwcs \div t.n_sockets
        IN  /\ it.type = "SOCKET" /\ it.level = t.socket_level
            /\ it.latency = t.latencies[t.socket_level + 1]
            /\ it.level = 0 => it.latency = 0
            /\ it.hwcs \in Seq(Contexts(t)) \ {<< >>} /\ Len(it.hwcs) = n
            /\ t.is_smt => /\ CoreHwcs(t, s) \in Seq([1..t.n_hwcs_per_core -> Contexts(t)])
                           /\ Len(CoreHwcs(t, s)) * t.n_hwcs_per_core = n
            /\ mctop_socket_get_bw_local(t, s) \in Nat

\* Every context is in one socket and, with SMT, one core, at one place.
ContextsAreApart(t) ==
    /\ t.n_hwcs = t.n_sockets * (t.n_hwcs \div t.n_sockets)
    /\ \A h \in Contexts(t) : /\ mctop_hwcid_get_socket(t, h) \in Sockets(t)
                              /\ ~t.is_smt => t.gs[ctx(h)].type = "CORE"
    /\ \A s \in Sockets(t) :
        LET hwcs == t.gs[socket(t, s)].hwcs
            cores == CoreHwcs(t, s)
            places == (1..t.n_cores[s]) \X (1..t.n_hwcs_per_core)
            at(p) == cores[p[1]][p[2]]
        IN  /\ IsInjective(hwcs)
            /\ \A i \in DOMAIN hwcs : mctop_hwcid_get_socket(t, hwcs[i]) = s
            /\ t.is_smt =>
                /\ ListFrom(t, mctop_socket_get_first_gs_core(t, s)) \in Seq(DOMAIN t.gs)
                /\ Len(cores) = t.n_cores[s]
                /\ \A p \in places : mctop_hwcid_get_socket(t, at(p)) = s
                /\ \A p, r \in places :
                    /\ at(p) = at(r) => p = r
                    /\ mctop_hwcid_get_core(t, at(p)) = mctop_hwcid_get_core(t, at(r)) <=> p[1] = r[1]
            /\ mctop_socket_get_bw_local_one(t, s) \in Nat \ {0}

SiblingsAreAlike(t) ==
    /\ t.siblings \in Seq([level : Nat, latency : Nat, left : Sockets(t), right : Sockets(t)])
    /\ \A b, c \in ToSet(t.siblings) : {b.left, b.right} = {c.left, c.right} => b = c
    /\ \A s \in Sockets(t) :
        LET q == t.sib_in[s]
        IN  /\ q \in Seq(ToSet(t.siblings)) /\ Len(q) = t.n_sockets - 1
            /\ \A i \in DOMAIN q : s \in {q[i].left, q[i].right}
            /\ {mctop_sibling_get_other_socket(q[i], s) : i \in DOMAIN q} = Sockets(t) \ {s}
            /\ \A i \in DOMAIN q :
                  /\ q[i].latency = t.sib[s][i].latency
                  /\ t.latencies[t.socket_level + 1] <= q[i].latency
                  /\ \A j \in DOMAIN q : i < j => q[i].latency <= q[j].latency

ASSUME TopologiesAssumption ==
    \A name \in DOMAIN Topologies :
        /\ mctop_has_mem_bw(Topologies[name])
        /\ SocketsAreAlike(Topologies[name])
        /\ ContextsAreApart(Topologies[name])
        /\ SiblingsAreAlike(Topologies[name])
-------------------------------------------------------------------------------
(* What the policies fill in: contexts, sockets, latency and bandwidth. *)

\* The largest latency between two of the sockets, that within a socket at least.
mctop_alloc_fix_max_lat(t, sockets) ==
    Max({t.latencies[t.socket_level + 1]} \cup
        {mctop_ids_get_latency(t, socket(t, sockets[p[1]]), socket(t, sockets[p[2]])) :
            p \in {q \in (DOMAIN sockets) \X (DOMAIN sockets) : q[1] < q[2]}})

mctop_alloc_prep_sequential(t, n_hwcs) ==
    LET sockets == AddAllUniq([h \in 1..n_hwcs |-> mctop_hwcid_get_socket(t, h - 1)])
    IN  [hwcs |-> Loop(0, n_hwcs - 1), sockets |-> sockets,
         max_latency |-> mctop_alloc_fix_max_lat(t, sockets),
         min_bandwidth |-> Min({mctop_socket_get_bw_local(t, s) : s \in ToSet(sockets)})]

\* The contexts of each socket in turn, until there are enough.
FillSockets(t, order, n_hwcs, per_socket, smt_first) ==
    FoldLeft(LAMBDA a, s :
        IF Len(a.hwcs) >= n_hwcs THEN a
        ELSE [hwcs |-> a.hwcs \o mctop_socket_get_hwc_ids(t, s, per_socket, smt_first, 0),
              sockets |-> darray_add(a.sockets, s)],
        [hwcs |-> << >>, sockets |-> << >>], order)

\* Mutant of NextContexts: every pass takes the first context of each core.
FirstContextsAgain(t, a, n_hwcs, per_socket) ==
    FoldLeft(LAMBDA hwcs, hwc :
        IF Len(hwcs) >= n_hwcs THEN hwcs
        ELSE hwcs \o FlattenSeq([i \in DOMAIN a.sockets |->
                        mctop_socket_get_hwc_ids(t, a.sockets[i], per_socket, -1, 0)]),
        a.hwcs, Loop(1, t.n_hwcs_per_core - 1))

(***************************************************************************)
(* The later passes of one context per core: a pass takes per_socket       *)
(* contexts of every socket, whatever the passes before took there.        *)
(***************************************************************************)
NextContexts(t, a, n_hwcs, per_socket) ==
    FoldLeft(LAMBDA hwcs, hwc :
        IF Len(hwcs) >= n_hwcs THEN hwcs
        ELSE hwcs \o FlattenSeq([i \in DOMAIN a.sockets |->
                        mctop_socket_get_hwc_ids(t, a.sockets[i], per_socket, -1, hwc)]),
        a.hwcs, Loop(1, t.n_hwcs_per_core - 1))

\* How many contexts of each socket: the limit of the caller, or an even share.
PerSocket(t, start, n_hwcs, n_config, smt_first, balance) ==
    LET n == Len(t.gs[socket(t, start)].hwcs)
        n_hwcs_avail == IF smt_first < 0 THEN n \div t.n_hwcs_per_core ELSE n
        needed == Up(n_hwcs, n_hwcs_avail)
        n_sockets == IF needed > t.n_sockets /\ smt_first < 0 THEN t.n_sockets ELSE needed
    IN  IF balance THEN Up(n_hwcs, n_sockets)
        ELSE IF n_config > n \/ n_config <= 0 THEN n ELSE n_config

(***************************************************************************)
(* From the socket with the most bandwidth to its siblings, in the order   *)
(* of the bandwidth from them: contexts of a socket until there are        *)
(* enough.  max_latency is read from the siblings in their other order.    *)
(***************************************************************************)
MinLatFrom(t, start, asked, per_socket, smt_first, balance) ==
    LET n_hwcs == Min({asked, per_socket * t.n_sockets})
        others == [i \in DOMAIN t.sib_in[start] |->
                        mctop_sibling_get_other_socket(t.sib_in[start][i], start)]
        first == FillSockets(t, <<start>> \o others, n_hwcs, per_socket, smt_first)
        remaining == Up(n_hwcs - Len(first.hwcs), Len(first.sockets))
        hwcs == IF smt_first < 0 /\ t.is_smt
                THEN NextContexts(t, first, n_hwcs, IF balance THEN remaining ELSE per_socket)
                ELSE first.hwcs
        n_others == Len(first.sockets) - 1
    IN  [hwcs |-> AtMost(hwcs, n_hwcs), sockets |-> first.sockets,
         max_latency |-> Max({t.latencies[t.socket_level + 1]} \cup
                             {t.sib[start][i].latency : i \in 1..n_others}),
         min_bandwidth |-> Min({mctop_socket_get_bw_local(t, start)} \cup
                               {mctop_socket_get_bw_to(t, others[i], start) : i \in 1..n_others})]

mctop_alloc_prep_min_lat(t, asked, n_config, smt_first, balance) ==
    LET start == mctop_find_double_max([s \in Sockets(t) |-> mctop_socket_get_bw_local(t, s)],
                                       t.n_sockets)
    IN  MinLatFrom(t, start, asked, PerSocket(t, start, asked, n_config, smt_first, balance),
                   smt_first, balance)

\* How many sockets: all, unless fewer are asked for.
NumSockets(t, n_config) ==
    IF n_config > t.n_sockets \/ n_config <= 0 THEN t.n_sockets ELSE n_config

ByBandwidth(t) ==
    mctop_sort_double_index([s \in Sockets(t) |-> mctop_socket_get_bw_local(t, s)], t.n_sockets)

\* min_bandwidth is that of the socket visited last, not the least.
mctop_alloc_prep_bw_round_robin(t, n_hwcs, n_config, smt_first) ==
    LET n_sockets == Min({NumSockets(t, n_config), n_hwcs})
        sockets == AtMost(ByBandwidth(t), n_sockets)
    IN  [hwcs |-> [i \in 1..n_hwcs |->
                    mctop_socket_get_nth_hwc_id(t, sockets[((i - 1) % n_sockets) + 1],
                                                (i - 1) \div n_sockets, smt_first)],
         sockets |-> sockets,
         max_latency |-> mctop_alloc_fix_max_lat(t, sockets),
         min_bandwidth |-> mctop_socket_get_bw_local(t, Last(sockets))]

\* As many contexts as saturate the node, rounded to the nearest, and some more.
mctop_alloc_prep_bw_bound(t, n_hwcs_extra, n_config) ==
    LET sockets == AtMost(ByBandwidth(t), NumSockets(t, n_config))
        saturate(s) == (2 * mctop_socket_get_bw_local(t, s) + mctop_socket_get_bw_local_one(t, s))
                          \div (2 * mctop_socket_get_bw_local_one(t, s))
        n(s) == Min({n_hwcs_extra + saturate(s), Len(t.gs[socket(t, s)].hwcs)})
    IN  [hwcs |-> FlattenSeq([i \in DOMAIN sockets |->
                    mctop_socket_get_hwc_ids(t, sockets[i], n(sockets[i]), 0, 0)]),
         sockets |-> sockets,
         max_latency |-> mctop_alloc_fix_max_lat(t, sockets),
         min_bandwidth |-> mctop_socket_get_bw_local(t, Last(sockets))]
-------------------------------------------------------------------------------
\* A number of contexts that is not positive, or too large, is all of them.
Wanted(t, n_hwcs) == IF n_hwcs <= 0 \/ n_hwcs > t.n_hwcs THEN t.n_hwcs ELSE n_hwcs

(***************************************************************************)
(* Round robin over fewer sockets than hold the contexts wanted reads past *)
(* the contexts of a socket, or goes on in the cores of the next one: what *)
(* the code then does is undefined, and such calls are left out.           *)
(***************************************************************************)
RunsOut(t, g) ==
    /\ g[3] \in RoundRobin
    /\ Wanted(t, g[1]) * t.n_sockets > NumSockets(t, g[2]) * t.n_hwcs

Placed(t, n, n_config, policy) ==
    CASE policy = "NONE" ->
            [hwcs |-> << >>, sockets |-> << >>, max_latency |-> 0, min_bandwidth |-> 0]
      [] policy = "SEQUENTIAL" -> mctop_alloc_prep_sequential(t, n)
      [] policy \in MinLat \cup MinLatBalance ->
            mctop_alloc_prep_min_lat(t, n, n_config, SmtFirst(policy), policy \in MinLatBalance)
      [] policy \in RoundRobin ->
            mctop_alloc_prep_bw_round_robin(t, n, n_config, SmtFirst(policy))
      [] OTHER -> mctop_alloc_prep_bw_bound(t, n, n_config)

\* mctop_alloc_create_simple: no barriers, no numbers of cores.
mctop_alloc_create_simple(t, n_hwcs, n_config, policy) ==
    LET simple(placed, wanted) ==
            [policy |-> policy,
             n_hwcs |-> IF policy = "NONE" THEN wanted ELSE Len(placed.hwcs),
             hwcs |-> placed.hwcs, sockets |-> placed.sockets,
             max_latency |-> placed.max_latency, min_bandwidth |-> placed.min_bandwidth]
    IN  simple(Placed(t, Wanted(t, n_hwcs), n_config, policy), Wanted(t, n_hwcs))

mctop_alloc_socket_seq_id(a, s) == darray_exists_pos(a.sockets, s)

\* mctop_alloc_details_calc: the contexts, and the cores, of the n-th socket.
HwcsOf(t, a, n) ==
    SelectSeq(a.hwcs, LAMBDA h :
        mctop_alloc_socket_seq_id(a, mctop_hwcid_get_socket(t, h)) = n)
CoresOf(t, a, n) == {mctop_hwcid_get_core(t, h) : h \in ToSet(HwcsOf(t, a, n))}

(***************************************************************************)
(* What an allocator of mctop_alloc_create has more, for barriers: one     *)
(* of a socket is for as many threads as n_hwcs_per_socket, or             *)
(* n_cores_per_socket, says.  node_to_nth_socket has an entry for every    *)
(* socket of the topology: entry i is the node of the i-th socket of the   *)
(* allocator, 0 if it has fewer.                                           *)
(***************************************************************************)
WithBarriers(t, a) ==
    LET cores == AddAllUniq([i \in DOMAIN a.hwcs |-> mctop_hwcid_get_core(t, a.hwcs[i])])
        nth == 0..(Len(a.sockets) - 1)
    IN  [policy |-> a.policy, n_hwcs |-> a.n_hwcs, hwcs |-> a.hwcs, sockets |-> a.sockets,
         max_latency |-> a.max_latency, min_bandwidth |-> a.min_bandwidth,
         core_sids |-> [i \in DOMAIN a.hwcs |->
                            darray_exists_pos(cores, mctop_hwcid_get_core(t, a.hwcs[i]))],
         n_cores |-> Len(cores),
         n_hwcs_per_socket |-> [n \in nth |-> Len(HwcsOf(t, a, n))],
         n_cores_per_socket |-> [n \in nth |-> Cardinality(CoresOf(t, a, n))],
         node_to_nth_socket |->
            [n \in Sockets(t) |-> IF n \in nth THEN t.local_node[a.sockets[n + 1]] ELSE 0]]

mctop_alloc_node_to_nth_socket(a, node) == a.node_to_nth_socket[node]

mctop_alloc_create(t, n_hwcs, n_config, policy) ==
    WithBarriers(t, mctop_alloc_create_simple(t, n_hwcs, n_config, policy))
-------------------------------------------------------------------------------
(* What a thread that holds slot id (from 1) of an allocator is told by    *)
(* mctop_alloc_pin_prepare.                                                *)

nth_socket(t, a, id) == mctop_alloc_socket_seq_id(a, mctop_hwcid_get_socket(t, a.hwcs[id]))

\* mctop_alloc_id_get_nth_hwc_in_socket: the contexts of the socket in the slots before.
nth_hwc_in_socket(t, a, id) ==
    Cardinality({i \in 1..(id - 1) : nth_socket(t, a, i) = nth_socket(t, a, id)})

nth_hwc_in_core(t, a, id) == mctop_hwcid_get_nth_hwc_in_core(t, a.hwcs[id])
nth_core_socket(t, a, id) == mctop_hwcid_get_nth_core_in_socket(t, a.hwcs[id])
================================================================================
