--------------------------------- MODULE Mctop ---------------------------------
(***************************************************************************)
(* The program mctop of src/src/mctop.c once the latencies are measured:   *)
(* clustering, SMT detection, construction of the topology, measurements   *)
(* of memory, and the description file, to which every stage appends what  *)
(* it has found.  The process may be killed between two stages; a run with *)
(* --augment then loads the file (src/src/mctop_load.c) and adds what is   *)
(* missing.                                                                *)
(*                                                                         *)
(* A machine is what the measurements see: lat[x][y], the latency between  *)
(* two contexts; mem[x][n] and bw[x][n], bw1[x][n], the latency and the    *)
(* bandwidths from the socket of context x to node n; core[x], the core of *)
(* a context; os_node[x], the node the operating system believes x is on;  *)
(* level and blocks, its true structure, used by the properties only.      *)
(***************************************************************************)
EXTENDS Topology

CONSTANTS
    Machines,       \* the machines
    Settings,       \* the options: records [sens, hint, do_mem]
    MaxKills,       \* bound: how often the process is killed
    MaxAugments     \* bound: how many runs with --augment follow

ASSUME MachinesAssumption ==
    \A m \in Machines : /\ m.n_hwcs \in Nat \ {0}
                        /\ m.lat \in [0..(m.n_hwcs - 1) -> [0..(m.n_hwcs - 1) -> Nat]]
ASSUME BoundsAssumption == MaxKills \in Nat /\ MaxAugments \in Nat
\* A hint of 1 is never met, for 0 is a cluster of its own, and the search for it
\* has no end but the overflow of the sensitivity.
ASSUME SettingsAssumption ==
    \A o \in Settings : /\ o.sens \in Nat \ {0}
                        /\ o.hint \in Nat \ {1}
                        /\ o.do_mem \in {"NO_MEM", "ON_TIME", "ON_TOPO", "ON_TOPO_BW"}

VARIABLES
    machine, settings,
    pc,             \* the stage the process is in, or how it has ended
    augment,        \* is this a run with --augment?
    points,         \* the measured values, sorted
    sens, dir,      \* sensitivity and direction of the loop of cdf_cluster
    cc,             \* the clusters
    topo,           \* the topology
    mem_lat_table,
    file,           \* the sections of the description file
    kills, augments

vars == <<machine, settings, pc, augment, points, sens, dir, cc, topo, mem_lat_table, file,
          kills, augments>>

N == machine.n_hwcs
Hwcs == 0..(N - 1)
Nodes == 0..(machine.n_sockets - 1)
do_mem == IF augment THEN "ON_TOPO_BW" ELSE settings.do_mem
Zeros == [x \in Hwcs |-> [n \in Nodes |-> 0]]

\* main, up to the end of crawl: with ON_TIME it has measured memory as well.
Init ==
    /\ machine \in Machines
    /\ settings \in Settings
    /\ pc = "calc"
    /\ augment = FALSE
    /\ points = << >>
    /\ sens = settings.sens
    /\ dir = 0
    /\ cc = << >>
    /\ topo = None
    /\ mem_lat_table = CASE do_mem = "NO_MEM" -> None
                         [] do_mem = "ON_TIME" -> machine.mem
                         [] OTHER -> Zeros
    /\ file = << >>
    /\ kills = 0
    /\ augments = 0
-------------------------------------------------------------------------------
\* The points of cdf_create.
Points ==
    /\ pc = "calc"
    /\ points' = cdf_calc(UNION {{machine.lat[x][y] : y \in Hwcs} : x \in Hwcs})
    /\ pc' = "cluster"
    /\ UNCHANGED <<machine, settings, augment, sens, dir, cc, topo, mem_lat_table, file, kills,
                   augments>>

\* Mutant of Cluster: the search goes on when the distance changes its sign.
ClusterForEver ==
    LET found == Clusters(points, sens)
        d == settings.hint - Len(found)
    IN  /\ pc = "cluster"
        /\ \/ /\ settings.hint = 0 \/ d = 0
              /\ cc' = found
              /\ pc' = "describe"
              /\ UNCHANGED <<sens, dir>>
           \/ /\ settings.hint # 0 /\ d # 0
              /\ dir' = d
              /\ sens' = sens - d
              /\ pc' = IF sens - d > 0 THEN "cluster" ELSE "gave up"
              /\ UNCHANGED cc
        /\ UNCHANGED <<machine, settings, augment, points, topo, mem_lat_table, file, kills, augments>>

(***************************************************************************)
(* One pass of the loop of cdf_cluster.  Without a hint the first is the   *)
(* last.  With one, the sensitivity changes by the distance to the number  *)
(* of clusters asked for, until that number is found, the distance changes *)
(* its sign, or the sensitivity is used up: then main gives up.            *)
(***************************************************************************)
Cluster ==
    LET found == Clusters(points, sens)
        d == settings.hint - Len(found)
        stop == (dir < 0 /\ d > 0) \/ (dir > 0 /\ d < 0)
    IN  /\ pc = "cluster"
        /\ \/ /\ settings.hint = 0 \/ d = 0
              /\ cc' = found
              /\ pc' = "describe"
              /\ UNCHANGED <<sens, dir>>
           \/ /\ settings.hint # 0 /\ d # 0
              /\ dir' = d
              /\ sens' = sens - d
              /\ pc' = IF sens - d > 0 /\ ~stop THEN "cluster" ELSE "gave up"
              /\ UNCHANGED cc
        /\ UNCHANGED <<machine, settings, augment, points, topo, mem_lat_table, file, kills, augments>>

Norm == Normalized(machine.lat, cc)

\* The two contexts with the least latency, tested for being on one core.
IsSmtCpu ==
    LET pair == lat_table_get_hwc_with_lat(Norm, N, cdf_cluster_get_min_latency(cc))
    IN  machine.core[pair[1]] = machine.core[pair[2]]

\* SMT detection, and print_lat_table, which starts the file anew.
Describe ==
    /\ pc = "describe"
    /\ file' = <<[kind |-> "lat", is_smt |-> IsSmtCpu, data |-> Norm]>>
    /\ pc' = "construct"
    /\ UNCHANGED <<machine, settings, augment, points, sens, dir, cc, topo, mem_lat_table, kills, augments>>

\* How the process goes on from a topology.
After(t, stage) ==
    IF t.status = "ok" THEN stage
    ELSE IF t.status \in {"abort", "incorrect"} THEN t.status ELSE "crash"

Construct ==
    /\ pc = "construct"
    /\ topo' = mctop_construct(Head(file).data, N, mem_lat_table, machine.n_sockets, cc,
                             Head(file).is_smt)
    /\ pc' = After(topo', "mem_lat")
    /\ UNCHANGED <<machine, settings, augment, points, sens, dir, cc, mem_lat_table, file, kills, augments>>

FirstHwc(s) == mctop_socket_get_nth_hwc(topo, s, 0)

\* mctop_mem_latencies_calc: the rows of the first context of every socket.
Measured ==
    [x \in Hwcs |-> IF \E s \in Sockets(topo) : FirstHwc(s) = x
                    THEN machine.mem[x] ELSE mem_lat_table[x]]

MemLatencies ==
    /\ pc = "mem_lat"
    /\ do_mem \in {"ON_TOPO", "ON_TOPO_BW"}
    /\ ~augment \/ ~mctop_has_mem_lat(topo)
    /\ mem_lat_table' = Measured
    /\ topo' = mctop_mem_latencies_add(topo, Measured)
    /\ file' = Append(file, [kind |-> "Mem_latencies", data |-> Measured])
    /\ pc' = "bandwidth"
    /\ UNCHANGED <<machine, settings, augment, points, sens, dir, cc, kills, augments>>

\* Nothing to measure: the table of ON_TIME is printed, one that was loaded is not.
MemLatenciesKnown ==
    /\ pc = "mem_lat"
    /\ do_mem \in {"NO_MEM", "ON_TIME"} \/ (augment /\ mctop_has_mem_lat(topo))
    /\ file' = IF do_mem = "ON_TIME"
               THEN Append(file, [kind |-> "Mem_latencies", data |-> mem_lat_table]) ELSE file
    /\ pc' = "bandwidth"
    /\ UNCHANGED <<machine, settings, augment, points, sens, dir, cc, topo, mem_lat_table, kills, augments>>

Bw(table) == [s \in Sockets(topo) |-> table[FirstHwc(s)]]

\* All threads measure (see MemBandwidth); what was read is appended first.
Bandwidth ==
    /\ pc = "bandwidth"
    /\ do_mem = "ON_TOPO_BW"
    /\ ~mctop_has_mem_bw(topo)
    /\ topo' = mctop_mem_bandwidth_add(topo, Bw(machine.bw), Bw(machine.bw1))
    /\ file' = file \o <<[kind |-> "Mem_bw-READ", data |-> Bw(machine.bw)],
                         [kind |-> "Mem_bw1-READ", data |-> Bw(machine.bw1)]>>
    /\ pc' = "bandwidth written"
    /\ UNCHANGED <<machine, settings, augment, points, sens, dir, cc, mem_lat_table, kills, augments>>

PrintWritten ==
    /\ pc = "bandwidth written"
    /\ file' = file \o <<[kind |-> "Mem_bw-WRITE", data |-> Bw(machine.bw)],
                         [kind |-> "Mem_bw1-WRITE", data |-> Bw(machine.bw1)]>>
    /\ pc' = "free"
    /\ UNCHANGED <<machine, settings, augment, points, sens, dir, cc, topo, mem_lat_table, kills, augments>>

BandwidthKnown ==
    /\ pc = "bandwidth"
    /\ do_mem # "ON_TOPO_BW" \/ mctop_has_mem_bw(topo)
    /\ pc' = "free"
    /\ UNCHANGED <<machine, settings, augment, points, sens, dir, cc, topo, mem_lat_table, file, kills,
                   augments>>
\* The end of main.
Free ==
    /\ pc = "free"
    /\ topo' = mctop_free(topo)
    /\ pc' = IF topo'.status = "ok" THEN "done" ELSE "crash in free"
    /\ UNCHANGED <<machine, settings, augment, points, sens, dir, cc, mem_lat_table, file, kills, augments>>
-------------------------------------------------------------------------------
Running == {"calc", "cluster", "describe", "construct", "load", "mem_lat", "bandwidth",
            "bandwidth written", "free"}

\* The process dies between two stages; only the file survives.
Kill ==
    /\ pc \in Running
    /\ kills < MaxKills
    /\ kills' = kills + 1
    /\ pc' = "killed"
    /\ UNCHANGED <<machine, settings, augment, points, sens, dir, cc, topo, mem_lat_table, file, augments>>

\* The next run of the program is one with --augment.
Augment ==
    /\ pc \in {"killed", "done"}
    /\ augments < MaxAugments
    /\ augments' = augments + 1
    /\ augment' = TRUE
    /\ pc' = "load"
    /\ cc' = << >>
    /\ topo' = None
    /\ mem_lat_table' = Zeros
    /\ UNCHANGED <<machine, settings, points, sens, dir, file, kills>>

Have(kind) == \E i \in DOMAIN file : file[i].kind = kind

\* Of several sections of one kind the last one overwrites the others.
Section(kind) == file[SelectLastInSeq(file, LAMBDA f : f.kind = kind)].data

\* Mutant of LoadedTopology: the bandwidth is known when one of its sections is.
LoadedIfRead ==
    LET lat == Section("lat")
        t == mctop_construct(lat, N, IF Have("Mem_latencies") THEN Section("Mem_latencies") ELSE None,
                             machine.n_sockets, mctop_infer_clustering(lat), Head(file).is_smt)
    IN  IF t.status = "ok" /\ Have("Mem_bw-READ")
        THEN mctop_mem_bandwidth_add(t, Section("Mem_bw-READ"), Section("Mem_bw1-READ"))
        ELSE t

LoadedTopology ==
    LET lat == Section("lat")
        t == mctop_construct(lat, N, IF Have("Mem_latencies") THEN Section("Mem_latencies") ELSE None,
                             machine.n_sockets, mctop_infer_clustering(lat), Head(file).is_smt)
        all == \A kind \in {"Mem_bw-READ", "Mem_bw1-READ", "Mem_bw-WRITE", "Mem_bw1-WRITE"} : Have(kind)
    IN  IF t.status = "ok" /\ all
        THEN mctop_mem_bandwidth_add(t, Section("Mem_bw-READ"), Section("Mem_bw1-READ"))
        ELSE t

\* The contexts whose node, as the operating system has it, is not the closest.
WithWrongNodes(t) ==
    [local_node_wrong |->
        IF t.status # "ok" \/ t.has_mem = "NO_MEMORY" THEN {}
        ELSE {h \in Hwcs : t.local_node[mctop_hwcid_get_socket(t, h)] # machine.os_node[h]}] @@ t

mctop_load ==
    /\ pc = "load"
    /\ IF file = << >>
       THEN pc' = "no file" /\ UNCHANGED topo
       ELSE /\ topo' = WithWrongNodes(LoadedTopology)
            /\ pc' = After(topo', "mem_lat")
    /\ UNCHANGED <<machine, settings, augment, points, sens, dir, cc, mem_lat_table, file, kills, augments>>

\* One process works through the stages; it may be killed and started again.
Work ==
    \/ Points \/ Cluster \/ Describe \/ Construct
    \/ MemLatencies \/ MemLatenciesKnown
    \/ Bandwidth \/ PrintWritten \/ BandwidthKnown \/ Free
    \/ mctop_load

Next == Work \/ Kill \/ Augment

\* A process that is not killed goes on; this is said of the one loop of unknown length.
Spec == Init /\ [][Next]_vars /\ WF_vars(Cluster)
-------------------------------------------------------------------------------
Built == topo # None /\ topo.status = "ok"
Table == Head(file).data

\* The distinct pairs of level and normalised latency of two contexts.
LevelLatencies == {<<machine.level[p[1]][p[2]], Table[p[1]][p[2]]>> : p \in Hwcs \X Hwcs}

\* No level is split into several clusters, but several may share one.
Levelled == \A a, b \in LevelLatencies : a[1] = b[1] => a[2] = b[2]

\* The clusters are the levels of the machine.
Separated == Levelled /\ \A a, b \in LevelLatencies : a[2] = b[2] => a[1] = b[1]

\* Within a socket the contexts up to a level from each other are groups; on a ring or
\* a mesh they are not, and the climb of mctop_fix_children_links finds no parent.
Nested == \A sock \in Last(machine.blocks) : \A x, y, z \in sock :
              machine.level[x][z] <= Max({machine.level[x][y], machine.level[y][z]})

\* A socket of an SMT machine has several cores: with one, the assertion of
\* mctop_fix_n_hwcs_per_core_smt fails, as its level-1 group is the socket.
SeveralCores == machine.smt => Cardinality(ToSet([x \in 1..N |-> machine.core[x - 1]])) > machine.n_sockets

Members(t, lvl) == {ToSet(t.gs[c].hwcs) : c \in {c \in DOMAIN t.gs : c[1] = lvl}}

(***************************************************************************)
(* Every measured latency lies in exactly one cluster, the medians are     *)
(* measured values in increasing order, only 0 is normalised to 0, and a   *)
(* hint that is met is met exactly (cdf_cluster of cdf.c).                 *)
(***************************************************************************)
ClustersAreSound ==
    cc # << >> =>
        /\ ToSet([k \in DOMAIN cc |-> cc[k].median]) \subseteq ToSet(points)
        /\ \A i, j \in DOMAIN cc : i < j => cc[i].median < cc[j].median
        /\ \A v \in ToSet(points) :
              /\ Quantify(ToSet(cc), LAMBDA c : c.val_min <= v /\ v <= c.val_max) = 1
              /\ (cdf_cluster_value_to_cluster_median(cc, v) = 0) = (v = 0)
        /\ settings.hint # 0 => Len(cc) = settings.hint

(***************************************************************************)
(* The search for a number of clusters ends, met or given up: the          *)
(* sensitivity does not swing for ever around the one that would do (the   *)
(* loop of cdf_cluster).  SettingsAssumption leaves out the hint of 1.     *)
(***************************************************************************)
SearchEnds == pc = "cluster" ~> pc # "cluster"

(***************************************************************************)
(* mctop_ids_get_latency, which climbs groups and sockets and then looks   *)
(* up the sibling, answers with the normalised table for every two         *)
(* contexts, and with the table for every two sockets.                     *)
(***************************************************************************)
LatencyIsTable ==
    Built /\ Levelled =>
        /\ \A x, y \in Hwcs : mctop_ids_get_latency(topo, ctx(x), ctx(y)) = Table[x][y]
        /\ \A s, r \in Sockets(topo) : s # r =>
              \A x \in ToSet(topo.gs[socket(topo, s)].hwcs) :
                  mctop_ids_get_latency(topo, socket(topo, r), ctx(x))
                      = Table[x][mctop_socket_get_nth_hwc(topo, r, 0)]

CoresIn(s) == {mctop_hwcid_get_core(topo, h) : h \in ToSet(topo.gs[socket(topo, s)].hwcs)}

(***************************************************************************)
(* When the clusters are the levels of the machine, mctop_construct finds  *)
(* the machine: it neither fails nor misses a socket, its groups of every  *)
(* level are the blocks of contexts that share that level, SMT is detected *)
(* as it is, and children, parents and sockets agree.  n_cores counts the  *)
(* cores of a socket unless there are groups of cores in it: then the code *)
(* leaves the number of the last group there (mctop_topology.c:643).       *)
(***************************************************************************)
TopologyIsMachine ==
    file # << >> /\ Separated /\ Nested /\ SeveralCores =>
        /\ pc \notin {"incorrect", "crash", "abort"}
        /\ Built =>
            /\ topo.is_smt = machine.smt
            /\ topo.n_hwcs_per_core = Cardinality({x \in Hwcs : machine.core[x] = machine.core[0]})
            /\ topo.socket_level = Len(machine.blocks)
            /\ \A s \in Sockets(topo) :
                  ToSet(topo.gs[socket(topo, s)].children) = CoresIn(s) =>
                      topo.n_cores[s] = Cardinality(CoresIn(s))
            /\ \A lvl \in 1..topo.socket_level : Members(topo, lvl) = machine.blocks[lvl]
            /\ \A c \in DOMAIN topo.gs : topo.gs[c].level > 0 =>
                  /\ ToSet(topo.gs[c].children) = {d \in DOMAIN topo.gs : topo.gs[d].parent = c}
                  /\ ToSet(topo.gs[c].hwcs) =
                        UNION {ToSet(topo.gs[d].hwcs) : d \in ToSet(topo.gs[c].children)}

(***************************************************************************)
(* The positions the queries return are positions: of the contexts of a    *)
(* socket, first those that start a core, of its cores, and of the         *)
(* contexts of a core; and the n-th core or context is the one whose       *)
(* position is n (mctop_hwcid_get_nth_..., mctop_socket_get_nth_...).      *)
(***************************************************************************)
PositionsAreBijective ==
    Built /\ Levelled =>
        \A s \in Sockets(topo) :
            LET mine == ToSet(topo.gs[socket(topo, s)].hwcs)
                nth(h) == mctop_hwcid_get_nth_hwc_in_socket(topo, h)
                core(h) == mctop_hwcid_get_nth_core_in_socket(topo, h)
                in(h) == mctop_hwcid_get_nth_hwc_in_core(topo, h)
                n_cores == Cardinality(mine) \div topo.n_hwcs_per_core
            IN  /\ {nth(h) : h \in mine} = 0..(Cardinality(mine) - 1)
                /\ {<<core(h), in(h)>> : h \in mine}
                      = (0..(n_cores - 1)) \X (0..(topo.n_hwcs_per_core - 1))
                /\ \A h \in mine :
                      /\ mctop_hwcid_get_socket(topo, h) = s
                      /\ mctop_socket_get_nth_gs_core(topo, s, core(h))
                            = mctop_hwcid_get_core(topo, h)
                      /\ (nth(h) < n_cores) = (in(h) = 0)

(***************************************************************************)
(* The siblings of a socket are the other sockets, once each, the closest  *)
(* first; once the bandwidth is known, those of one latency are ordered by *)
(* the bandwidth to them (siblings) or from them (siblings_in).            *)
(***************************************************************************)
SiblingsAreRanked ==
    Built /\ Levelled =>
        \A s \in Sockets(topo) :
            LET other(b) == mctop_sibling_get_other_socket(b, s)
                ranked(q, bw(_)) ==
                    /\ {other(q[i]) : i \in DOMAIN q} = Sockets(topo) \ {s}
                    /\ Len(q) = topo.n_sockets - 1
                    /\ \A i, j \in DOMAIN q : i < j =>
                          \/ q[i].latency < q[j].latency
                          \/ q[i].latency = q[j].latency /\ bw(q[i]) >= bw(q[j])
            IN  IF mctop_has_mem_bw(topo)
                THEN /\ ranked(topo.sib[s], LAMBDA b : mctop_socket_get_bw_to(topo, s, other(b)))
                     /\ ranked(topo.sib_in[s], LAMBDA b : mctop_socket_get_bw_to(topo, other(b), s))
                ELSE ranked(topo.sib[s], LAMBDA b : 0)

(***************************************************************************)
(* mctop_free frees every sibling and every group below the sockets, and   *)
(* none of them twice, though it reaches them over the links only, and it  *)
(* meets no NULL: once the sockets are found, every level beyond them is   *)
(* the distance of two sockets, however the latencies were clustered.      *)
(***************************************************************************)
FreesAll ==
    /\ pc = "done" =>
          /\ IsInjective(topo.freed_siblings)
          /\ IsInjective(topo.freed_groups)
          /\ ToSet(topo.freed_siblings) = UNION {ToSet(topo.sib[s]) : s \in Sockets(topo)}
          /\ ToSet(topo.freed_groups)
                = {c \in DOMAIN topo.gs : c[1] \in 1..(topo.socket_level - 1)}
    /\ pc # "crash in free"

(***************************************************************************)
(* However the runs before it ended, a run with --augment that gets        *)
(* through leaves a complete topology and a complete file: the same        *)
(* contexts, groups and sockets as were measured, the closest node of      *)
(* every socket and back, and the bandwidths ("Augment an existing MCT     *)
(* description file with memory measurements", mctop.c:694).               *)
(***************************************************************************)
AugmentCompletes ==
    pc = "done" /\ augment =>
        /\ topo.gs = mctop_construct(Table, N, None, machine.n_sockets, Clusters(points, sens),
                                     topo.is_smt).gs
        /\ mctop_has_mem_bw(topo)
        /\ \A kind \in {"Mem_latencies", "Mem_bw-READ", "Mem_bw1-READ", "Mem_bw-WRITE",
                        "Mem_bw1-WRITE"} : Have(kind)
        /\ \A x \in Hwcs :
              LET s == mctop_hwcid_get_socket(topo, x)
                  near == topo.local_node[s]
              IN  /\ \A n \in Nodes : machine.mem[x][near] <= machine.mem[x][n]
                  /\ mctop_node_to_socket(topo, near) = s
===============================================================================
