------------------------------ MODULE MCPlacement ------------------------------
(***************************************************************************)
(* Placement on topologies that mctop_construct makes of small machines.   *)
(***************************************************************************)
EXTENDS Placement, Machines

WithClusters(m, cc) ==
    mctop_construct(Tabulated(Normalized(m.lat, cc)), m.n_hwcs, m.mem, m.n_sockets, cc, m.smt)

WithBandwidths(m, t) ==
    LET rows(table) == [s \in Sockets(t) |-> table[mctop_socket_get_nth_hwc(t, s, 0)]]
    IN  mctop_mem_bandwidth_add(t, rows(m.bw), rows(m.bw1))

AsTables(t) ==
    [sib |-> t.sib @@ << >>, sib_in |-> t.sib_in @@ << >>, local_node |-> t.local_node @@ << >>,
     mem_bandwidths_r |-> Tabulated(t.mem_bandwidths_r)] @@ t

TopologyOf(m) ==
    LET points == cdf_calc(UNION {{m.lat[x][y] : y \in DOMAIN m.lat} : x \in DOMAIN m.lat})
    IN  AsTables(WithBandwidths(m, WithClusters(m, Clusters(points, 4))))

Shapes ==
    [smt |-> <<<<2, 2, 1, 2>>, "by thread">>, ring |-> <<<<1, 2, 1, 4>>, "round robin">>,
     three |-> <<<<1, 2, 1, 3>>, "by core">>, six |-> <<<<1, 2, 1, 6>>, "by core">>,
     eight |-> <<<<1, 2, 1, 8>>, "by core">>]

MCTopologies == [name \in DOMAIN Shapes |->
    TopologyOf(Machine(Shapes[name][1], Shapes[name][2], <<0>>))]

MCArgs ==
    {<<n, c, "MIN_LAT_CORES_HWCS">> : n \in {-1, 3}, c \in {-1, 1}}
    \cup {<<n, 1, "BW_BOUND">> : n \in {0, 2}}
    \cup {<<n, -1, p>> : n \in {3, 5}, p \in MinLatBalance}
    \cup {<<5, 3, "BW_ROUND_ROBIN_CORES">>}

Client(t, n_hwcs, n_config, policy, barrier_for) ==
    [topo |-> t, n_hwcs |-> n_hwcs, n_config |-> n_config, policy |-> policy,
     barrier_for |-> barrier_for]

AllKinds == {"CORE", "HW_CONTEXT", "EVERYONE_HWC", "EVERYONE_CORE"}

MCClients ==
    {Client("smt", n, -1, p, "HW_CONTEXT") : n \in {3, 5}, p \in Policies \ {"NONE", "BW_BOUND"}}
    \cup {Client("smt", 6, c, p, "CORE") : c \in {1, 2, 3}, p \in MinLat}
    \cup {Client("smt", 6, -1, p, k) : p \in {"MIN_LAT_HWCS", "MIN_LAT_CORES"},
                                      k \in {"CORE", "EVERYONE_HWC"}}
    \cup {Client("ring", 6, -1, p, k) : p \in {"BW_ROUND_ROBIN_HWCS", "SEQUENTIAL"}, k \in AllKinds}
    \cup {Client("three", 6, -1, "MIN_LAT_HWCS", "HW_CONTEXT")}
    \cup {Client("six", 6, 1, "MIN_LAT_CORES_HWCS", k) : k \in {"HW_CONTEXT", "EVERYONE_HWC"}}
    \cup {Client("eight", 8, 1, "MIN_LAT_CORES", "HW_CONTEXT")}
===============================================================================
