------------------------------- MODULE Placement -------------------------------
(***************************************************************************)
(* Programs that place their threads: one that changes the allocator of a  *)
(* pool, and one that creates an allocator and a node tree and lets the    *)
(* threads merge on it.                                                    *)
(***************************************************************************)
EXTENDS AllocPool, NodeTree

TreeIdle ==
    /\ client = None /\ alloc = None
    /\ nt = [barrier_for |-> "HW_CONTEXT", levels |-> << >>]
    /\ info = << >> /\ pc = << >> /\ lvl = << >> /\ at = << >>
    /\ node_data = << >> /\ array = {}

PoolIdle == ap = None /\ asked = << >>

vars == <<poolVars, treeVars>>

Init == \/ PoolInit /\ TreeIdle
        \/ PoolIdle /\ TreeInit

Next == \/ ap # None /\ PoolNext /\ UNCHANGED treeVars
        \/ client # None /\ TreeNext /\ UNCHANGED poolVars

\* The operating system runs every thread that is not waiting; each has finitely many steps.
Spec == Init /\ [][Next]_vars /\ WF_vars(client # None /\ TreeNext /\ UNCHANGED poolVars)
-------------------------------------------------------------------------------
\* The allocators that are new in a state: topology, arguments and allocator.
New == CASE client # None /\ Fresh ->
                {[topo |-> Topologies[client.topo], n_hwcs |-> client.n_hwcs, n_config |-> client.n_config,
                  a |-> alloc]}
         [] client = None /\ asked # << >> ->
                {[topo |-> ap.topo, n_hwcs |-> Current.n_hwcs, n_config |-> Current.n_config,
                  a |-> Current.alloc]}
         [] OTHER -> {}

PerSocketOf(t) == t.n_hwcs \div t.n_sockets

\* How many contexts an allocator is to have.
Promised(e) ==
    IF e.a.policy \in MinLat /\ e.n_config \in 1..PerSocketOf(e.topo)
    THEN Min({Wanted(e.topo, e.n_hwcs), e.n_config * e.topo.n_sockets})
    ELSE Wanted(e.topo, e.n_hwcs)

\* The contexts of a socket that an allocator hands out, and how many cores they are of.
Taken(e, s) == {h \in ToSet(e.a.hwcs) : mctop_hwcid_get_socket(e.topo, h) = s}
CoresTaken(e, s) == {mctop_hwcid_get_core(e.topo, h) : h \in Taken(e, s)}

(***************************************************************************)
(* An allocator hands out as many contexts as its arguments promise, each  *)
(* once, of the sockets it lists and of each of them at least one; with a  *)
(* limit per socket no socket has more (of one context per core first,     *)
(* only as long as the limit is not above the cores); one that takes cores *)
(* first uses a second context of a core only when every core of its       *)
(* sockets is in use (the policies of mctop_alloc.h:27-45).                *)
(***************************************************************************)
PlacementIsSound ==
    \A e \in New : e.a.policy # "NONE" =>
        LET t == e.topo
            n_cores == PerSocketOf(t) \div t.n_hwcs_per_core
        IN  /\ IsInjective(e.a.hwcs)
            /\ ToSet(e.a.hwcs) \subseteq Contexts(t)
            /\ e.a.policy # "BW_BOUND" => Len(e.a.hwcs) = Promised(e)
            /\ IsInjective(e.a.sockets)
            /\ ToSet(e.a.sockets) = {s \in Sockets(t) : Taken(e, s) # {}}
            /\ e.a.policy \in MinLat /\ e.n_config > 0
                 /\ (e.a.policy = "MIN_LAT_CORES" => e.n_config <= n_cores) =>
                    \A s \in Sockets(t) : Cardinality(Taken(e, s)) <= e.n_config
            /\ e.a.policy \in {"MIN_LAT_CORES", "MIN_LAT_CORES_BALANCE"}
                 /\ (\E s \in Sockets(t) : Cardinality(CoresTaken(e, s)) < Cardinality(Taken(e, s)))
                 /\ ~(e.n_config \in 1..n_cores) =>
                    \A s \in ToSet(e.a.sockets) : Cardinality(CoresTaken(e, s)) = n_cores

(***************************************************************************)
(* The policies for latency use the socket with the most bandwidth and     *)
(* those closest to it, no more of them than are needed, and tell the      *)
(* largest of the latencies to it; those for bandwidth use sockets no      *)
(* other socket surpasses.  "More" is by more than one part in twenty.     *)
(***************************************************************************)
BestSockets ==
    \A e \in New :
        LET t == e.topo
            used == ToSet(e.a.sockets)
            start == Head(e.a.sockets)
            lat(s) == mctop_ids_get_latency(t, socket(t, start), socket(t, s))
            bw(s) == mctop_socket_get_bw_local(t, s)
        IN  /\ e.a.policy \in MinLat \cup MinLatBalance =>
                /\ \A s \in Sockets(t) : ~Exceeds(bw(s), bw(start))
                /\ \A s \in used, r \in Sockets(t) \ used : lat(s) <= lat(r)
                /\ e.a.max_latency = Max({lat(s) : s \in used})
                /\ ~(e.n_config \in 1..PerSocketOf(t)) /\ e.a.policy \in MinLat \ {"MIN_LAT_CORES"} =>
                        (Len(e.a.sockets) - 1) * PerSocketOf(t) < e.a.n_hwcs
            /\ e.a.policy \in RoundRobin \cup {"BW_BOUND"} =>
                \A s \in used, r \in Sockets(t) \ used : ~Exceeds(bw(r), bw(s))

(***************************************************************************)
(* "get the seq id of the socket that corresponds to NUMA node node"       *)
(* (mctop_alloc.h:197), by which mctop_wq_enqueue_node selects a queue.    *)
(* It does not hold: mctop_alloc_create_config fills the table the other   *)
(* way round, with the node of the socket of that number.  For an          *)
(* allocator on the sockets 1 and 2 of three, each with the node of its    *)
(* number, node 1 has the queue 2, of two.                                 *)
(***************************************************************************)
NodeFindsSocket ==
    client # None => \A k \in DOMAIN alloc.sockets :
        mctop_alloc_node_to_nth_socket(alloc, Topologies[client.topo].local_node[alloc.sockets[k]])
            = k - 1

(***************************************************************************)
(* Every thread gets through all its levels and the last barrier: no       *)
(* barrier waits for a thread that has gone (mctop_node_tree_barrier_wait, *)
(* mctop_alloc_barrier_wait_all).                                          *)
(***************************************************************************)
EveryoneLeaves == client # None ~> \A th \in Threads : pc[th] = "done"
===============================================================================
