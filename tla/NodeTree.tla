------------------------------- MODULE NodeTree -------------------------------
(***************************************************************************)
(* The node tree of src/src/mctop_node_tree.c, on which the threads of an  *)
(* allocator merge the data of its sockets pair by pair, and a client of   *)
(* it: mctop_sort_merge_cross_socket of                                    *)
(* src/tests/merge_sort/mctop_sort.cc, run by every thread.                *)
(*                                                                         *)
(* A node is the place of a socket in the allocator.  Level l of the tree  *)
(* has 2^l pairs; the threads go from the highest level down to 0.  A      *)
(* merge is done in shares, one for each thread of the pair (and of the    *)
(* nodes that help); a buffer of a node is the set of shares written.      *)
(***************************************************************************)
EXTENDS AllocPolicy

CONSTANT Clients    \* records [topo, n_hwcs, n_config, policy, barrier_for]

CoreKinds == {"CORE", "EVERYONE_CORE"}
EveryoneKinds == {"EVERYONE_HWC", "EVERYONE_CORE"}

ASSUME ClientsAssumption ==
    \A c \in Clients : /\ c.topo \in DOMAIN Topologies
                       /\ c.n_hwcs \in Int /\ c.n_config \in Int
                       /\ c.policy \in Policies \ {"NONE"}
                       /\ ~RunsOut(Topologies[c.topo], <<c.n_hwcs, c.n_config, c.policy>>)
                       /\ c.barrier_for \in CoreKinds \cup EveryoneKinds \cup {"HW_CONTEXT"}

floor_log_2(n) == Max({k \in 0..n : 2^k <= n})

MCTOP_NODE_TREE_MAX_HELP == 2

\* The sibling of a socket, in its order, that is the first of those available.
FirstAvailable(t, s, avail) ==
    LET others == [i \in DOMAIN t.sib[s] |-> mctop_sibling_get_other_socket(t.sib[s][i], s)]
    IN  SelectSeq(others, LAMBDA o : darray_exists(avail, o))

\* Every socket to match, in turn, with its closest socket that is available.
Matched(t, to_match, avail) ==
    FoldLeft(LAMBDA m, left :
        LET right == Head(FirstAvailable(t, left, m.avail))
        IN  [pairs |-> Append(m.pairs, <<left, right>>), avail |-> darray_remove(m.avail, right)],
        [pairs |-> << >>, avail |-> avail], to_match)

\* So many rounds in which every pair takes the socket closest to its left one.
Helpers(t, pairs, avail, rounds) ==
    FoldLeft(LAMBDA h, k :
        LET p == ((k - 1) % Len(pairs)) + 1
            found == FirstAvailable(t, pairs[p][1], h.avail)
        IN  IF found = << >> THEN h
            ELSE [nodes |-> [h.nodes EXCEPT ![p] = Append(@, Head(found))],
                  avail |-> darray_remove(h.avail, Head(found))],
        [nodes |-> [p \in DOMAIN pairs |-> << >>], avail |-> avail],
        Loop(1, rounds * Len(pairs)))

mctop_nt_get_n_participants(a, node, barrier_for) ==
    IF barrier_for \in CoreKinds THEN a.n_cores_per_socket[node] ELSE a.n_hwcs_per_socket[node]

\* The pair with the offsets of its nodes and helpers: what the nodes before have.
WithOffsets(a, pair, helps, n_help, barrier_for) ==
    LET seq(s) == mctop_alloc_socket_seq_id(a, s)
        nodes == <<seq(pair[1]), seq(pair[2])>>
        help_nodes == [h \in 1..n_help |-> seq(helps[h])]
        all == nodes \o help_nodes
        before == FoldLeft(LAMBDA q, n :
                        Append(q, Last(q) + mctop_nt_get_n_participants(a, n, barrier_for)),
                        <<0>>, all)
    IN  [nodes |-> nodes, socket_ids |-> pair, help_nodes |-> help_nodes,
         offered |-> Len(helps), offsets |-> before,
         n_hwcs |-> IF barrier_for \in EveryoneKinds THEN Last(before) ELSE before[3]]

\* Mutant of BarrierSize: the helpers are counted whether they are to merge or not.
BarrierWithHelpers(a, pairs, barrier_for) ==
    LET threads(nodes) == FoldLeft(LAMBDA n, node :
                            n + mctop_nt_get_n_participants(a, node, barrier_for), 0, nodes)
    IN  threads(FlattenSeq([p \in DOMAIN pairs |-> pairs[p].nodes \o pairs[p].help_nodes]))

\* mctop_node_tree_add_barriers: the threads of a level; helpers only with EVERYONE.
BarrierSize(a, pairs, barrier_for) ==
    LET threads(nodes) == FoldLeft(LAMBDA n, node :
                            n + mctop_nt_get_n_participants(a, node, barrier_for), 0, nodes)
        helpers == FlattenSeq([p \in DOMAIN pairs |-> pairs[p].help_nodes])
    IN  threads(FlattenSeq([p \in DOMAIN pairs |-> pairs[p].nodes])) +
        (IF barrier_for \in EveryoneKinds THEN threads(helpers) ELSE 0)

(***************************************************************************)
(* One level: the sockets of the level before, in its order, each get a    *)
(* partner; the sockets left over help, at most two for each pair.         *)
(***************************************************************************)
NextLevel(t, a, levels, barrier_for) ==
    LET to_match == IF levels = << >> THEN <<Head(a.sockets)>>
                    ELSE FlattenSeq([p \in DOMAIN Last(levels).pairs |->
                                        Last(levels).pairs[p].socket_ids])
        matched == Matched(t, to_match, darray_remove_all(a.sockets, to_match))
        n_pairs == Len(to_match)
        n_help == Min({Len(matched.avail) \div n_pairs, MCTOP_NODE_TREE_MAX_HELP})
        helps == Helpers(t, matched.pairs, matched.avail, n_help * n_pairs).nodes
        pairs == [p \in 1..n_pairs |->
                    WithOffsets(a, matched.pairs[p], helps[p], n_help, barrier_for)]
    IN  [pairs |-> pairs, n_help |-> n_help, n_wait |-> BarrierSize(a, pairs, barrier_for)]

\* Level l is levels[l + 1].
mctop_alloc_node_tree_create(t, a, barrier_for) ==
    [barrier_for |-> barrier_for,
     levels |-> FoldLeft(LAMBDA ls, l : Append(ls, NextLevel(t, a, ls, barrier_for)),
                         << >>, Loop(1, floor_log_2(Len(a.sockets))))]
-------------------------------------------------------------------------------
VARIABLES
    client,             \* what main asks for
    alloc, nt,          \* what it has created
    info,               \* of each thread: what mctop_alloc_pin has told it
    pc, lvl,            \* where a thread is in the loop over the levels
    at,                 \* the threads that wait at the barrier of a level, and of all
    node_data,          \* the two buffers of a node
    array               \* the result

treeVars == <<client, alloc, nt, info, pc, lvl, at, node_data, array>>

Threads == DOMAIN info
TreeNodes == DOMAIN node_data
NumLevels == Len(nt.levels)
AllLevels == NumLevels

\* A buffer is the set of the shares written: number, of how many, and what was merged.
Share(id, of, nodes) == [id |-> id, of |-> of, nodes |-> nodes]

Info(t, a, id) ==
    [node |-> nth_socket(t, a, id), insocket |-> nth_hwc_in_socket(t, a, id),
     incore |-> nth_hwc_in_core(t, a, id), core_insocket |-> nth_core_socket(t, a, id)]

\* Without the contexts of one core beside each other, a thread of each core takes part.
Participates(i, barrier_for) == barrier_for \notin CoreKinds \/ i.incore = 0

\* main creates allocator and tree; each thread takes a slot and sorts its node's data.
TreeInit ==
    \E c \in Clients : \E t \in {Topologies[c.topo]} :
    \E a \in {mctop_alloc_create(t, c.n_hwcs, c.n_config, c.policy)} :
        /\ client = c
        /\ alloc = a
        /\ nt = mctop_alloc_node_tree_create(t, a, c.barrier_for)
        /\ info = [id \in 1..a.n_hwcs |-> Info(t, a, id)]
        /\ pc = [id \in DOMAIN info |->
                    IF Participates(info[id], c.barrier_for) THEN "enter" ELSE "leave"]
        /\ lvl = [id \in DOMAIN info |-> NumLevels - 1]
        /\ at = [l \in 0..AllLevels |-> {}]
        /\ node_data = [n \in 0..(Len(a.sockets) - 1) |->
                            [source |-> {Share(0, 1, {n})}, destination |-> {}]]
        /\ array = {}
-------------------------------------------------------------------------------
\* mctop_nt_get_pair_for_node(_all): the pairs of a level a node has a role in.
PairsOf(node, l) ==
    IF l < 0 \/ l >= NumLevels THEN {}
    ELSE {p \in ToSet(nt.levels[l + 1].pairs) :
            \/ darray_exists(p.nodes, node)
            \/ nt.barrier_for \in EveryoneKinds /\ darray_exists(p.help_nodes, node)}

\* Mutant of mctop_node_tree_get_work_description: helpers start at the sources' offset.
WorkWithoutHelpOffset(node, l) ==
    LET pair == CHOOSE p \in PairsOf(node, l) : TRUE
        place == darray_exists_pos(pair.nodes \o pair.help_nodes, node)
    IN  [id_offset |-> pair.offsets[IF place > 1 THEN 2 ELSE place + 1], destination |-> pair.nodes[1],
         source |-> pair.nodes[2], num_hw_contexts |-> pair.n_hwcs]

mctop_node_tree_get_work_description(node, l) ==
    LET pair == CHOOSE p \in PairsOf(node, l) : TRUE
        place == darray_exists_pos(pair.nodes \o pair.help_nodes, node)
    IN  [id_offset |-> pair.offsets[place + 1], destination |-> pair.nodes[1],
         source |-> pair.nodes[2], num_hw_contexts |-> pair.n_hwcs]

Work(th) == mctop_node_tree_get_work_description(info[th].node, lvl[th])

\* The number of a thread in its node: that of its core if only cores merge.  With
\* EVERYONE_CORE the client takes the other branch, right if cores come first.
PlaceInNode(th) == IF nt.barrier_for = "CORE" THEN info[th].core_insocket ELSE info[th].insocket

Released == [waits |-> "merge", merged |-> "swap", leaves |-> "done"]

\* pthread_barrier_wait: the last of n threads lets all of them go on.
BarrierWait(th, b, n, wait) ==
    LET here == at[b] \cup {th}
        waiting == [pc EXCEPT ![th] = wait]
    IN  IF Cardinality(here) = n
        THEN /\ at' = [at EXCEPT ![b] = {}]
             /\ pc' = [u \in Threads |-> IF u \in here THEN Released[waiting[u]] ELSE pc[u]]
        ELSE at' = [at EXCEPT ![b] = here] /\ pc' = waiting

\* The top of the loop: wait for the level, or leave without work.
Enter(th) ==
    /\ pc[th] = "enter"
    /\ IF PairsOf(info[th].node, lvl[th]) # {}
       THEN BarrierWait(th, lvl[th], nt.levels[lvl[th] + 1].n_wait, "waits")
       ELSE pc' = [pc EXCEPT ![th] = "leave"] /\ UNCHANGED at
    /\ UNCHANGED <<client, alloc, nt, info, lvl, node_data, array>>

\* All shares of one merge are there: the nodes whose data it has, else none.
Whole(buffer) ==
    LET complete == {r \in buffer : \A id \in 0..(r.of - 1) : Share(id, r.of, r.nodes) \in buffer}
    IN  IF buffer # {} /\ complete = buffer THEN (CHOOSE r \in buffer : TRUE).nodes ELSE {}

\* A share is written over what the buffer had of an earlier merge.
Write(buffer, r) == {q \in buffer : q.of = r.of /\ q.nodes = r.nodes} \cup {r}

\* merge_arrays, a share of source and destination, on level 0 into the result; then
\* the barrier again, by which no thread reads what this one has written.
Merge(th) ==
    /\ pc[th] = "merge"
    /\ \E w \in {Work(th)} :
        LET r == Share(w.id_offset + PlaceInNode(th), w.num_hw_contexts,
                       Whole(node_data[w.destination].source) \cup Whole(node_data[w.source].source))
        IN  IF lvl[th] = 0
            THEN array' = Write(array, r) /\ UNCHANGED node_data
            ELSE /\ node_data' = [node_data EXCEPT ![w.destination].destination = Write(@, r)]
                 /\ UNCHANGED array
    /\ BarrierWait(th, lvl[th], nt.levels[lvl[th] + 1].n_wait, "merged")
    /\ UNCHANGED <<client, alloc, nt, info, lvl>>

\* Mutant of Swap: the thread of the first core of a socket that helps swaps no buffers,
\* nor does any other but the first of the whole allocator.
SwapFirstOnly(th) ==
    /\ pc[th] = "swap"
    /\ node_data' = IF th = 1
                    THEN [node_data EXCEPT ![info[th].node] =
                            [source |-> @.destination, destination |-> @.source]]
                    ELSE node_data
    /\ lvl' = [lvl EXCEPT ![th] = @ - 1]
    /\ pc' = [pc EXCEPT ![th] = "enter"]
    /\ UNCHANGED <<client, alloc, nt, info, at, array>>

\* The leader of a node, whatever its role, swaps the buffers of its own node.
Swap(th) ==
    /\ pc[th] = "swap"
    /\ node_data' = IF info[th].insocket = 0
                    THEN [node_data EXCEPT ![info[th].node] =
                            [source |-> @.destination, destination |-> @.source]]
                    ELSE node_data
    /\ lvl' = [lvl EXCEPT ![th] = @ - 1]
    /\ pc' = [pc EXCEPT ![th] = "enter"]
    /\ UNCHANGED <<client, alloc, nt, info, at, array>>

\* mctop_alloc_barrier_wait_all, for the threads that took no part as well.
WaitAll(th) ==
    /\ pc[th] = "leave"
    /\ BarrierWait(th, AllLevels, alloc.n_hwcs, "leaves")
    /\ UNCHANGED <<client, alloc, nt, info, lvl, node_data, array>>

TreeStep(th) == Enter(th) \/ Merge(th) \/ Swap(th) \/ WaitAll(th)
TreeNext == \E th \in Threads : TreeStep(th)
-------------------------------------------------------------------------------
\* No thread has taken a step: what does not change later is looked at once.
Fresh == \A th \in Threads : pc[th] \in {"enter", "leave"} /\ lvl[th] = NumLevels - 1

TreeLevels == 0..(NumLevels - 1)
LevelPairs(l) == ToSet(nt.levels[l + 1].pairs)
LevelNodes(l) == UNION {ToSet(p.nodes) : p \in LevelPairs(l)}

\* The threads with a role at a level, what each does there, and its number in the merge.
ThreadsAt(l) == {th \in Threads : /\ Participates(info[th], nt.barrier_for)
                                  /\ PairsOf(info[th].node, l) # {}}
WorkAt(th, l) == mctop_node_tree_get_work_description(info[th].node, l)
NumberAt(th, l) == WorkAt(th, l).id_offset + PlaceInNode(th)

\* mctop_alloc_thread_is_node_leader
LeadersOf(node) == {th \in Threads : info[th].node = node /\ info[th].insocket = 0}

TreeTypeOK ==
    /\ alloc.n_hwcs \in Nat
    /\ nt.levels \in Seq([pairs : Seq([nodes : TreeNodes \X TreeNodes, socket_ids : Seq(Nat),
                                       help_nodes : Seq(TreeNodes), offered : Nat,
                                       offsets : Seq(Nat), n_hwcs : Nat]),
                          n_help : Nat, n_wait : Nat])

\* The sockets of a level are those of the level below, in order, on the left of its pairs.
GrowsFrom(level, below) ==
    /\ Len(level.pairs) = 2 * Len(below.pairs)
    /\ \A k \in DOMAIN level.pairs :
          level.pairs[k].nodes[1] = below.pairs[(k + 1) \div 2].nodes[((k - 1) % 2) + 1]

LevelIsSound(l) ==
    LET level == nt.levels[l + 1]
    IN  /\ Cardinality(ThreadsAt(l)) = level.n_wait
        /\ \A p \in LevelPairs(l) :
              LET mine == {th \in ThreadsAt(l) : WorkAt(th, l).destination = p.nodes[1]}
              IN  /\ {NumberAt(th, l) : th \in mine} = 0..(p.n_hwcs - 1)
                  /\ Cardinality(mine) = p.n_hwcs
                  /\ p.offered = level.n_help
        /\ \A node \in TreeNodes : \A p, q \in PairsOf(node, l) : p = q
        /\ \A node \in LevelNodes(l) : \E th \in ThreadsAt(l) : LeadersOf(node) = {th}
        /\ IF l = 0 THEN Len(level.pairs) = 1
           ELSE GrowsFrom(level, nt.levels[l]) /\ ThreadsAt(l - 1) \subseteq ThreadsAt(l)
        /\ l = NumLevels - 1 /\ Len(alloc.sockets) = 2^NumLevels => LevelNodes(l) = TreeNodes

(***************************************************************************)
(* The threads that have a share in a merge number their shares from 0 to  *)
(* one less than num_hw_contexts, no number twice; the threads the barrier *)
(* of a level is for are those that will wait at it, and all of them have  *)
(* a role at the levels that come before it, or they would have gone; no   *)
(* pair is given more helpers than it has room for; no socket is used      *)
(* twice in a level, each has one leader that merges, and the levels grow  *)
(* from one pair to all sockets if these are a power of 2                  *)
(* (mctop_node_tree_add_barriers, _add_id_offsets, _get_work_description). *)
(***************************************************************************)
TreeIsSound ==
    client # None /\ Fresh => TreeTypeOK /\ \A l \in TreeLevels : LevelIsSound(l)

(***************************************************************************)
(* No thread ever merges a buffer that another has not finished: both are  *)
(* whole as long as a thread reads them, and with a power of 2 of nodes    *)
(* the data of all of them is in the result when a thread is through       *)
(* (mctop_sort_merge_cross_socket).                                        *)
(***************************************************************************)
DataArrivesWhole ==
    /\ \A th \in Threads : pc[th] = "merge" =>
          /\ Whole(node_data[Work(th).destination].source) # {}
          /\ Whole(node_data[Work(th).source].source) # {}
    /\ \A th \in Threads :
          pc[th] = "done" /\ NumLevels > 0 /\ Len(alloc.sockets) = 2^NumLevels =>
              Whole(array) = TreeNodes
===============================================================================
