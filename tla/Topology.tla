------------------------------- MODULE Topology -------------------------------
(***************************************************************************)
(* The topology of src/src/mctop_topology.c and its queries of             *)
(* src/src/mctop_control.c, as operators on records.                       *)
(*                                                                         *)
(* A topology is the record of NewTopology.  Its contexts, groups and      *)
(* sockets are the structures hw_context and hwc_gs, which share their     *)
(* first fields: gs maps an mctop id to one record type for all of them.   *)
(* An id is the pair <<level, number in the level>> of mctop_create_id, a  *)
(* pointer is an id, and NULL is None.  Socket s is <<socket_level, s>>.   *)
(***************************************************************************)
EXTENDS Clustering

None == << >>
ctx(h) == <<0, h>>
Contexts(t) == 0..(t.n_hwcs - 1)
Sockets(t) == 0..(t.n_sockets - 1)
socket(t, s) == <<t.socket_level, s>>

NewGs(type, level, latency, hwcs) ==
    [type |-> type, level |-> level, latency |-> latency, hwcs |-> hwcs,
     parent |-> None, next |-> None, children |-> << >>, socket |-> None]

\* mctop_create: the contexts, and one level for every cluster.
NewTopology(n_sockets, cc, n_hwcs, is_smt) ==
    [n_hwcs |-> n_hwcs, n_sockets |-> n_sockets, is_smt |-> is_smt,
     latencies |-> [i \in DOMAIN cc |-> cc[i].median],
     socket_level |-> 0, found |-> 0, status |-> "ok",
     n_hwcs_per_core |-> 1, siblings |-> << >>, has_mem |-> "NO_MEMORY",
     gs |-> [i \in {ctx(h) : h \in 0..(n_hwcs - 1)} |->
                NewGs(IF is_smt THEN "HW_CONTEXT" ELSE "CORE", 0, 0, <<i[2]>>)],
     n_cores |-> [s \in 0..(n_sockets - 1) |-> 0],
     sib |-> [s \in 0..(n_sockets - 1) |-> << >>]]
-------------------------------------------------------------------------------
(***************************************************************************)
(* The groups of one level.  Context y joins the group that x has started  *)
(* if its latency to every member is at most that of the level, and if it  *)
(* is as far as x from every other context that neither of them is closer  *)
(* to.                                                                     *)
(***************************************************************************)
Belongs(lat, group, x, y, target) ==
    \A w \in DOMAIN lat \ {y} :
        IF darray_exists(group, w)
        THEN lat[w][y] <= target
        ELSE \/ lat[x][w] < target
             \/ lat[y][w] < target
             \/ lat[x][w] = lat[y][w]

\* Mutant of GroupFrom: the last context is forgotten.
GroupFromShort(lat, n, x, target) ==
    FoldLeft(LAMBDA g, y : IF Belongs(lat, g, x, y, target) THEN darray_add(g, y) ELSE g,
             <<x>>, Loop(x + 1, n - 2))

GroupFrom(lat, n, x, target) ==
    FoldLeft(LAMBDA g, y : IF Belongs(lat, g, x, y, target) THEN darray_add(g, y) ELSE g,
             <<x>>, Loop(x + 1, n - 1))

\* Every context no earlier group has taken starts one.
GroupsAt(lat, n, target) ==
    FoldLeft(LAMBDA gs, x : IF \E i \in DOMAIN gs : darray_exists(gs[i], x)
                            THEN gs ELSE Append(gs, GroupFrom(lat, n, x, target)),
             << >>, Loop(0, n - 1))

\* The outermost group of a context so far.
Top(t, h) == FoldLeft(LAMBDA c, l : IF t.gs[c].parent = None THEN c ELSE t.gs[c].parent,
                      ctx(h), t.latencies)

\* A new group or socket becomes the parent of the outermost groups of its contexts.
Attach(t, id, new) ==
    LET tops == {Top(t, new.hwcs[i]) : i \in DOMAIN new.hwcs}
    IN  [t EXCEPT !.gs = (id :> new) @@ [c \in tops |-> [t.gs[c] EXCEPT !.parent = id]] @@ @]

\* Mutant of mctop_hwc_group_create: the latency of the level below.
GroupWithInnerLatency(t, group, seq_id, lvl) ==
    Attach(t, <<lvl, seq_id>>,
           NewGs(IF t.is_smt /\ lvl = 1 THEN "CORE" ELSE "HWC_GROUP",
                 lvl, t.latencies[lvl], group))

mctop_hwc_group_create(t, group, seq_id, lvl) ==
    Attach(t, <<lvl, seq_id>>,
           NewGs(IF t.is_smt /\ lvl = 1 THEN "CORE" ELSE "HWC_GROUP",
                 lvl, t.latencies[lvl + 1], group))

mctop_socket_create(t, group, seq_id, lvl) ==
    Attach([t EXCEPT !.found = @ + 1, !.socket_level = lvl], <<lvl, seq_id>>,
           NewGs("SOCKET", lvl, t.latencies[lvl + 1], group))

\* A group of the size of a socket is a socket, a smaller one a group.
AddGroup(t, group, seq_id, lvl) ==
    LET hwc_per_socket == t.n_hwcs \div t.n_sockets
    IN  CASE Len(group) > 1 /\ Len(group) < hwc_per_socket ->
                mctop_hwc_group_create(t, group, seq_id, lvl)
          [] Len(group) = hwc_per_socket /\ t.found < t.n_sockets ->
                mctop_socket_create(t, group, seq_id, lvl)
          [] OTHER -> t

\* The levels, until all sockets are found.
Levels(t0, lat) ==
    FoldLeft(LAMBDA t, lvl :
                IF t.found = t.n_sockets THEN t
                ELSE LET groups == GroupsAt(lat, t.n_hwcs, t.latencies[lvl + 1])
                     IN  FoldLeft(LAMBDA u, q : AddGroup(u, groups[q], q - 1, lvl),
                                  t, Loop(1, Len(groups))),
             t0, Loop(0, Len(t0.latencies) - 1))

(***************************************************************************)
(* Two sockets are siblings at the level of the latency between their      *)
(* first contexts.  A sibling is kept by its two sockets, in the order of  *)
(* creation, which is from the closest to the farthest level.              *)
(***************************************************************************)
SiblingsAt(t, lat, lvl) ==
    LET hwc(s) == t.gs[socket(t, s)].hwcs[1]
        pairs == [i \in 1..(t.n_sockets * t.n_sockets) |->
                    <<(i - 1) \div t.n_sockets, (i - 1) % t.n_sockets>>]
        joined == SelectSeq(pairs, LAMBDA p :
                    p[1] < p[2] /\ lat[hwc(p[1])][hwc(p[2])] = t.latencies[lvl + 1])
    IN  [q \in DOMAIN joined |-> [level |-> lvl, latency |-> t.latencies[lvl + 1],
                                  left |-> joined[q][1], right |-> joined[q][2]]]

WithSiblings(t, lat) ==
    LET beyond == Loop(t.socket_level + 1, Len(t.latencies) - 1)
        made == FlattenSeq([i \in DOMAIN beyond |-> SiblingsAt(t, lat, beyond[i])])
    IN  [t EXCEPT !.sib = [s \in Sockets(t) |->
            SelectSeq(made, LAMBDA b : s \in {b.left, b.right})]]
-------------------------------------------------------------------------------
Parents(t, cs) == AddAllUniq([i \in DOMAIN cs |-> t.gs[cs[i]].parent])

(***************************************************************************)
(* One level of a socket in mctop_fix_children_links: the parents of a     *)
(* list get their children from it, in its order, and are the next list.   *)
(* The climb takes as many steps as there are levels below the sockets; if *)
(* a level has added no group it comes to a NULL parent, and the code      *)
(* dereferences it.                                                        *)
(***************************************************************************)
LinkLevel(a, s) ==
    LET parents == Parents(a.t, a.list)
        children(p) == SelectSeq(a.list, LAMBDA c : a.t.gs[c].parent = p)
        cores == SelectSeq(parents, LAMBDA p : a.t.gs[Head(children(p))].type = "CORE")
    IN  IF a.t.status = "crash" \/ darray_exists(parents, None)
        THEN [a EXCEPT !.t.status = "crash"]
        ELSE [list |-> parents,
              t |-> [a.t EXCEPT
                !.gs = [p \in ToSet(parents) |-> [@[p] EXCEPT !.children = children(p)]] @@
                       [c \in ToSet(a.list) |-> [@[c] EXCEPT !.socket = socket(a.t, s)]] @@ @,
                !.n_cores[s] = IF cores = << >> THEN @ ELSE Len(children(Last(cores)))]]

mctop_fix_children_links(t) ==
    FoldLeft(LAMBDA u, s :
        LET hwcs == u.gs[socket(u, s)].hwcs
        IN  FoldLeft(LAMBDA a, lvl : LinkLevel(a, s),
                     [t |-> u, list |-> [i \in DOMAIN hwcs |-> ctx(hwcs[i])]],
                     Loop(1, u.socket_level)).t,
        t, Loop(0, t.n_sockets - 1))

mctop_hwcs_are_same_core(t, a, b) ==
    /\ t.gs[ctx(a)].type = "HW_CONTEXT"
    /\ t.gs[ctx(b)].type = "HW_CONTEXT"
    /\ t.gs[ctx(a)].parent = t.gs[ctx(b)].parent

\* Mutant of ContextList: in the order of the numbers, two contexts of a core side by side.
ContextListInOrder(t, s) == t.gs[socket(t, s)].hwcs

\* The list of a socket's contexts: those that share the core of the one listed
\* last are put off to the end.
ContextList(t, s) ==
    LET hwcs == t.gs[socket(t, s)].hwcs
        split == FoldLeft(LAMBDA a, h :
                    IF mctop_hwcs_are_same_core(t, Last(a.list), h)
                    THEN [a EXCEPT !.smt = darray_add(@, h)]
                    ELSE [a EXCEPT !.list = Append(@, h)],
                    [list |-> <<Head(hwcs)>>, smt |-> << >>], Tail(hwcs))
    IN  split.list \o split.smt

(***************************************************************************)
(* The lists of all contexts, of the groups of every level and of the      *)
(* sockets, and the table of all siblings.                                 *)
(***************************************************************************)
mctop_fix_horizontal_links(t) ==
    LET contexts == FlattenSeq([i \in 1..t.n_sockets |-> ContextList(t, i - 1)])
        lists == FoldLeft(LAMBDA ls, lvl : Append(ls, Parents(t, Last(ls))),
                          <<[i \in DOMAIN contexts |-> ctx(contexts[i])]>>,
                          Loop(1, t.socket_level))
        \* A list, linked from every element but the last to the next.
        chain(ls) == [c \in ToSet(Front(ls)) |->
                        [t.gs[c] EXCEPT !.next = ls[SelectInSeq(ls, LAMBDA d : d = c) + 1]]]
        beyond == Loop(t.socket_level + 1, Len(t.latencies) - 1)
        of(lvl) == FlattenSeq([i \in 1..t.n_sockets |->
                        SelectSeq(t.sib[i - 1], LAMBDA b : b.level = lvl)])
    IN  [t EXCEPT
            !.gs = FoldLeft(LAMBDA gs, ls : chain(ls) @@ gs, @, lists),
            !.siblings = AddAllUniq(FlattenSeq([i \in DOMAIN beyond |-> of(beyond[i])]))]
-------------------------------------------------------------------------------
(* Queries of mctop_control.c. *)

\* Down the first children of the first socket.
mctop_get_first_gs_at_lvl(t, lvl) ==
    FoldLeft(LAMBDA c, l : IF t.gs[c].level = lvl THEN c ELSE Head(t.gs[c].children),
             socket(t, 0), Loop(1, t.socket_level))

\* mctop_socket_get_first_gs_core: down the first children to a core.
mctop_socket_get_first_gs_core(t, s) ==
    FoldLeft(LAMBDA c, l : IF t.gs[c].type = "CORE" THEN c ELSE Head(t.gs[c].children),
             Head(t.gs[socket(t, s)].children), Loop(2, t.socket_level))

\* The list that starts at a group, context or socket, over its next links.
ListFrom(t, c) ==
    FoldLeft(LAMBDA list, i : IF t.gs[Last(list)].next = None THEN list
                              ELSE Append(list, t.gs[Last(list)].next),
             <<c>>, Loop(1, t.n_hwcs))

mctop_socket_get_nth_gs_core(t, s, nth) ==
    ListFrom(t, mctop_socket_get_first_gs_core(t, s))[nth + 1]

mctop_socket_get_nth_hwc(t, s, nth) == t.gs[socket(t, s)].hwcs[nth + 1]

mctop_hwcid_get_socket(t, h) == t.gs[ctx(h)].socket[2]

mctop_hwcid_get_core(t, h) ==
    IF t.gs[ctx(h)].type = "CORE" THEN ctx(h) ELSE t.gs[ctx(h)].parent

mctop_hwcid_get_nth_hwc_in_socket(t, h) ==
    darray_exists_pos(ListFrom(t, ctx(mctop_socket_get_nth_hwc(t, mctop_hwcid_get_socket(t, h), 0))),
                      ctx(h))

mctop_hwcid_get_nth_hwc_in_core(t, h) ==
    IF t.gs[ctx(h)].type = "CORE" THEN 0
    ELSE darray_exists_pos(t.gs[t.gs[ctx(h)].parent].hwcs, h)

mctop_hwcid_get_nth_core_in_socket(t, h) ==
    LET core == mctop_hwcid_get_core(t, h)
    IN  darray_exists_pos(
            ListFrom(t, mctop_socket_get_first_gs_core(t, t.gs[core].socket[2])), core)

mctop_sibling_get_other_socket(b, s) == IF b.left = s THEN b.right ELSE b.left

mctop_get_sibling_with_sockets(t, s0, s1) ==
    t.siblings[SelectInSeq(t.siblings, LAMBDA b :
                  <<b.left, b.right>> \in {<<s0, s1>>, <<s1, s0>>})]

\* mctop_id_get_hwc_gs and the first loops of mctop_ids_get_latency: up to a level.
Raise(t, c, lvl) ==
    FoldLeft(LAMBDA d, l : IF t.gs[d].level < lvl THEN t.gs[d].parent ELSE d,
             c, Loop(1, t.socket_level))

\* The loop of mctop_ids_get_latency: a group or context, and all above it, to its socket.
UpToSocket(t, c) ==
    FoldLeft(LAMBDA cs, l : IF t.gs[Last(cs)].type = "SOCKET" THEN cs
                            ELSE Append(cs, t.gs[Last(cs)].parent),
             <<c>>, Loop(1, t.socket_level))

\* Where two such climbs meet, or the sibling of the sockets that they end at.
MeetingLatency(t, up0, up1) ==
    LET meet == {i \in DOMAIN up0 : up0[i] = up1[i]}
        common == t.gs[up0[Min(meet)]]
    IN  IF meet = {}
        THEN mctop_get_sibling_with_sockets(t, Last(up0)[2], Last(up1)[2]).latency
        ELSE IF common.level = 0 THEN 0 ELSE common.latency

(***************************************************************************)
(* The latency between two ids: 0 for a context and itself, the latency of *)
(* the smallest group that holds both, or that of the sibling of their     *)
(* sockets.                                                                *)
(***************************************************************************)
mctop_ids_get_latency(t, id0, id1) ==
    LET lvl == IF t.gs[id0].level < t.gs[id1].level THEN t.gs[id1].level ELSE t.gs[id0].level
        up(c) == UpToSocket(t, Raise(t, c, lvl))
    IN  MeetingLatency(t, up(id0), up(id1))
-------------------------------------------------------------------------------
(* The rest of mctop_construct, and what the measurements of memory add. *)

\* A core with several contexts is a group of level 1: the code asserts it.
mctop_fix_n_hwcs_per_core_smt(t) ==
    LET core == t.gs[mctop_get_first_gs_at_lvl(t, 1)]
    IN  IF ~t.is_smt THEN t
        ELSE IF core.type # "CORE" THEN [t EXCEPT !.status = "abort"]
        ELSE [t EXCEPT !.n_hwcs_per_core = Len(core.children)]

\* The first index with the least value of a function on 0..n-1.
FirstLeast(f) == CHOOSE i \in DOMAIN f : \A j \in DOMAIN f :
                    f[i] < f[j] \/ (f[i] = f[j] /\ i <= j)

(***************************************************************************)
(* The row of a socket is that of the context with the least average, rows *)
(* of zeros (contexts nobody measured) left out; if all are zero it is the *)
(* row of context 0.  The local node is the closest; the last socket with  *)
(* a local node is the one the node is translated to, node 0 by default.   *)
(***************************************************************************)
MemRow(t, table, s) ==
    LET hwcs == t.gs[socket(t, s)].hwcs
        avg(h) == MapThenSumSet(LAMBDA n : table[h][n], Sockets(t)) \div t.n_sockets
        measured == {i \in DOMAIN hwcs : avg(hwcs[i]) > 0}
        best == CHOOSE i \in measured : \A j \in measured :
                    avg(hwcs[i]) < avg(hwcs[j]) \/ (avg(hwcs[i]) = avg(hwcs[j]) /\ i <= j)
    IN  table[IF measured = {} THEN 0 ELSE hwcs[best]]

mctop_mem_latencies_add(t, table) ==
    LET rows == [s \in Sockets(t) |-> MemRow(t, table, s)]
        local == [s \in Sockets(t) |-> FirstLeast(rows[s])]
        at(n) == {s \in Sockets(t) : local[s] = n}
    IN  [has_mem |-> IF t.has_mem = "NO_MEMORY" THEN "LATENCY" ELSE t.has_mem,
         mem_latencies |-> rows,
         local_node |-> local,
         node_to_socket |-> [n \in Sockets(t) |-> IF at(n) = {} THEN 0 ELSE Max(at(n))]] @@ t

mctop_node_to_socket(t, n) == t.node_to_socket[n]

mctop_socket_get_bw_to(t, s, to) == t.mem_bandwidths_r[s][t.local_node[to]]

\* One pass of the bubble sort: neighbours of one latency, larger bandwidth first.
BwPass(siblings, bw(_)) ==
    FoldLeft(LAMBDA q, i :
        IF q[i - 1].latency = q[i].latency /\ bw(q[i]) > bw(q[i - 1])
        THEN [q EXCEPT ![i - 1] = q[i], ![i] = q[i - 1]] ELSE q,
        siblings, Loop(2, Len(siblings)))

\* Passes until nothing is swapped: as many as there are siblings are enough.
SortByBw(siblings, bw(_)) ==
    FoldLeft(LAMBDA q, pass : BwPass(q, bw), siblings, siblings)

\* Mutant of mctop_fix_siblings_by_bandwidth: the directions are mixed up.
SiblingsTheOtherWay(t) ==
    LET other(b, s) == mctop_sibling_get_other_socket(b, s)
    IN  [sib_in |-> [s \in Sockets(t) |->
                SortByBw(t.sib[s], LAMBDA b : mctop_socket_get_bw_to(t, s, other(b, s)))],
         sib |-> [s \in Sockets(t) |->
                SortByBw(t.sib[s], LAMBDA b : mctop_socket_get_bw_to(t, other(b, s), s))]] @@ t

\* To the siblings: by the bandwidth from the socket to them; in: from them to it.
mctop_fix_siblings_by_bandwidth(t) ==
    LET other(b, s) == mctop_sibling_get_other_socket(b, s)
    IN  [sib_in |-> [s \in Sockets(t) |->
                SortByBw(t.sib[s], LAMBDA b : mctop_socket_get_bw_to(t, other(b, s), s))],
         sib |-> [s \in Sockets(t) |->
                SortByBw(t.sib[s], LAMBDA b : mctop_socket_get_bw_to(t, s, other(b, s)))]] @@ t

mctop_mem_bandwidth_add(t, bw_r, bw1_r) ==
    mctop_fix_siblings_by_bandwidth(
        [has_mem |-> "BANDWIDTH", mem_bandwidths_r |-> bw_r, mem_bandwidths1_r |-> bw1_r] @@ t)

mctop_has_mem_lat(t) == t.has_mem # "NO_MEMORY"
mctop_has_mem_bw(t) == t.has_mem = "BANDWIDTH"

(***************************************************************************)
(* mctop_construct.  With fewer sockets than expected the code prints a    *)
(* warning ("probably INCORRECT") and goes on with sockets that have no    *)
(* contexts: such a topology is left at the warning.  The sockets may also *)
(* be found at several levels, one of them twice, or with a number too     *)
(* large for the array of sockets, if the groups below were in its way:    *)
(* then some socket has no contexts or no parents to climb to.  mem_lat is *)
(* None when no memory latencies are asked for.                            *)
(***************************************************************************)
mctop_construct(lat, n_hwcs, mem_lat, n_sockets, cc, is_smt) ==
    LET found == Levels(NewTopology(n_sockets, cc, n_hwcs, is_smt), lat)
        together == \A s \in Sockets(found) : socket(found, s) \in DOMAIN found.gs
        linked == mctop_fix_children_links(WithSiblings(found, lat))
        whole == mctop_fix_n_hwcs_per_core_smt(mctop_fix_horizontal_links(linked))
    IN  CASE found.found # n_sockets -> [found EXCEPT !.status = "incorrect"]
          [] found.found = n_sockets /\ ~together -> [found EXCEPT !.status = "crash"]
          [] found.found = n_sockets /\ together /\ linked.status = "crash" -> linked
          [] OTHER -> IF mem_lat = None \/ whole.status = "abort" THEN whole
                      ELSE mctop_mem_latencies_add(whole, mem_lat)

\* The lists that start at the first sibling or group of a level.
SiblingsOf(t, lvl) == SelectSeq(t.siblings, LAMBDA b : b.level = lvl)
GroupsOf(t, lvl) == ListFrom(t, mctop_get_first_gs_at_lvl(t, lvl))

\* Mutant of mctop_free: the groups of level 1 are kept.
FreeFromLevel2(t) ==
    LET beyond == Loop(t.socket_level + 1, Len(t.latencies) - 1)
        within == Loop(2, t.socket_level - 1)
    IN  IF \E i \in DOMAIN beyond : SiblingsOf(t, beyond[i]) = << >>
        THEN [t EXCEPT !.status = "crash"]
        ELSE [freed_siblings |-> FlattenSeq([i \in DOMAIN beyond |-> SiblingsOf(t, beyond[i])]),
              freed_groups |-> FlattenSeq([i \in DOMAIN within |-> GroupsOf(t, within[i])])] @@ t

(***************************************************************************)
(* mctop_free: the siblings and groups it frees, level by level.  At a     *)
(* level beyond the sockets without siblings the code would dereference    *)
(* NULL.                                                                   *)
(***************************************************************************)
mctop_free(t) ==
    LET beyond == Loop(t.socket_level + 1, Len(t.latencies) - 1)
        within == Loop(1, t.socket_level - 1)
    IN  IF \E i \in DOMAIN beyond : SiblingsOf(t, beyond[i]) = << >>
        THEN [t EXCEPT !.status = "crash"]
        ELSE [freed_siblings |-> FlattenSeq([i \in DOMAIN beyond |-> SiblingsOf(t, beyond[i])]),
              freed_groups |-> FlattenSeq([i \in DOMAIN within |-> GroupsOf(t, within[i])])] @@ t
===============================================================================
