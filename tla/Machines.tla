------------------------------- MODULE Machines -------------------------------
(***************************************************************************)
(* Machines for the model checker: the numbers of contexts in a core, of   *)
(* cores in a group, of groups in a socket and of sockets, the order in    *)
(* which the operating system numbers the contexts, and how much the latencies   *)
(* of one level scatter within a socket and beyond it.                     *)
(***************************************************************************)
EXTENDS Integers, Sequences, FiniteSets, TLC

\* Place of context h: its socket, group, core and place in the core.
Place(shape, numbering, h) ==
    LET smt == shape[1]  cores == shape[2]  groups == shape[3]  sockets == shape[4]
        n == smt * cores * groups * sockets
        \* by socket, core, thread; by thread first; round robin over the sockets.
        k == CASE numbering = "by core" -> h
               [] numbering = "by thread" -> (h % (n \div smt)) * smt + h \div (n \div smt)
               [] numbering = "ring" -> h
               [] numbering = "round robin" ->
                    (h % sockets) * (n \div sockets) + h \div sockets
    IN  <<k \div (smt * cores * groups), k \div (smt * cores), k \div smt, k>>

\* The same function of functions: TLC keeps what @@ returns as a table.
Tabulated(f) == [x \in DOMAIN f |-> f[x] @@ << >>] @@ << >>

\* Sockets of a ring: 1 hop or 2.
Hops(a, b, sockets) == IF sockets = 4 /\ (a + b) % 2 = 0 THEN 2 ELSE 1

Machine(shape, numbering, scatter) ==
    LET n == shape[1] * shape[2] * shape[3] * shape[4]
        sockets == shape[4]
        hwcs == 0..(n - 1)
        nodes == 0..(sockets - 1)
        place == [h \in hwcs |-> Place(shape, numbering, h)]
        level == Tabulated([x \in hwcs |-> [y \in hwcs |->
                    CASE x = y -> 0
                      [] x # y /\ place[x][3] = place[y][3] -> 1
                      [] place[x][3] # place[y][3] /\ place[x][2] = place[y][2] ->
                            \* on a ring the cores opposite each other are farther apart.
                            IF numbering = "ring" /\ (x - y) % 4 = 2 THEN 3 ELSE 2
                      [] place[x][2] # place[y][2] /\ place[x][1] = place[y][1] -> 3
                      [] OTHER -> 3 + Hops(place[x][1], place[y][1], sockets)]])
        base == <<10, 20, 30, 44, 60>>
        node(h) == (place[h][1] + 1) % sockets
        blocks(i) == {{y \in hwcs : place[y][i] = place[x][i]} : x \in hwcs}
        inner == {i \in 1..3 : \E b \in blocks(i) : Cardinality(b) > 1}
        distinct == SelectSeq(<<3, 2, 1>>, LAMBDA i :
                        i \in inner /\ \A j \in inner : j > i => blocks(j) # blocks(i))
    IN  [n_hwcs |-> n, n_sockets |-> sockets, smt |-> shape[1] > 1, level |-> level,
         core |-> [h \in hwcs |-> place[h][3]],
         blocks |-> [i \in DOMAIN distinct |-> blocks(distinct[i])],
         lat |-> Tabulated([x \in hwcs |-> [y \in hwcs |->
                    IF x = y THEN 0 ELSE base[level[x][y]] + scatter[((x + y) % Len(scatter)) + 1]]]),
         mem |-> Tabulated([h \in hwcs |-> [m \in nodes |->
                    IF m = node(h) THEN 90 ELSE 110 + 10 * ((m + node(h)) % 3)]]),
         bw |-> Tabulated([h \in hwcs |-> [m \in nodes |->
                    IF m = node(h) THEN 20 + 3 * ((2 * m) % 3)
                    ELSE 10 + ((2 * node(h) + 3 * m) % 5)]]),
         bw1 |-> Tabulated([h \in hwcs |-> [m \in nodes |-> 9]]),
         os_node |-> [h \in hwcs |-> place[h][1]]]
===============================================================================
