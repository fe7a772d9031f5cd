-------------------------------- MODULE MCMctop --------------------------------
(* The machines and settings Mctop is checked with. *)
EXTENDS Mctop, Machines

Shapes == {<<2, 2, 1, 2>>, <<1, 2, 2, 2>>, <<1, 3, 1, 3>>, <<1, 2, 1, 4>>, <<2, 3, 1, 1>>,
           <<2, 1, 1, 2>>}

Even == <<0>>
Scattered == <<0, 1, 3>>

\* Latencies even or scattered, and a ring of cores.
MCMachines ==
    {Machine(shape, numbering, scatter) :
        shape \in Shapes, numbering \in {"by core", "by thread", "round robin"},
        scatter \in {Even, Scattered}}
    \cup {Machine(<<2, 2, 2, 2>>, "by thread", Scattered),
          Machine(<<1, 4, 1, 2>>, "ring", Even)}

\* Too fine, right, too coarse; no hint, a hint that can be met or not.
MCSettings ==
    {o \in [sens : {1, 4, 8, 11}, hint : {0, 3, 4, 5},
            do_mem : {"NO_MEM", "ON_TIME", "ON_TOPO", "ON_TOPO_BW"}] :
        o.do_mem = "ON_TOPO_BW" \/ (o.sens = 4 /\ o.hint = 0)}
===============================================================================
