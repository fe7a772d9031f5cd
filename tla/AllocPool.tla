------------------------------- MODULE AllocPool -------------------------------
(***************************************************************************)
(* The pool of allocators of src/src/mctop_alloc.c: for every policy a     *)
(* table of the allocators made so far, found again by their arguments,    *)
(* and the current one.  The pool is changed by one thread; AllocPin has   *)
(* the threads that pin themselves in whatever is current.                 *)
(***************************************************************************)
EXTENDS AllocPolicy

CONSTANTS
    PoolTopologies,         \* the names of the topologies pools are made for
    Args,                   \* the arguments <<n_hwcs, n_config, policy>> of the caller
    MCTOP_ALLOC_POOL_MAX_N, \* entries of a table: 8 in the code
    MaxSets                 \* bound: how often the allocator is changed

ASSUME PoolAssumption ==
    /\ PoolTopologies \subseteq DOMAIN Topologies
    /\ Args \subseteq Int \X Int \X Policies
    /\ MCTOP_ALLOC_POOL_MAX_N \in Nat \ {0} /\ MaxSets \in Nat

VARIABLES
    ap,     \* the pool: [topo, allocs, current_alloc]
    asked   \* the arguments of all calls so far, after they were corrected

poolVars == <<ap, asked>>

\* Some policies take all contexts, whatever the caller says.
Actual(g) ==
    CASE g[3] \in {"NONE", "SEQUENTIAL"} -> <<ALL, ALL, g[3]>>
      [] g[3] \in MinLat \cup RoundRobin -> <<ALL, g[2], g[3]>>
      [] OTHER -> g

mctop_alloc_args_create(t, g) ==
    [n_hwcs |-> g[1], n_config |-> g[2], alloc |-> mctop_alloc_create_simple(t, g[1], g[2], g[3])]

\* Mutant of Found: the configuration is not compared.
FoundByNumber(entries, g) == SelectInSeq(entries, LAMBDA e : e.n_hwcs = g[1])

\* The entry of a table with these arguments, 0 if there is none.
Found(entries, g) == SelectInSeq(entries, LAMBDA e : e.n_hwcs = g[1] /\ e.n_config = g[2])

(***************************************************************************)
(* The loop over the table.  When it is full and has no such entry the     *)
(* loop leaves aa at the last entry; it is NULL never, and the sequential  *)
(* allocator the message announces is never returned.                      *)
(***************************************************************************)
WithAlloc(pool, g) ==
    LET entries == pool.allocs[g[3]]
        i == Found(entries, g)
    IN  CASE i > 0 -> [pool EXCEPT !.current_alloc = <<g[3], i>>]
          [] i = 0 /\ Len(entries) < MCTOP_ALLOC_POOL_MAX_N ->
                [pool EXCEPT !.allocs[g[3]] = Append(@, mctop_alloc_args_create(pool.topo, g)),
                             !.current_alloc = <<g[3], Len(entries) + 1>>]
          [] OTHER -> [pool EXCEPT !.current_alloc = <<g[3], Len(entries)>>]

mctop_alloc_pool_create_empty(t) ==
    [topo |-> t, allocs |-> [p \in Policies |-> << >>], current_alloc |-> None]

\* mctop_alloc_pool_create: one allocator of every policy, then the one asked for.
mctop_alloc_pool_create(t, g) ==
    LET each == [p \in Policies |-> Actual(<<g[1], g[2], p>>)]
    IN  [topo |-> t,
         allocs |-> [p \in Policies |-> <<mctop_alloc_args_create(t, each[p])>>],
         current_alloc |-> <<g[3], 1>>]

PoolInit ==
    \E t \in {Topologies[name] : name \in PoolTopologies} :
        \/ ap = mctop_alloc_pool_create_empty(t) /\ asked = << >>
        \/ \E g \in Args :
              /\ \A p \in Policies : ~RunsOut(t, Actual(<<g[1], g[2], p>>))
              /\ ap = mctop_alloc_pool_create(t, g)
              /\ asked = <<Actual(g)>>

mctop_alloc_pool_set_alloc(n_hwcs, n_config, policy) ==
    LET g == Actual(<<n_hwcs, n_config, policy>>)
    IN  /\ Len(asked) < MaxSets
        /\ ~RunsOut(ap.topo, g)
        /\ ap' = WithAlloc(ap, g)
        /\ asked' = Append(asked, g)

PoolNext == \E g \in Args : mctop_alloc_pool_set_alloc(g[1], g[2], g[3])
-------------------------------------------------------------------------------
Current == ap.allocs[ap.current_alloc[1]][ap.current_alloc[2]]

(***************************************************************************)
(* The entries for the arguments g, in the table of their policy; and the  *)
(* case mctop_alloc_pool_set_alloc has a warning for: there is none, and   *)
(* no room for one.                                                        *)
(***************************************************************************)
EntriesFor(g) ==
    {i \in DOMAIN ap.allocs[g[3]] :
        ap.allocs[g[3]][i].n_hwcs = g[1] /\ ap.allocs[g[3]][i].n_config = g[2]}
OutOfSpace(g) == EntriesFor(g) = {} /\ Len(ap.allocs[g[3]]) = MCTOP_ALLOC_POOL_MAX_N

(***************************************************************************)
(* Unless the pool is out of space for a call, it has one entry for its    *)
(* arguments, however many calls came in between, and the current          *)
(* allocator is that of the last call (mctop_alloc_pool_set_alloc).        *)
(***************************************************************************)
PoolAnswers ==
    asked # << >> =>
        LET g == Last(asked)
        IN  /\ ~OutOfSpace(g) => ap.current_alloc[1] = g[3] /\ EntriesFor(g) = {ap.current_alloc[2]}
            /\ \A i \in DOMAIN asked :
                  ~OutOfSpace(asked[i]) => Cardinality(EntriesFor(asked[i])) = 1

(***************************************************************************)
(* Out of space, "Returning SEQUENTIAL" (mctop_alloc.c:1505).  It does not *)
(* hold: the warning waits for aa to be NULL after the loop, and after a   *)
(* loop over a full table aa is its last entry.                            *)
(***************************************************************************)
FullPoolIsSequential ==
    asked # << >> /\ OutOfSpace(Last(asked)) => Current.alloc.policy = "SEQUENTIAL"
===============================================================================
