------------------------------ MODULE Clustering ------------------------------
(***************************************************************************)
(* The clustering of latencies of src/src/cdf.c: the measured values are   *)
(* sorted, cut where two neighbours differ by more than the sensitivity,   *)
(* and every value is replaced by the median of its cluster.               *)
(***************************************************************************)
EXTENDS Darray, FiniteSetsExt

\* cdf_calc keeps every value once, in order (the percentiles are only printed).
cdf_calc(vals) == darray_sort(vals)

\* Mutant of Starts: the 0 of the diagonal is a value like the others.
StartsWithDiagonal(points, sens) ==
    {1} \cup {i \in 2..Len(points) : points[i] > points[i - 1] + sens}

(***************************************************************************)
(* One pass of the loop of cdf_cluster: a cluster starts at the first      *)
(* point, behind a gap larger than sens, and behind the value 0 of the     *)
(* diagonal.  The first cluster reaches down to 0.                         *)
(***************************************************************************)
Starts(points, sens) ==
    {1} \cup {i \in 2..Len(points) :
                 \/ points[i] > points[i - 1] + sens
                 \/ points[i - 1] = 0 /\ points[i] > 0}

\* The index of the median moves on by one for every second point.
Clusters(points, sens) ==
    LET from == darray_sort(Starts(points, sens))
        to(k) == IF k = Len(from) THEN Len(points) ELSE from[k + 1] - 1
    IN  [k \in 1..Len(from) |->
            [val_min |-> IF k = 1 THEN 0 ELSE points[from[k]],
             val_max |-> points[to(k)],
             median  |-> points[from[k] + (to(k) - from[k] + 1) \div 2]]]

cdf_cluster_value_to_cluster_median(cc, val) ==
    LET k == SelectInSeq(cc, LAMBDA c : val >= c.val_min /\ val <= c.val_max)
    IN  IF k = 0 THEN 0 ELSE cc[k].median

\* The median 0 of the diagonal is passed over, a later 0 is not.
cdf_cluster_get_min_latency(cc) ==
    FoldLeft(LAMBDA min, c : IF min = 0 \/ c.median < min THEN c.median ELSE min,
             cc[1].median, Tail(cc))

\* lat_table_normalized_create: a table of medians.
Normalized(lat, cc) ==
    [x \in DOMAIN lat |-> [y \in DOMAIN lat[x] |->
        cdf_cluster_value_to_cluster_median(cc, lat[x][y])]]

\* The first pair of contexts, row by row, with a latency of the table.
lat_table_get_hwc_with_lat(lat, n, target) ==
    LET pairs == [i \in 1..(n * n) |-> <<(i - 1) \div n, (i - 1) % n>>]
    IN  pairs[SelectInSeq(pairs, LAMBDA p : lat[p[1]][p[2]] = target)]

\* A loaded table has its medians only: each value is a cluster of its own.
mctop_infer_clustering(lat) ==
    LET vals == UNION {{lat[x][y] : y \in DOMAIN lat[x]} : x \in DOMAIN lat}
        sorted == darray_sort(vals)
    IN  [c \in 1..Len(sorted) |-> [median |-> sorted[c]]]
===============================================================================
