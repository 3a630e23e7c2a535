----------------------------- MODULE Partition -----------------------------
(***************************************************************************)
(* Partitioning of a data file (src/partition_and_pq.cpp): partition and   *)
(* partition_with_ram_budget assign every point to k_base of num_parts     *)
(* shards and write, for every shard, the ids of its points and, the first *)
(* of the two, their data; retrieve_shard_data_from_ids extracts the data  *)
(* of a shard from the data file with the ids.  All use one path again and *)
(* again, and any of them may be cut short.                                *)
(*                                                                         *)
(* Which centers k-means finds and which of them are closest to a point is *)
(* any choice.  A vector is known by its point.                            *)
(***************************************************************************)
EXTENDS Integers, FiniteSetsExt, SequencesExt

CONSTANTS
    NumPoints, BLOCK_SIZE,
    PartCounts,      \* num_parts of partition
    KBases,          \* k_base
    Budgets,         \* the largest shard that fits the RAM budget
    Rates,           \* 1 / sampling_rate
    FirstParts,      \* the parts the budget loop starts with: three
    MaxParts,        \* bound: the budget loop tries no more parts
    MaxCalls         \* bound on the number of operations

ASSUME PartitionAssumption ==
    /\ NumPoints \in Nat \ {0} /\ BLOCK_SIZE \in Nat \ {0}
    /\ FirstParts \in 1..MaxParts
    /\ MaxParts \in Nat /\ MaxCalls \in Nat
    /\ PartCounts \subseteq 1..MaxParts
    /\ KBases \subseteq Nat \ {0}
    /\ Budgets \subseteq Nat
    /\ Rates \subseteq Nat \ {0}

Points == 0..(NumPoints - 1)
Shards == 0..(MaxParts - 1)
Files == {"ids", "data"} \X Shards

VARIABLES
    disk,         \* the files: the count in the header and the items
    pc,           \* "idle", "estimate", "block", "close", "scan"
    call,         \* parameters of the last partitioning
    closest,      \* the closest centers of every point
    cur_blk,
    writers,      \* what was written to the files of a shard since they were opened
    open,         \* the files to be given their count and closed, in that order
    shard, next, cur_pos,   \* of an extraction: its shard, the next point and id
    calls,
    partitioned,  \* the last partitioning returned
    retrieved     \* the last extraction ended well, and nothing happened since

chosen == <<call, closest>>
extraction == <<shard, next, cur_pos>>
ghosts == <<calls, partitioned, retrieved>>
vars == <<disk, pc, chosen, cur_blk, writers, open, extraction, ghosts>>

\* No file, or one without a whole header.
None == [count |-> -1, items |-> << >>]
File(n, items) == [count |-> n, items |-> items]

NoCall == [num_parts |-> 0, k_base |-> 0, with_data |-> FALSE, budget |-> 0, rate |-> 1,
           sample |-> {}]
NoCenters == [p \in Points |-> {}]

Init ==
    /\ disk = [f \in Files |-> None]
    /\ pc = "idle"
    /\ call = NoCall /\ closest = NoCenters
    /\ cur_blk = 0
    /\ writers = [i \in Shards |-> << >>]
    /\ open = << >>
    /\ shard = 0 /\ next = 0 /\ cur_pos = 0
    /\ calls = 0
    /\ partitioned = FALSE /\ retrieved = FALSE

Parts(n) == 0..(n - 1)

\* What compute_closest_centers gives with trained centers: for every point k_base
\* different ones, and nothing if there are fewer, the ids being left as they were.
Trained(c) ==
    [Points -> IF c.k_base > c.num_parts THEN {{}}
                                         ELSE kSubset(c.k_base, Parts(c.num_parts))]

\* Opening truncates the files of the shards there will be, and no others.
OpenShards(c) ==
    LET kinds == IF c.with_data THEN <<"data", "ids">> ELSE <<"ids">>
        files == [n \in 1..(Len(kinds) * c.num_parts) |->
                     <<kinds[((n - 1) % Len(kinds)) + 1], (n - 1) \div Len(kinds)>>]
    IN  /\ open' = files
        /\ disk' = [f \in Files |-> IF f \in Range(files) THEN None ELSE disk[f]]
        /\ writers' = [i \in Shards |-> << >>]
        /\ cur_blk' = 0
        /\ pc' = "block"

----------------------------------------------------------------------------
(* Partitioning.                                                           *)

StartCall(c) ==
    /\ pc = "idle"
    /\ calls < MaxCalls
    /\ calls' = calls + 1
    /\ call' = c
    /\ partitioned' = FALSE /\ retrieved' = FALSE
    /\ UNCHANGED extraction

\* partition, until the first block is read.
PartitionData ==
    \E n \in PartCounts, k \in KBases :
        LET c == [num_parts |-> n, k_base |-> k, with_data |-> TRUE, budget |-> 0, rate |-> 1,
                  sample |-> {}]
        IN  /\ StartCall(c)
            /\ closest' \in Trained(c)
            /\ OpenShards(c)

\* gen_random_slice: any points, all with a rate of one.  Of no point there is no
\* number of blocks.
Samples(rate) == IF rate = 1 THEN {Points} ELSE (SUBSET Points) \ {{}}

\* partition_with_ram_budget, until the loop.  With a larger k_base the first estimate
\* would count ids never written.
PartitionWithRamBudget ==
    /\ \E k \in KBases, b \in Budgets, r \in Rates : \E s \in Samples(r) :
        /\ k <= FirstParts
        /\ StartCall([num_parts |-> FirstParts, k_base |-> k, with_data |-> FALSE, budget |-> b,
                      rate |-> r, sample |-> s])
    /\ pc' = "estimate"
    /\ UNCHANGED <<disk, closest, cur_blk, writers, open>>

\* Variants with a bug, which the runs are expected to notice, stand before the
\* definition they would replace.

\* Variant: the estimate is that of one copy of each point.
cluster_sizes_of_one(of) ==
    [i \in Parts(call.num_parts) |->
        call.rate * Cardinality({p \in call.sample : of[p] # {} /\ i = Min(of[p])})]

\* estimate_cluster_sizes, scaled to the whole file.
cluster_sizes(of) ==
    [i \in Parts(call.num_parts) |-> call.rate * Cardinality({p \in call.sample : i \in of[p]})]

fit_in_ram(of) == \A i \in Parts(call.num_parts) : cluster_sizes(of)[i] <= call.budget

\* A turn of the loop with which it ends, the ids being written next.
Fits ==
    /\ pc = "estimate"
    /\ closest' \in Trained(call)
    /\ fit_in_ram(closest')
    /\ OpenShards(call)
    /\ call' = [call EXCEPT !.sample = {}]
    /\ UNCHANGED <<extraction, ghosts>>

\* A turn of the loop after which it goes on with two more parts.
TooLarge ==
    /\ pc = "estimate"
    /\ call.num_parts + 2 <= MaxParts
    /\ \E of \in Trained(call) : ~fit_in_ram(of)
    /\ call' = [call EXCEPT !.num_parts = @ + 2]
    /\ UNCHANGED <<disk, pc, closest, cur_blk, writers, open, extraction, ghosts>>

block_size == IF NumPoints <= BLOCK_SIZE THEN NumPoints ELSE BLOCK_SIZE

\* Variant: the points of a block that is not full are left out.
full_blocks == NumPoints \div block_size

num_blocks == IF NumPoints % block_size = 0 THEN NumPoints \div block_size
                                            ELSE NumPoints \div block_size + 1

cur_blk_size == IF NumPoints - cur_blk * block_size < block_size
                THEN NumPoints - cur_blk * block_size ELSE block_size

\* How often a point is written to the files of shard i: once if this is one of its
\* closest centers; k_base times to the first if the centers were not computed.
copies(p, i) ==
    IF call.k_base <= call.num_parts THEN IF i \in closest[p] THEN 1 ELSE 0
    ELSE IF i = 0 THEN call.k_base ELSE 0

\* What the files hold when point p was written to them too.
WithPoint(files, p) == [i \in Shards |-> files[i] \o [m \in 1..copies(p, i) |-> p]]

\* What they hold after the first n points of the block.
Written(n) ==
    LET files[m \in 0..n] == IF m = 0 THEN writers
                             ELSE WithPoint(files[m - 1], cur_blk * block_size + (m - 1))
    IN  files[n]

\* shard_data_into_clusters, with or without the data: one block.
Block ==
    /\ pc = "block"
    /\ cur_blk < num_blocks
    /\ writers' = Written(cur_blk_size)
    /\ cur_blk' = cur_blk + 1
    /\ UNCHANGED <<disk, pc, chosen, open, extraction, ghosts>>

BlocksDone ==
    /\ pc = "block"
    /\ cur_blk = num_blocks
    /\ pc' = "close"
    /\ UNCHANGED <<disk, chosen, cur_blk, writers, open, extraction, ghosts>>

\* The count in the header replaces the dummy, and the file is closed.
Close ==
    /\ pc = "close"
    /\ open # << >>
    /\ LET f == Head(open)
       IN  disk' = [disk EXCEPT ![f] = File(Len(writers[f[2]]), writers[f[2]])]
    /\ open' = Tail(open)
    /\ UNCHANGED <<pc, chosen, cur_blk, writers, extraction, ghosts>>

Return ==
    /\ pc = "close"
    /\ open = << >>
    /\ pc' = "idle"
    /\ writers' = [i \in Shards |-> << >>]
    /\ cur_blk' = 0
    /\ partitioned' = TRUE
    /\ UNCHANGED <<disk, chosen, open, extraction, calls, retrieved>>

----------------------------------------------------------------------------
(* Extracting a shard.                                                     *)

\* Variant: the size of the file is not looked at.
Readable(f) == f # None

\* The check of load_bin.
SizeAgrees(f) == f.count = Len(f.items)

\* The data file is truncated before the ids are read.  If they are refused it stays
\* with the dummy count, which is right for no point, or without its header.
RetrieveThrows ==
    /\ pc = "idle"
    /\ calls < MaxCalls /\ calls' = calls + 1
    /\ \E i \in Shards : \E left \in {None, File(0, << >>)} :
        /\ ~SizeAgrees(disk[<<"ids", i>>])
        /\ disk' = [disk EXCEPT ![<<"data", i>>] = left]
    /\ retrieved' = FALSE
    /\ UNCHANGED <<pc, chosen, cur_blk, writers, open, extraction, partitioned>>

Retrieve ==
    /\ pc = "idle"
    /\ calls < MaxCalls /\ calls' = calls + 1
    /\ \E i \in Shards :
        /\ SizeAgrees(disk[<<"ids", i>>])
        /\ disk' = [disk EXCEPT ![<<"data", i>>] = None]
        /\ open' = <<<<"data", i>>>>
        /\ shard' = i
    /\ next' = 0 /\ cur_pos' = 0
    /\ pc' = "scan"
    /\ retrieved' = FALSE
    /\ UNCHANGED <<chosen, cur_blk, writers, partitioned>>

shard_ids == disk[<<"ids", shard>>]

\* A point of the data file is passed over, or is the next of the shard.
Scan ==
    /\ pc = "scan"
    /\ next < num_blocks * block_size /\ next \in Points
    /\ cur_pos < shard_ids.count
    /\ IF next = shard_ids.items[cur_pos + 1]
       THEN /\ cur_pos' = cur_pos + 1
            /\ writers' = [writers EXCEPT ![shard] = Append(@, next)]
       ELSE UNCHANGED <<cur_pos, writers>>
    /\ next' = next + 1
    /\ UNCHANGED <<disk, pc, chosen, cur_blk, open, shard, ghosts>>

\* The number of points written goes into the header.
Retrieved ==
    /\ pc = "scan"
    /\ \/ cur_pos = shard_ids.count
       \/ ~(next < num_blocks * block_size /\ next \in Points)
    /\ disk' = [disk EXCEPT ![<<"data", shard>>] = File(Len(writers[shard]), writers[shard])]
    /\ open' = << >>
    /\ writers' = [writers EXCEPT ![shard] = << >>]
    /\ next' = 0 /\ cur_pos' = 0
    /\ pc' = "idle"
    /\ retrieved' = TRUE
    /\ UNCHANGED <<chosen, cur_blk, shard, calls, partitioned>>

----------------------------------------------------------------------------
(* The process ends with files open.  What of a file has left the buffer   *)
(* is nothing, the header with the dummy, or this and items.  (A cut       *)
(* between items fails the same check as the one behind the last.)  It is  *)
(* the same of all open files: a bound, as no property relates two of them.*)
Crash ==
    /\ pc # "idle"
    /\ \E left \in {[i \in Shards |-> None], [i \in Shards |-> File(0, << >>)],
                     [i \in Shards |-> File(0, writers[i])]} :
        disk' = [f \in Files |-> IF f \in Range(open) THEN left[f[2]] ELSE disk[f]]
    /\ call' = NoCall /\ closest' = NoCenters
    /\ pc' = "idle"
    /\ cur_blk' = 0 /\ next' = 0 /\ cur_pos' = 0
    /\ writers' = [i \in Shards |-> << >>]
    /\ open' = << >>
    /\ partitioned' = FALSE /\ retrieved' = FALSE
    /\ shard' = 0
    /\ UNCHANGED calls

Next ==
    \/ PartitionData \/ PartitionWithRamBudget \/ Fits \/ TooLarge
    \/ Block \/ BlocksDone \/ Close \/ Return
    \/ RetrieveThrows \/ Retrieve \/ Scan \/ Retrieved
    \/ Crash

Spec == Init /\ [][Next]_vars

----------------------------------------------------------------------------
(* Properties.                                                             *)

Increasing(s) == \A m, n \in DOMAIN s : m < n => s[m] < s[n]

\* The sum of the first n counts.
total_count(counts, n) ==
    LET total[i \in 0..n] == IF i = 0 THEN 0 ELSE total[i - 1] + counts[i - 1]
    IN  total[n]

\* After a partitioning that returned, whatever was at the path before, the shards
\* of this call hold k_base * NumPoints points ("The total number of points across
\* all shards will be k_base * num_points"), and if there are k_base shards every
\* point is in the shards of its centers and in no other, in the order of the file,
\* and its data files, if it writes any, agree.
ShardsCoverData ==
    pc = "idle" /\ partitioned =>
        LET ids == [i \in Parts(call.num_parts) |-> disk[<<"ids", i>>]]
            counts == [i \in Parts(call.num_parts) |-> ids[i].count]
        IN  /\ \A i \in DOMAIN ids : SizeAgrees(ids[i])
            /\ total_count(counts, call.num_parts) = call.k_base * NumPoints
            /\ call.k_base <= call.num_parts => \A i \in DOMAIN ids :
                /\ Increasing(ids[i].items)
                /\ Range(ids[i].items) = {p \in Points : i \in closest[p]}
                /\ call.with_data => disk[<<"data", i>>] = ids[i]

\* An extraction that ends well has written every id its file lists up to the first
\* that is not larger than the one before: all of them, unless a point is in the
\* shard more than once; whatever partitioning, complete or not, has left the files.
RetrievesWhatIsListed ==
    retrieved =>
        LET items == disk[<<"ids", shard>>].items
            lengths == {n \in 0..Len(items) : Increasing(SubSeq(items, 1, n))}
            want == SubSeq(items, 1, Max(lengths))
        IN  disk[<<"data", shard>>] = File(Len(want), want)

\* With a sample of all points the estimate is right: no shard is larger than what
\* fits the budget.
FullSampleFits ==
    pc = "idle" /\ partitioned /\ ~call.with_data /\ call.rate = 1 =>
        \A i \in Parts(call.num_parts) : disk[<<"ids", i>>].count <= call.budget
=============================================================================
