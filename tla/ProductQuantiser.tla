-------------------------- MODULE ProductQuantiser --------------------------
(***************************************************************************)
(* Product quantisation (src/partition_and_pq.cpp) as its program runs it  *)
(* (tests/utils/generate_pq.cpp), again and again with one path:           *)
(* generate_pq_pivots trains the pivots of every chunk of dimensions,      *)
(* unless there are some, and saves them in four files;                    *)
(* generate_pq_data_from_pivots reads the four and encodes the data with   *)
(* them.  Any run may be cut short, in the middle of a file too.           *)
(*                                                                         *)
(* A file is known by its matrix (rows and columns), by the training it    *)
(* comes from, and by whether all of it was written.                       *)
(***************************************************************************)
EXTENDS Integers, SequencesExt

CONSTANTS
    Jobs,          \* num_points, dim, centers and chunks of a run
    BLOCK_SIZE,
    MaxRuns, MaxCrashes   \* bounds

ASSUME QuantiserAssumption ==
    /\ \A j \in Jobs :
        /\ j.num_points \in Nat \ {0} /\ j.dim \in Nat \ {0}
        /\ j.centers \in Nat \ {0} /\ j.chunks \in Nat \ {0}
    /\ BLOCK_SIZE \in Nat \ {0}
    /\ MaxRuns \in Nat /\ MaxCrashes \in Nat

VARIABLES
    disk,          \* the four files and the codes
    job,           \* the arguments of the run
    pc,            \* "idle", "pivots", "train", "save", "load", "codes", "done", "died"
    unsaved,       \* the files of the training that are still to be written
    chunk_offsets, \* of the training, or read from disk
    read,          \* the files read to encode with
    block,
    runs, trainings, crashes

counted == <<runs, trainings, crashes>>
vars == <<disk, job, pc, unsaved, chunk_offsets, read, block, counted>>

Parts == <<"pivots", "centroid", "rearrangement", "chunk_offsets">>
Files == Range(Parts) \cup {"codes"}

\* No file.
Missing == [training |-> 0, rows |-> 0, cols |-> 0, whole |-> FALSE, values |-> << >>]
Torn(f) == [f EXCEPT !.whole = FALSE]

Init ==
    /\ disk = [f \in Files |-> Missing]
    /\ job \in Jobs
    /\ pc = "idle"
    /\ unsaved = << >>
    /\ chunk_offsets = << >>
    /\ read = [f \in {} |-> Missing]
    /\ block = 0
    /\ runs = 0 /\ trainings = 0 /\ crashes = 0

Start ==
    /\ pc \in {"idle", "done", "died"}
    /\ runs < MaxRuns
    /\ job' \in Jobs
    /\ pc' = "pivots"
    /\ runs' = runs + 1
    /\ unsaved' = << >> /\ chunk_offsets' = << >> /\ block' = 0
    /\ read' = [f \in {} |-> Missing]
    /\ UNCHANGED <<disk, trainings, crashes>>

----------------------------------------------------------------------------
(* generate_pq_pivots.                                                     *)

\* file_exists: the file was begun, whatever is in it.
Exists(f) == disk[f].training # 0

\* Variants with a bug, which the runs are expected to notice, stand before the
\* definition they would replace.

\* Variant: pivots of another number of centers stay.
FindPivotsOfDim ==
    /\ pc = "pivots"
    /\ LET old == disk["pivots"]
       IN  pc' = IF job.chunks > job.dim THEN "load"
                 ELSE IF ~ Exists("pivots") THEN "train"
                 ELSE IF ~ old.whole THEN "died"
                 ELSE IF old.cols = job.dim THEN "load"
                 ELSE "train"
    /\ UNCHANGED <<disk, job, unsaved, chunk_offsets, read, block, counted>>

\* More chunks than dimensions are refused (the caller goes on); pivots that are there
\* are read; if they are of the size wanted they stay.
FindPivots ==
    /\ pc = "pivots"
    /\ LET old == disk["pivots"]
       IN  pc' = IF job.chunks > job.dim THEN "load"
                 ELSE IF ~ Exists("pivots") THEN "train"
                 ELSE IF ~ old.whole THEN "died"
                 ELSE IF old.cols = job.dim /\ old.rows = job.centers THEN "load"
                 ELSE "train"
    /\ UNCHANGED <<disk, job, unsaved, chunk_offsets, read, block, counted>>

\* Variant: all bins may take as many dimensions as the largest.
BinSizesHigh(dim, chunks) ==
    LET low_val == dim \div chunks
        high_val == IF dim % chunks = 0 THEN low_val ELSE low_val + 1
        cur_best(sizes) == CHOOSE b \in 1..chunks :
                              sizes[b] < high_val /\ \A a \in 1..(b - 1) : sizes[a] >= high_val
        bins[d \in 0..dim] ==
            IF d = 0 THEN [b \in 1..chunks |-> 0]
            ELSE [bins[d - 1] EXCEPT ![cur_best(bins[d - 1])] = @ + 1]
    IN  bins[dim]

\* A dimension goes to the first bin below the threshold (the loads are never added to),
\* which falls when enough bins are of the larger size.
PushDim(dim, chunks, st) ==
    LET low_val == dim \div chunks
        high_val == IF dim % chunks = 0 THEN low_val ELSE low_val + 1
        max_num_high == dim - low_val * chunks
        cur_best == CHOOSE b \in 1..chunks :
                        /\ st.sizes[b] < st.threshold
                        /\ \A a \in 1..(b - 1) : st.sizes[a] >= st.threshold
        sizes == [st.sizes EXCEPT ![cur_best] = @ + 1]
        num_high == IF sizes[cur_best] = high_val THEN st.num_high + 1 ELSE st.num_high
    IN  [sizes |-> sizes, num_high |-> num_high,
         threshold |-> IF num_high # st.num_high /\ num_high = max_num_high
                       THEN low_val ELSE st.threshold]

NoDims(dim, chunks) ==
    [sizes |-> [b \in 1..chunks |-> 0], num_high |-> 0,
     threshold |-> IF dim % chunks = 0 THEN dim \div chunks ELSE dim \div chunks + 1]

\* How many dimensions go into each bin.
BinSizes(dim, chunks) ==
    LET bins[d \in 0..dim] ==
            IF d = 0 THEN NoDims(dim, chunks) ELSE PushDim(dim, chunks, bins[d - 1])
    IN  bins[dim].sizes

\* Where each bin begins, and the end of the last.
Offsets(sizes, dim) ==
    LET begin[b \in 0..Len(sizes)] == IF b = 0 THEN 0 ELSE begin[b - 1] + sizes[b]
    IN  [b \in 1..(Len(sizes) + 1) |-> IF b <= Len(sizes) THEN begin[b - 1] ELSE dim]

\* k-means in every chunk; then the four files are to be saved.
Train ==
    /\ pc = "train"
    /\ trainings' = trainings + 1
    /\ chunk_offsets' = Offsets(BinSizes(job.dim, job.chunks), job.dim)
    /\ unsaved' = Parts
    /\ pc' = "save"
    /\ UNCHANGED <<disk, job, read, block, runs, crashes>>

Matrix(f) ==
    [training |-> trainings, whole |-> TRUE,
     rows |-> CASE f = "pivots" -> job.centers [] f = "chunk_offsets" -> job.chunks + 1
              [] OTHER -> job.dim,
     cols |-> IF f = "pivots" THEN job.dim ELSE 1,
     values |-> IF f = "chunk_offsets" THEN chunk_offsets ELSE << >>]

\* Variant: the pivots are written behind what belongs to them.
SavePartBackwards ==
    /\ pc = "save"
    /\ unsaved # << >>
    /\ LET f == Last(unsaved) IN disk' = [disk EXCEPT ![f] = Matrix(f)]
    /\ unsaved' = Front(unsaved)
    /\ UNCHANGED <<job, pc, chunk_offsets, read, block, counted>>

SavePart ==
    /\ pc = "save"
    /\ unsaved # << >>
    /\ LET f == Head(unsaved) IN disk' = [disk EXCEPT ![f] = Matrix(f)]
    /\ unsaved' = Tail(unsaved)
    /\ UNCHANGED <<job, pc, chunk_offsets, read, block, counted>>

Saved ==
    /\ pc = "save"
    /\ unsaved = << >>
    /\ pc' = "load"
    /\ UNCHANGED <<disk, job, unsaved, chunk_offsets, read, block, counted>>

----------------------------------------------------------------------------
(* generate_pq_data_from_pivots.                                           *)

\* load_bin and the test of what it has read.
Fits(f) ==
    /\ disk[f].whole
    /\ CASE f = "pivots" -> disk[f].rows = job.centers /\ disk[f].cols = job.dim
       [] f = "chunk_offsets" -> disk[f].rows = job.chunks + 1 /\ disk[f].cols = 1
       [] OTHER -> disk[f].rows = job.dim /\ disk[f].cols = 1

\* Variant: the number of chunks is not tested.
LoadPartsLax ==
    /\ pc = "load"
    /\ IF \A f \in Range(Parts) : disk[f].whole /\ (f = "chunk_offsets" \/ Fits(f))
       THEN /\ pc' = "codes"
            /\ read' = [f \in Range(Parts) |-> disk[f]]
            /\ disk' = [disk EXCEPT !["codes"] =
                  [training |-> disk["pivots"].training, rows |-> 0, cols |-> job.chunks,
                   whole |-> FALSE, values |-> << >>]]
       ELSE /\ pc' = "died"
            /\ UNCHANGED <<disk, read>>
    /\ UNCHANGED <<job, unsaved, chunk_offsets, block, counted>>

\* The four files are read, or the run ends with an exception; the file of the codes
\* is opened and given its header.
LoadParts ==
    /\ pc = "load"
    /\ IF \A f \in Range(Parts) : Fits(f)
       THEN /\ pc' = "codes"
            /\ read' = [f \in Range(Parts) |-> disk[f]]
            /\ disk' = [disk EXCEPT !["codes"] =
                  [training |-> disk["pivots"].training, rows |-> 0, cols |-> job.chunks,
                   whole |-> FALSE, values |-> << >>]]
       ELSE /\ pc' = "died"
            /\ UNCHANGED <<disk, read>>
    /\ UNCHANGED <<job, unsaved, chunk_offsets, block, counted>>

block_size == IF job.num_points <= BLOCK_SIZE THEN job.num_points ELSE BLOCK_SIZE
num_blocks == (job.num_points + block_size - 1) \div block_size

\* A block of points: its codes, a row for a point, are appended; values holds how many
\* bytes a code has.
EncodeBlock ==
    /\ pc = "codes"
    /\ block < num_blocks
    /\ LET start_id == block * block_size
           end_id == IF start_id + block_size < job.num_points THEN start_id + block_size
                                                               ELSE job.num_points
           bytes == IF job.centers > 256 THEN 4 ELSE 1
       IN  disk' = [disk EXCEPT !["codes"].rows = @ + (end_id - start_id),
                                !["codes"].values = Append(@, bytes)]
    /\ block' = block + 1
    /\ UNCHANGED <<job, pc, unsaved, chunk_offsets, read, counted>>

Encoded ==
    /\ pc = "codes"
    /\ block = num_blocks
    /\ disk' = [disk EXCEPT !["codes"].whole = TRUE]
    /\ pc' = "done"
    /\ UNCHANGED <<job, unsaved, chunk_offsets, read, block, counted>>

\* The run is cut short; the file it was writing may be torn.
Crash ==
    /\ pc \notin {"idle", "done", "died"}
    /\ crashes < MaxCrashes
    /\ crashes' = crashes + 1
    /\ pc' = "idle"
    /\ \/ UNCHANGED disk
       \/ pc = "save" /\ unsaved # << >>
            /\ disk' = [disk EXCEPT ![Head(unsaved)] = Torn(Matrix(Head(unsaved)))]
    /\ UNCHANGED <<job, unsaved, chunk_offsets, read, block, runs, trainings>>

Next ==
    \/ Start \/ FindPivots \/ Train \/ SavePart \/ Saved
    \/ LoadParts \/ EncodeBlock \/ Encoded \/ Crash

Spec == Init /\ [][Next]_vars

----------------------------------------------------------------------------
(* Properties.                                                             *)

Training(f) == read[f].training

\* Data are encoded with pivots, a centroid and chunks of one training.  Only a run that
\* was cut short between two of the four files can leave a mixture that the next run
\* takes for good, pivots of one training and behind them files of an earlier one; files
\* behind pivots that never were complete are noticed.
CodesOfOneTraining ==
    pc = "done" =>
        \A i, j \in DOMAIN Parts : i < j =>
            \/ Training(Parts[i]) = Training(Parts[j])
            \/ crashes > 0 /\ Training(Parts[i]) > Training(Parts[j])

\* Whatever pivots were found, every point is encoded, in the number of chunks asked
\* for and in codes that can name every center.
EveryPointEncoded ==
    pc = "done" =>
        /\ Len(read["chunk_offsets"].values) = job.chunks + 1
        /\ disk["codes"].rows = job.num_points
        /\ \A bytes \in Range(disk["codes"].values) : bytes = 1 => job.centers - 1 < 256

\* Without a crash a run is refused for its number of chunks alone: there are more than
\* dimensions, or the pivots that stay are of the same size but of other chunks.
RefusedOnlyForChunks ==
    pc = "died" /\ crashes = 0 =>
        \/ job.chunks > job.dim
        \/ /\ disk["pivots"].rows = job.centers /\ disk["pivots"].cols = job.dim
           /\ disk["chunk_offsets"].rows # job.chunks + 1

\* The chunks partition the dimensions: they follow each other from the first dimension,
\* none is empty, their sizes differ by one at most; and unless a run was cut short those
\* that data are encoded with end at the last dimension of these data.
ChunksPartitionDimensions ==
    /\ \A o \in {chunk_offsets, disk["chunk_offsets"].values} \ {<< >>} :
        LET size(b) == o[b + 1] - o[b]
            chunks == 1..(Len(o) - 1)
        IN  /\ o[1] = 0
            /\ \A b \in chunks : size(b) > 0
            /\ \A a, b \in chunks : size(a) <= size(b) + 1
    /\ pc = "done" /\ crashes = 0 => Last(read["chunk_offsets"].values) = job.dim
=============================================================================
