------------------------------ MODULE LshIndex ------------------------------
(***************************************************************************)
(* The LSH index (src/lsh.cpp): hash tables from the signs of random       *)
(* projections to ids.  It is built, saved to one file, loaded from it     *)
(* into new and used objects, and searched by several threads at once.     *)
(*                                                                         *)
(* A hash function is any function from vectors to buckets, as many as the *)
(* number of hyperplanes allows.  A lookup of a bucket that does not exist *)
(* inserts an empty one (std::map::operator[]): a search changes the index.*)
(* The files shared with other indexes are the business of IndexFiles.     *)
(***************************************************************************)
EXTENDS BucketSearch

CONSTANTS
    Tag(_),         \* _tag_map; it must be in range, for searches take it for a position
    Queries,        \* a record for every search: vector, res_count, accepts, dist
    Threads,        \* those that search
    Params,         \* <<num_tables, table_size>> a build may be given
    Hashes(_),      \* the hash functions of so many hyperplanes
    MaxTables       \* bound: an object with more tables is not built again

ASSUME LshAssumption ==
    /\ \A i \in Points : Tag(i) \in Points
    /\ \A q \in Queries :
        /\ q.res_count \in Nat \ {0}
        /\ q.accepts \subseteq Points
        /\ q.dist \in [Points -> 0..(Far - 1)]
    /\ Params \subseteq (Nat \ {0}) \X (Nat \ {0})
    /\ \A p \in Params : \A h \in Hashes(p[2]) :
        Points \cup {q.vector : q \in Queries} \subseteq DOMAIN h

VARIABLES
    index,       \* num_tables, table_size and tables of the object, or None
    file,        \* the file <name>_index.bin, or None
    builds,      \* how often the object was built, 2 also for a loaded one
    savedFrom,   \* the tables that were saved last, by an object built once, or None
    outcome,     \* of the load that was last
    pc,          \* per thread: "idle", "lookup", "insert"
    query,
    at,          \* the table a thread is at
    candidates,
    results

searching == <<pc, query, at, candidates, results>>
vars == <<index, file, builds, savedFrom, outcome, searching>>

NoQuery == [none |-> TRUE]

Quiet == \A t \in Threads : pc[t] = "idle"

----------------------------------------------------------------------------
(* Tables.                                                                 *)

Bucket(table, b) == IF b \in DOMAIN table.hashed_vectors THEN table.hashed_vectors[b]
                                                         ELSE << >>

\* The table with the id added to bucket b, which is made if need be.
AddVector(table, b, id) ==
    [table EXCEPT !.hashed_vectors =
        [c \in DOMAIN @ \cup {b} |-> IF c = b THEN Append(Bucket(table, b), id) ELSE @[c]]]

\* generate_hps: a table without vectors, of a hash function h.
NewTable(h, size) == [size |-> size, hash |-> h, hashed_vectors |-> [b \in {} |-> << >>]]

\* The table with all points added, to those it may have.
Filled(table) ==
    LET with[n \in 0..NumPoints] ==
            IF n = 0 THEN table
            ELSE AddVector(with[n - 1], table.hash[n - 1], Tag(n - 1))
    IN  with[NumPoints]

\* Variant: a table is read up to its first empty bucket.
ReadTableShort(table) ==
    [table EXCEPT !.hashed_vectors =
        [b \in {c \in DOMAIN @ : \A e \in DOMAIN @ : @[e] = << >> => c < e} |-> @[b]]]

\* A table read back: empty buckets are written, but no vector of theirs is added.
ReadTable(table) ==
    [table EXCEPT !.hashed_vectors =
        [b \in {c \in DOMAIN @ : @[c] # << >>} |-> @[b]]]

\* The ids in the buckets of a vector.
Bucketed(tables, v) ==
    UNION {Range(Bucket(tables[n], tables[n].hash[v])) : n \in DOMAIN tables}

\* The points some table hashes like a vector.
Colliding(tables, v) ==
    {i \in Points : \E n \in DOMAIN tables : tables[n].hash[i] = tables[n].hash[v]}

----------------------------------------------------------------------------
Init ==
    /\ index = None /\ file = None
    /\ builds = 0
    /\ savedFrom = None
    /\ outcome = "none"
    /\ pc = [t \in Threads |-> "idle"]
    /\ query = [t \in Threads |-> NoQuery]
    /\ at = [t \in Threads |-> 1]
    /\ candidates = [t \in Threads |-> << >>]
    /\ results = [t \in Threads |-> << >>]

Forget ==
    /\ query' = [t \in Threads |-> NoQuery]
    /\ at' = [t \in Threads |-> 1]
    /\ candidates' = [t \in Threads |-> << >>]
    /\ results' = [t \in Threads |-> << >>]
    /\ UNCHANGED pc

\* The constructors; num_tables and table_size are 0.
Create ==
    /\ Quiet
    /\ index' = [num_tables |-> 0, table_size |-> 0, tables |-> << >>]
    /\ builds' = 0
    /\ outcome' = "none"
    /\ Forget
    /\ UNCHANGED <<file, savedFrom>>

\* Bound: tables that have every point twice already are not filled again.
BuiltTwice == \E n \in DOMAIN index.tables : \E b \in DOMAIN index.tables[n].hashed_vectors :
    ~IsInjective(Bucket(index.tables[n], b))

\* build appends tables to those there are, and adds the points to all of them.
Build ==
    /\ Quiet
    /\ index # None
    /\ Len(index.tables) <= MaxTables /\ ~BuiltTwice
    /\ \E p \in Params : \E hs \in [1..p[1] -> Hashes(p[2])] :
        LET tables == index.tables \o [n \in 1..p[1] |-> NewTable(hs[n], p[2])]
        IN  index' = [num_tables |-> p[1], table_size |-> p[2],
                      tables |-> [n \in DOMAIN tables |-> Filled(tables[n])]]
    /\ builds' = IF builds = 0 THEN 1 ELSE 2
    /\ outcome' = "none"
    /\ Forget
    /\ UNCHANGED <<file, savedFrom>>

\* save writes the header from num_tables and table_size, then all tables.
Save ==
    /\ Quiet
    /\ index # None
    /\ file' = index
    /\ savedFrom' = IF builds = 1 THEN index ELSE None
    /\ Forget
    /\ UNCHANGED <<index, builds, outcome>>

----------------------------------------------------------------------------
(* Loading.                                                                *)

\* The tables of the file f, as many as its header announces; the header is
\* right about their hyperplanes or a check of the next separator fails.
LoadOutcome(f) ==
    IF f = None THEN "exit"
    ELSE IF \E n \in 1..f.num_tables : n <= Len(f.tables) /\ f.tables[n].size # f.table_size
         THEN "exit"
    ELSE IF f.num_tables > Len(f.tables) THEN "undefined"
    ELSE "ok"

LoadedTables(f) == [n \in 1..f.num_tables |-> ReadTable(f.tables[n])]

\* load replaces the tables and leaves num_tables and table_size alone.  Past the
\* end of the file it compares and stores what was never read: nothing is known
\* of the object then, as after exit.
Load ==
    /\ Quiet
    /\ index # None
    /\ outcome' = LoadOutcome(file)
    /\ index' = IF outcome' = "ok" THEN [index EXCEPT !.tables = LoadedTables(file)]
                                   ELSE None
    /\ builds' = 2
    /\ Forget
    /\ UNCHANGED <<file, savedFrom>>

----------------------------------------------------------------------------
(* Searching.                                                              *)

StartSearch(t) ==
    /\ pc[t] = "idle"
    /\ index # None
    /\ \E q \in Queries : query' = [query EXCEPT ![t] = q]
    /\ pc' = [pc EXCEPT ![t] = "lookup"]
    /\ at' = [at EXCEPT ![t] = 1]
    /\ candidates' = [candidates EXCEPT ![t] = << >>]
    /\ results' = [results EXCEPT ![t] = << >>]
    /\ UNCHANGED <<index, file, builds, savedFrom, outcome>>

Table(t) == index.tables[at[t]]
Hash(t) == Table(t).hash[query[t].vector]

\* The bucket is there: its ids are candidates.
Lookup(t) ==
    /\ pc[t] = "lookup"
    /\ at[t] <= Len(index.tables)
    /\ Hash(t) \in DOMAIN Table(t).hashed_vectors
    /\ candidates' = [candidates EXCEPT ![t] = @ \o Bucket(Table(t), Hash(t))]
    /\ at' = [at EXCEPT ![t] = @ + 1]
    /\ UNCHANGED <<index, file, builds, savedFrom, outcome, pc, query, results>>

\* It is not: the map begins to insert one ...
LookupMissing(t) ==
    /\ pc[t] = "lookup"
    /\ at[t] <= Len(index.tables)
    /\ Hash(t) \notin DOMAIN Table(t).hashed_vectors
    /\ pc' = [pc EXCEPT ![t] = "insert"]
    /\ UNCHANGED <<index, file, builds, savedFrom, outcome, query, at, candidates, results>>

\* ... and has inserted it.
InsertBucket(t) ==
    /\ pc[t] = "insert"
    /\ index' = [index EXCEPT !.tables[at[t]].hashed_vectors =
                    [b \in DOMAIN @ \cup {Hash(t)} |-> Bucket(Table(t), b)]]
    /\ at' = [at EXCEPT ![t] = @ + 1]
    /\ pc' = [pc EXCEPT ![t] = "lookup"]
    /\ UNCHANGED <<file, builds, savedFrom, outcome, query, candidates, results>>

\* All tables were asked: the candidates become results.
Finish(t) ==
    /\ pc[t] = "lookup"
    /\ at[t] > Len(index.tables)
    /\ results' = [results EXCEPT ![t] = ResultsOf(
           PoolOf(candidates[t], query[t].res_count, query[t].dist, query[t].accepts))]
    /\ pc' = [pc EXCEPT ![t] = "idle"]
    /\ UNCHANGED <<index, file, builds, savedFrom, outcome, query, at, candidates>>

Search(t) ==
    StartSearch(t) \/ Lookup(t) \/ LookupMissing(t) \/ InsertBucket(t) \/ Finish(t)

Next == Create \/ Build \/ Save \/ Load \/ \E t \in Threads : Search(t)

Spec == Init /\ [][Next]_vars

----------------------------------------------------------------------------
(* Properties.                                                             *)

\* The tags of the points that some table hashes like a vector, which a search takes
\* for positions: these points themselves only if tags are positions.
Found(tables, v) == {Tag(i) : i \in Colliding(tables, v)}

\* The results of a search are the closest of the accepted points at the positions that
\* the tags of the points it collides with name, each once, however many tables it is
\* found in, however the tables got into the object and whatever buckets searches have
\* inserted.
ResultsAreClosest ==
    \A t \in Threads : pc[t] = "idle" /\ query[t] # NoQuery =>
        AreClosest(results[t],
                   Found(index.tables, query[t].vector) \cap query[t].accepts,
                   query[t].res_count, query[t].dist)

\* What an object that was built once has saved can be loaded, and finds in its
\* buckets what it found, whatever was searched before.  One that was built twice, or
\* that was loaded, may announce another number of tables or hyperplanes than it has:
\* a load that accepts such a file finds what the first tables of that number found,
\* loses the others, and finds nothing else.
RoundTrip ==
    /\ savedFrom # None =>
          /\ LoadOutcome(file) = "ok"
          /\ \A q \in Queries :
                Bucketed(LoadedTables(file), q.vector) = Bucketed(savedFrom.tables, q.vector)
    /\ file # None /\ LoadOutcome(file) = "ok" =>
          /\ file.num_tables <= Len(file.tables)
          /\ \A q \in Queries :
                Bucketed(LoadedTables(file), q.vector) =
                    Bucketed([n \in 1..file.num_tables |-> file.tables[n]], q.vector)

\* The driver of the tests searches with several threads at once: while one is
\* changing a map no other is at the same table.
SearchesDoNotInterfere ==
    \A t, u \in Threads :
        t # u /\ pc[t] = "insert" /\ pc[u] \in {"lookup", "insert"} => at[u] # at[t]
=============================================================================
