---------------------------- MODULE CachedReader ----------------------------
(***************************************************************************)
(* cached_ifstream (include/cached_io.h), through which data files and     *)
(* truth sets are read: bytes come from a buffer while it lasts, the rest  *)
(* of a read directly from the file, and the buffer is filled again if as  *)
(* much as it holds is left.  A byte is named by its place in the file.    *)
(***************************************************************************)
EXTENDS Naturals

CONSTANTS
    FileSizes,   \* sizes of the files that may be opened
    CacheSizes,  \* sizes of the buffer that may be asked for
    Requests     \* how many bytes a read may ask for

ASSUME SizeAssumption ==
    /\ FileSizes \subseteq Nat
    /\ CacheSizes \subseteq Nat \ {0}
    /\ Requests \subseteq Nat

VARIABLES
    fsize,
    cache_size,
    cache_buf,   \* the bytes in the buffer
    cur_off,     \* how many of them have been read
    tellg,       \* where the underlying stream is
    asked,       \* the n_bytes of the last read
    read_buf,    \* what the last read returned
    thrown       \* the last read threw an exception

reader == <<fsize, cache_size, cache_buf, cur_off, tellg, asked, read_buf, thrown>>

TypeOK ==
    /\ fsize \in Nat
    /\ cache_size \in 0..fsize
    /\ cache_buf \in [0..(cache_size - 1) -> 0..(fsize - 1)]
    /\ cur_off \in 0..cache_size
    /\ tellg \in cache_size..fsize
    /\ thrown \in BOOLEAN

\* n bytes of the file from the place at.
Bytes(at, n) == [j \in 0..(n - 1) |-> at + j]

\* Variants with a bug, which the runs are expected to notice, stand before the
\* definition they would replace.

\* The constructor: the buffer is no larger than the file and is filled.
Open ==
    /\ fsize \in FileSizes
    /\ \E cacheSize \in CacheSizes :
          cache_size = IF cacheSize < fsize THEN cacheSize ELSE fsize
    /\ cache_buf = Bytes(0, cache_size)
    /\ cur_off = 0
    /\ tellg = cache_size
    /\ asked = 0
    /\ read_buf = [j \in {} |-> 0]
    /\ thrown = FALSE

\* The buffer has all the bytes.
ReadCached(n_bytes) ==
    /\ n_bytes <= cache_size - cur_off
    /\ read_buf' = [j \in 0..(n_bytes - 1) |-> cache_buf[cur_off + j]]
    /\ cur_off' = cur_off + n_bytes
    /\ asked' = n_bytes
    /\ thrown' = FALSE
    /\ UNCHANGED <<fsize, cache_size, cache_buf, tellg>>

\* Variant: the buffer is taken to be full again whatever is left.
ReadDirectlyRefilled(n_bytes) ==
    LET cached_bytes == cache_size - cur_off
        at == tellg + n_bytes - cached_bytes
    IN  /\ n_bytes > cached_bytes
        /\ at <= fsize
        /\ read_buf' = [j \in 0..(n_bytes - 1) |->
               IF j < cached_bytes THEN cache_buf[cur_off + j] ELSE tellg + (j - cached_bytes)]
        /\ tellg' = at
        /\ cur_off' = 0
        /\ asked' = n_bytes
        /\ thrown' = FALSE
        /\ UNCHANGED <<fsize, cache_size, cache_buf>>

\* The buffer is read to its end and the rest from the file; the buffer is filled
\* again, or left as one that has been read.
ReadDirectly(n_bytes) ==
    LET cached_bytes == cache_size - cur_off
        at == tellg + (n_bytes - cached_bytes)
    IN  /\ n_bytes > cached_bytes
        /\ at <= fsize
        /\ read_buf' = [j \in 0..(n_bytes - 1) |->
               IF j < cached_bytes THEN cache_buf[cur_off + j] ELSE tellg + (j - cached_bytes)]
        /\ IF fsize - at >= cache_size
           THEN /\ cache_buf' = Bytes(at, cache_size)
                /\ cur_off' = 0
                /\ tellg' = at + cache_size
           ELSE /\ cur_off' = cache_size
                /\ tellg' = at
                /\ UNCHANGED cache_buf
        /\ asked' = n_bytes
        /\ thrown' = FALSE
        /\ UNCHANGED <<fsize, cache_size>>

\* More is asked for than is left in the buffer and the file.
Throw(n_bytes) ==
    /\ n_bytes > cache_size - cur_off
    /\ n_bytes - (cache_size - cur_off) > fsize - tellg
    /\ asked' = n_bytes
    /\ thrown' = TRUE
    /\ UNCHANGED <<fsize, cache_size, cache_buf, cur_off, tellg, read_buf>>

ReaderNext == \E n_bytes \in Requests :
    ReadCached(n_bytes) \/ ReadDirectly(n_bytes) \/ Throw(n_bytes)

ReaderSpec == Open /\ [][ReaderNext]_reader

----------------------------------------------------------------------------
(* Properties.                                                             *)

\* What has not been read of the buffer are the bytes before the place where the
\* underlying stream is.
CacheIsAhead ==
    \A j \in cur_off..(cache_size - 1) : cache_buf[j] + (cache_size - j) = tellg

\* The reader returns the bytes of the file in order, each once, and throws when
\* and only when they do not suffice.
Source == INSTANCE ByteSource WITH
    length <- fsize,
    pos <- tellg - (cache_size - cur_off),
    bytes <- read_buf,
    failed <- thrown

ImplementsSource == Source!Spec
=============================================================================
