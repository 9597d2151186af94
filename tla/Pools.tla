------------------------------- MODULE Pools --------------------------------
(***************************************************************************)
(* The resources pkg/pool and internal/digest recycle, and the pipeline    *)
(* through which a layer is written:                                       *)
(*                                                                         *)
(*     tar -> tee(hash) -> gzip -> tee(hash) -> bufio -> blob file         *)
(*                                                                         *)
(* sync.Pool keeps what is put and hands it out again; Get may also find   *)
(* nothing and allocate.  What is unreachable is collected, so an object   *)
(* that nobody holds can stand for a newly allocated one.                  *)
(***************************************************************************)
EXTENDS Naturals, FiniteSets, SequencesExt

CONSTANTS
    Writers,                        \* who writes layers, a pipeline each
    Hashes, Gzips, Bufs, Larges,    \* the objects of each pool
    Chunk,                          \* what is written: pieces of a tar
    Discard,                        \* io.Discard, where a new object writes
    Nothing                         \* no object, no chunk

Objects == Hashes \cup Gzips \cup Bufs \cup Larges
ASSUME PoolsDiffer ==
    /\ Hashes \cap (Gzips \cup Bufs \cup Larges) = {}
    /\ Gzips \cap (Bufs \cup Larges) = {} /\ Bufs \cap Larges = {}
    /\ Nothing \notin Objects

Roles   == {"uncomp", "comp", "gz", "buf", "large"}

VARIABLES
    pooled,    \* how many times an object is in its pool
    using,     \* the writers with an open pipeline
    held,      \* writer -> role -> the object its last pipeline took
    sum,       \* hash -> what it has hashed
    gz,        \* gzip writer -> the pipeline it writes to, what it holds back
    buf,       \* bufio writer -> the file it writes to, what it holds back
    file       \* writer -> the bytes in its blob file

poolVars == <<pooled, using, held, sum, gz, buf, file>>

\* compressed data: the gzip of a chunk, and the trailer Close writes
Zipped  == [gzip : Chunk \cup {Nothing}]
Trailer == [gzip |-> Nothing]
Gzip(s) == [i \in DOMAIN s |-> [gzip |-> s[i]]]

PoolsTypeOK ==
    /\ pooled \in [Objects -> 0..2]
    /\ using \subseteq Writers
    /\ held \in [Writers -> [Roles -> Objects \cup {Nothing}]]
    /\ sum \in [Hashes -> Seq(Chunk \cup Zipped)]
    /\ gz \in [Gzips -> [to : Writers \cup {Discard}, data : Seq(Chunk)]]
    /\ buf \in [Bufs -> [to : Writers \cup {Discard}, data : Seq(Zipped)]]
    /\ file \in [Writers -> Seq(Zipped)]

Reset(to) == [to |-> to, data |-> <<>>]

PoolsInit ==
    /\ pooled = [o \in Objects |-> 0]
    /\ using = {}
    /\ held = [w \in Writers |-> [r \in Roles |-> Nothing]]
    /\ sum = [h \in Hashes |-> <<>>]
    /\ gz = [g \in Gzips |-> Reset(Discard)]
    /\ buf = [b \in Bufs |-> Reset(Discard)]
    /\ file = [w \in Writers |-> <<>>]

-----------------------------------------------------------------------------
(* Taking from the pools.                                                  *)

Reachable(o) == pooled[o] > 0 \/ \E w \in using : o \in Range(held[w])

\* Get: what is in the pool, or a new object (any unreachable one will do)
Obtainable(pool) ==
    {o \in pool : pooled[o] > 0}
      \cup {o \in pool : ~Reachable(o) /\ o = CHOOSE n \in pool : ~Reachable(n)}

\* two Gets in a row from one pool
ObtainablePairs(pool) ==
    {p \in Obtainable(pool) \X pool :
        \/ p[1] = p[2] /\ pooled[p[1]] > 1
        \/ /\ p[1] # p[2]
           /\ \/ pooled[p[2]] > 0
              \/ /\ ~Reachable(p[2])
                 /\ p[2] = CHOOSE n \in pool \ {p[1]} : ~Reachable(n)}

\* GetHash, GetGzipWriter and GetBufWriter reset what they return
\* mutant: the reset is left out, the state is that of the last user
GetHash_Kept(h) == sum[h]
GetHash(h) == <<>>
GetGzipWriter(g, w) == Reset(w)
GetBufWriter(b, w) == Reset(w)

Take(w, taken) ==
    /\ held' = [held EXCEPT ![w] = taken]
    /\ using' = using \cup {w}
    /\ pooled' = [o \in Objects |->
                     pooled[o] - Cardinality({r \in Roles : taken[r] = o /\ pooled[o] > 0})]

\* NewStreamingPipeline, and the buffer WriteTarLayer takes after it
NewStreamingPipeline(w) ==
    \E b \in Obtainable(Bufs), g \in Obtainable(Gzips), l \in Obtainable(Larges),
       h \in ObtainablePairs(Hashes) :
        /\ Take(w, [buf |-> b, comp |-> h[1], gz |-> g, uncomp |-> h[2], large |-> l])
        /\ buf' = [buf EXCEPT ![b] = GetBufWriter(b, w)]
        /\ gz' = [gz EXCEPT ![g] = GetGzipWriter(g, w)]
        /\ sum' = [sum EXCEPT ![h[1]] = GetHash(h[1]), ![h[2]] = GetHash(h[2])]
        /\ UNCHANGED file

-----------------------------------------------------------------------------
(* Giving back.                                                            *)

Put(w, roles) ==
    pooled' = [o \in Objects |->
                  pooled[o] + Cardinality({r \in roles : held[w][r] = o})]

\* the end of StreamingPipeline.Close: the caller still has its large buffer
\* mutant: a caller's deferred Close gives back again
PutAll_Large(w) == Put(w, Roles)
PutAll(w) == Put(w, Roles \ {"large"})

\* WriteTarLayer returns: the deferred PutLargeBuffer; what else it holds,
\* after an error, is left to the garbage collector
PutLargeBuffer(w) == Put(w, {"large"}) /\ using' = using \ {w}

-----------------------------------------------------------------------------
(* Writing.  A write that fails is not here: the pipeline is then dropped. *)

Pipe(w)  == held[w]
Lower(w) == held[gz[Pipe(w).gz].to]     \* where its gzip writer leads

\* compressed bytes pass the lower tee: bufio first, then the hash; bufio
\* keeps them or its buffer was full and they reach the file
LowerTee(w, out, hashed) ==
    LET b  == Lower(w).buf
        to == buf[b].to
    IN  /\ sum' = [hashed EXCEPT ![Lower(w).comp] = @ \o out]
        /\ \/ /\ buf' = [buf EXCEPT ![b].data = @ \o out]
              /\ UNCHANGED file
           \/ /\ file' = [file EXCEPT ![to] = @ \o buf[b].data \o out]
              /\ buf' = [buf EXCEPT ![b].data = <<>>]

\* tar's bytes pass the upper tee: gzip first, which keeps them or gives out
\* all it has, then the hash
Write(w, chunks) ==
    LET g == Pipe(w).gz
        hashed == [sum EXCEPT ![Pipe(w).uncomp] = @ \o chunks]
    IN  /\ UNCHANGED <<pooled, using, held>>
        /\ \/ /\ gz' = [gz EXCEPT ![g].data = @ \o chunks]
              /\ sum' = hashed
              /\ UNCHANGED <<buf, file>>
           \/ /\ gz' = [gz EXCEPT ![g].data = <<>>]
              /\ LowerTee(w, Gzip(gz[g].data \o chunks), hashed)

\* gzip.Writer.Close
CloseGzip(w) ==
    LET g == Pipe(w).gz IN
    /\ gz' = [gz EXCEPT ![g].data = <<>>]
    /\ LowerTee(w, Gzip(gz[g].data) \o <<Trailer>>, sum)
    /\ UNCHANGED <<pooled, using, held>>

\* bufio.Writer.Flush
Flush(w) ==
    LET b  == Pipe(w).buf
        to == buf[b].to
    IN  /\ file' = [file EXCEPT ![to] = @ \o buf[b].data]
        /\ buf' = [buf EXCEPT ![b].data = <<>>]
        /\ UNCHANGED <<pooled, using, held, sum, gz>>
=============================================================================
