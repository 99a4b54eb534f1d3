------------------------------- MODULE Memory -------------------------------
(***************************************************************************)
(* karabo::xms::Memory (xms/Memory.cc): the reference counted chunks that  *)
(* the pipeline channels of a process keep their data in.  The operators   *)
(* work on the chunks of one channel: a function from chunk ids to         *)
(*   use   m_chunkStatus, the number of users of the chunk                 *)
(*   msg   what the chunk contains: the number of a written message, or 0  *)
(*   eos   m_isEndOfStream                                                 *)
(* Every operation is atomic in the code (m_accessMutex).                  *)
(***************************************************************************)
EXTENDS Naturals, Sequences, FiniteSets

FreeChunk == [use |-> 0, msg |-> 0, eos |-> FALSE]

Chunk == [use : Nat, msg : Nat, eos : BOOLEAN]

(* registerChunk() takes the first free chunk; 0 stands for the exception  *)
(* that is thrown when all chunks are in use.                              *)
FirstFree(mem) ==
    LET free == {k \in DOMAIN mem : mem[k].use = 0}
    IN  IF free = {} THEN 0 ELSE CHOOSE k \in free : \A j \in free : k <= j

registerChunk(mem, k) ==
    IF k = 0 THEN mem ELSE [mem EXCEPT ![k] = [FreeChunk EXCEPT !.use = 1]]

writeChunk(mem, k, msg, eos) ==
    [mem EXCEPT ![k].msg = msg, ![k].eos = eos]

incrementChunkUsage(mem, k, n) == [mem EXCEPT ![k].use = @ + n]

(* clearChunkData() when the last user is gone.                            *)
decrementChunkUsage(mem, k, n) ==
    [mem EXCEPT ![k] = IF mem[k].use <= n THEN FreeChunk
                       ELSE [mem[k] EXCEPT !.use = mem[k].use - n]]

(* decrementChunkUsage() for each chunk in a queue.                        *)
Occurrences(queue, k) == Cardinality({i \in 1..Len(queue) : queue[i] = k})

releaseChunks(mem, queue) ==
    [k \in DOMAIN mem |->
        LET n == Occurrences(queue, k)
        IN  IF n = 0 THEN mem[k] ELSE decrementChunkUsage(mem, k, n)[k]]
=============================================================================
