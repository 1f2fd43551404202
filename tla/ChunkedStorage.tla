--------------------------- MODULE ChunkedStorage ---------------------------
(***************************************************************************)
(* The storage of article bodies (src/src/dict/chunkedstorage.cc): a Writer  *)
(* that gathers blocks in a buffer and flushes it as a chunk once it is      *)
(* full, and a Reader that finds a block again by its address.  A byte is    *)
(* the block it was written to and its place there; the compression of a     *)
(* chunk and the place of the chunk table in the file are left out.          *)
(***************************************************************************)
EXTENDS Naturals

CONSTANTS
  ChunkMaxSize,  \* a buffer of this size is flushed before the next block
  Half,          \* how many values a half of an address has: 2^16
  MaxBlocks,     \* bound: blocks written
  MaxBytes       \* bound: bytes of one block

ASSUME ChunkedStorageAssumption ==
  /\ ChunkMaxSize \in Nat \ {0} /\ Half \in Nat \ {0}
  /\ ChunkMaxSize <= Half  \* "Can't be more since it would overflow the address"
  /\ MaxBlocks \in Nat /\ MaxBytes \in Nat

VARIABLES
  nChunks,       \* offsets.size()
  chunks,        \* the chunks written, from 0; bytes from 0
  buffer,        \* the part of the buffer in use
  bufferUsed,
  chunkStarted,
  finished,      \* finish() was called
  nBlocks,       \* blocks started; the last one may still be added to
  address,       \* what startNewBlock() returned for each block
  home,          \* history: the number of the chunk each block went to
  size           \* history: the bytes each block was given

storageVars == <<nChunks, chunks, buffer, bufferUsed, chunkStarted, finished,
                 nBlocks, address, home, size>>

Blocks == 1 .. nBlocks

StorageInit ==
  /\ nChunks = 0 /\ chunks = [c \in {} |-> {}]
  /\ buffer = [i \in {} |-> {}] /\ bufferUsed = 0 /\ chunkStarted = FALSE
  /\ finished = FALSE
  /\ nBlocks = 0
  /\ address = [b \in {} |-> {}] /\ home = [b \in {} |-> 0]
  /\ size = [b \in {} |-> 0]

-----------------------------------------------------------------------------
(* The writer. *)

MustFlush(used) == used >= ChunkMaxSize

SaveCurrentChunk ==
  /\ nChunks' = nChunks + 1
  /\ chunks' = [c \in 0 .. nChunks |-> IF c = nChunks THEN buffer ELSE chunks[c]]
  /\ buffer' = [i \in {} |-> {}] /\ bufferUsed' = 0

\* bufferUsed | ( offsets.size() << 16 ), in 32 bits: the number of the chunk
\* loses what does not fit.
Address(used, n) == [offset |-> used % Half, chunk |-> n % Half]

NewBlock(used, n) ==
  /\ ~finished /\ nBlocks < MaxBlocks
  /\ nBlocks' = nBlocks + 1
  /\ address' = [b \in 1 .. nBlocks + 1 |->
                   IF b = nBlocks + 1 THEN Address(used, n) ELSE address[b]]
  /\ home' = [b \in 1 .. nBlocks + 1 |-> IF b = nBlocks + 1 THEN n ELSE home[b]]
  /\ size' = [b \in 1 .. nBlocks + 1 |-> IF b = nBlocks + 1 THEN 0 ELSE size[b]]
  /\ chunkStarted' = TRUE
  /\ UNCHANGED finished

\* startNewBlock(), in the chunk begun and in a new one.
StartInChunk ==
  /\ ~MustFlush(bufferUsed) /\ NewBlock(bufferUsed, nChunks)
  /\ UNCHANGED <<nChunks, chunks, buffer, bufferUsed>>

StartAfterFlush ==
  /\ MustFlush(bufferUsed) /\ SaveCurrentChunk /\ NewBlock(0, nChunks + 1)

StartNewBlock == StartInChunk \/ StartAfterFlush

\* A block is never split: the buffer grows past ChunkMaxSize for it.
AddToBlock(n) ==
  /\ ~finished /\ nBlocks > 0 /\ size[nBlocks] + n <= MaxBytes
  /\ buffer' = [i \in 0 .. bufferUsed + n - 1 |->
                  IF i < bufferUsed THEN buffer[i]
                  ELSE [block |-> nBlocks, place |-> size[nBlocks] + i - bufferUsed]]
  /\ bufferUsed' = bufferUsed + n
  /\ size' = [size EXCEPT ![nBlocks] = @ + n]
  /\ chunkStarted' = FALSE
  /\ UNCHANGED <<nChunks, chunks, finished, nBlocks, address, home>>

\* Mutated form: a chunk of no bytes is not worth writing.
SomeBytes == bufferUsed > 0

ChunkPending == bufferUsed > 0 \/ chunkStarted

Finish ==
  /\ ~finished /\ finished' = TRUE
  /\ \/ ChunkPending /\ SaveCurrentChunk
     \/ ~ChunkPending /\ UNCHANGED <<nChunks, chunks, buffer, bufferUsed>>
  /\ chunkStarted' = FALSE
  /\ UNCHANGED <<nBlocks, address, home, size>>

StorageNext == StartNewBlock \/ (\E n \in 1 .. MaxBytes : AddToBlock(n)) \/ Finish

StorageSpec == StorageInit /\ [][StorageNext]_storageVars

-----------------------------------------------------------------------------
(* The reader. *)

\* getBlock() finds the chunk, and the offset is in it or, for a block of no
\* bytes, at its end; otherwise it throws exAddressOutOfRange.
InRange(a) ==
  /\ a.chunk < nChunks
  /\ a.offset = 0 \/ a.offset - 1 \in DOMAIN chunks[a.chunk]

ByteAt(a, k) == chunks[a.chunk][a.offset + k]

\* Each block is read back from its address whole and unmixed, whatever the
\* sizes of the blocks, empty ones included, as long as the number of its chunk
\* fits the address (src/src/dict/chunkedstorage.cc:44).
BlocksReadBack ==
  finished =>
    \A b \in Blocks : home[b] < Half =>
      /\ InRange(address[b])
      /\ \A k \in 0 .. size[b] - 1 :
           /\ address[b].offset + k \in DOMAIN chunks[address[b].chunk]
           /\ ByteAt(address[b], k) = [block |-> b, place |-> k]
=============================================================================
