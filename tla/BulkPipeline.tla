---------------------------- MODULE BulkPipeline ----------------------------
(***************************************************************************)
(* The bulk indexing pipeline of src/electrs/src/bulk.rs: one reader       *)
(* thread (start_reader), the indexer threads (start_indexer running       *)
(* Parser::index_blkfile) and the writer thread of index_blk_files, joined *)
(* by two capacity-0 rendezvous channels and sharing the mutex-guarded set *)
(* Parser.indexed_blockhashes.  The store outlives the process: the model  *)
(* lets the process crash or abort at any step and be started again, the  *)
(* new run loading the indexed set from the store.                         *)
(*                                                                         *)
(* Data abstraction: a blk*.dat file is the sequence of blocks that        *)
(* parse_blocks returns for it (BlkFramer checks parse_blocks itself), or  *)
(* is Corrupt when parse_blocks fails; the rows of a block are the block   *)
(* id, so a batch is a set of blocks (the key sort of line 108 only        *)
(* orders a batch, which a set does not record).                           *)
(***************************************************************************)
EXTENDS Naturals, Sequences, FiniteSets, SequencesExt

CONSTANTS
  BlkFiles,    \* daemon.list_blk_files(): a sequence of file ids
  FileBlocks,  \* [file -> Seq(block)]: parse_blocks of the file's contents
  Corrupt,     \* files whose parse_blocks returns Err
  Headers,     \* current_headers: the header chain, genesis first
  Indexers,    \* the index_threads indexer threads
  NoBlock,     \* no last-indexed row in the store
  MaxRuns      \* bound on the number of process starts

ASSUME /\ Indexers # {}
       /\ Corrupt \subseteq Range(BlkFiles)
       /\ MaxRuns \in Nat \ {0}

Files == Range(BlkFiles)
Blocks == Range(Headers) \cup UNION {Range(FileBlocks[f]) : f \in Files}
FileCount == Len(BlkFiles)

VARIABLES
  reader,    \* [pc, next]: the bulk_read thread and its position in blk_files
  idx,       \* [Indexers -> [pc, file, pos, rows]]: the bulk_index threads
  writer,    \* pc of the bulk_writer thread (and of the process)
  indexed,   \* Parser.indexed_blockhashes (volatile)
  stored,    \* [Blocks -> Nat]: how many times a block's rows were written (durable)
  sentinel,  \* block named by the last-indexed row of the store (durable)
  run        \* number of process starts so far

vars == <<reader, idx, writer, indexed, stored, sentinel, run>>

ReaderPcs == {"read", "send", "done", "failed"}
IdxPcs == {"recv", "index", "send", "done", "failed"}
WriterPcs == {"drain", "done", "panicked", "crashed", "aborted"}

(* A thread whose sender end of the blob channel is gone. *)
ReaderGone == reader.pc \in {"done", "failed"}
IdxGone(i) == idx[i].pc \in {"done", "failed"}
Alive == writer = "drain"

StoredBlocks == {b \in Blocks : stored[b] > 0}

(* read_indexed_blockhashes: the blocks the store holds rows of.           *)
ReadIndexedBlockhashes == StoredBlocks

(* Variant: the prefix scan stops before the last header. *)
LastIndexedShort(set) ==
  LET n == IF \E k \in 1..(Len(Headers) - 1) : Headers[k] \notin set
           THEN CHOOSE k \in 1..(Len(Headers) - 1) :
                  Headers[k] \notin set /\ \A j \in 1..(k-1) : Headers[j] \in set
           ELSE Len(Headers)
  IN  IF n = 1 THEN NoBlock ELSE Headers[n-1]

(* Parser::last_indexed_row: the last header of the longest prefix of     *)
(* the header chain all in the indexed set; NoBlock when that prefix is   *)
(* empty, where the code panics ("no indexed header found").              *)
LastIndexed(set) ==
  LET n == IF \E k \in 1..Len(Headers) : Headers[k] \notin set
           THEN CHOOSE k \in 1..Len(Headers) :
                  Headers[k] \notin set /\ \A j \in 1..(k-1) : Headers[j] \in set
           ELSE Len(Headers) + 1
  IN  IF n = 1 THEN NoBlock ELSE Headers[n-1]

IdleIndexer == [pc |-> "recv", file |-> CHOOSE f \in Files : TRUE, pos |-> 1, rows |-> {}]

(* index_blk_files on an empty store. *)
Init ==
  /\ reader = [pc |-> "read", next |-> 1]
  /\ idx = [i \in Indexers |-> IdleIndexer]
  /\ writer = "drain"
  /\ indexed = {}
  /\ stored = [b \in Blocks |-> 0]
  /\ sentinel = NoBlock
  /\ run = 1
-----------------------------------------------------------------------------
(* start_reader: read the next file (read_blkfile may fail, which ends    *)
(* the thread with Err and drops the blob sender) ...                     *)
ReadBlkFile ==
  /\ Alive
  /\ reader.pc = "read"
  /\ reader.next <= FileCount
  /\ \/ reader' = [reader EXCEPT !.pc = "send"]
     \/ reader' = [reader EXCEPT !.pc = "failed"]
  /\ UNCHANGED <<idx, writer, indexed, stored, sentinel, run>>

(* Variant: the loop stops one file early. *)
ReaderExitEarly ==
  /\ Alive
  /\ reader.pc = "read"
  /\ reader.next >= FileCount
  /\ reader' = [reader EXCEPT !.pc = "done"]
  /\ UNCHANGED <<idx, writer, indexed, stored, sentinel, run>>

(* ... and leave the loop after the last file. *)
ReaderExit ==
  /\ Alive
  /\ reader.pc = "read"
  /\ reader.next > FileCount
  /\ reader' = [reader EXCEPT !.pc = "done"]
  /\ UNCHANGED <<idx, writer, indexed, stored, sentinel, run>>

(* blobs.send on the rendezvous channel blocks until an indexer takes   *)
(* the blob (Recv).  It never fails: index_blk_files keeps its own clone  *)
(* of the receiver (blobs, line 222) until the writer has been joined, so *)
(* once every indexer has failed the reader waits for ever.               *)
(* start_indexer: recv under the receiver mutex takes the blob the reader *)
(* offers (rendezvous), and index_blkfile parses it at once: a parse      *)
(* error ends the thread with Err.                                        *)
Recv(i) ==
  LET f == BlkFiles[reader.next] IN
  /\ Alive
  /\ idx[i].pc = "recv"
  /\ reader.pc = "send"
  /\ reader' = [pc |-> "read", next |-> reader.next + 1]
  /\ idx' = [idx EXCEPT ![i] = [pc |-> IF f \in Corrupt THEN "failed" ELSE "index",
                                file |-> f, pos |-> 1, rows |-> {}]]
  /\ UNCHANGED <<writer, indexed, stored, sentinel, run>>

(* Variant: only a reader that finished cleanly closes the channel. *)
RecvClosedOnlyWhenDone(i) ==
  /\ Alive
  /\ idx[i].pc = "recv"
  /\ reader.pc = "done"
  /\ idx' = [idx EXCEPT ![i].pc = "done"]
  /\ UNCHANGED <<reader, writer, indexed, stored, sentinel, run>>

(* recv returns Err once the reader has dropped the blob sender. *)
RecvClosed(i) ==
  /\ Alive
  /\ idx[i].pc = "recv"
  /\ ReaderGone
  /\ idx' = [idx EXCEPT ![i].pc = "done"]
  /\ UNCHANGED <<reader, writer, indexed, stored, sentinel, run>>

(* Variants of one loop iteration: the result of insert() ignored, and   *)
(* the header_by_blockhash lookup skipped.                              *)
IndexBlockIgnoringInsert(i) ==
  LET me == idx[i]
      b  == FileBlocks[me.file][me.pos]
      fresh == b \in Range(Headers)
  IN
  /\ Alive
  /\ me.pc = "index"
  /\ me.pos <= Len(FileBlocks[me.file])
  /\ indexed' = IF fresh THEN indexed \cup {b} ELSE indexed
  /\ idx' = [idx EXCEPT ![i].pos = me.pos + 1,
                        ![i].rows = IF fresh THEN me.rows \cup {b} ELSE me.rows]
  /\ UNCHANGED <<reader, writer, stored, sentinel, run>>

IndexBlockWithoutLookup(i) ==
  LET me == idx[i]
      b  == FileBlocks[me.file][me.pos]
      fresh == b \notin indexed
  IN
  /\ Alive
  /\ me.pc = "index"
  /\ me.pos <= Len(FileBlocks[me.file])
  /\ indexed' = IF fresh THEN indexed \cup {b} ELSE indexed
  /\ idx' = [idx EXCEPT ![i].pos = me.pos + 1,
                        ![i].rows = IF fresh THEN me.rows \cup {b} ELSE me.rows]
  /\ UNCHANGED <<reader, writer, stored, sentinel, run>>

(* One iteration of the block loop of index_blkfile: a block of the       *)
(* header chain whose hash is newly inserted into the indexed set (under  *)
(* the mutex) contributes its rows; a duplicate or an orphan does not.    *)
IndexBlock(i) ==
  LET me == idx[i]
      b  == FileBlocks[me.file][me.pos]
      fresh == b \in Range(Headers) /\ b \notin indexed
  IN
  /\ Alive
  /\ me.pc = "index"
  /\ me.pos <= Len(FileBlocks[me.file])
  /\ indexed' = IF fresh THEN indexed \cup {b} ELSE indexed
  /\ idx' = [idx EXCEPT ![i].pos = me.pos + 1,
                        ![i].rows = IF fresh THEN me.rows \cup {b} ELSE me.rows]
  /\ UNCHANGED <<reader, writer, stored, sentinel, run>>

(* After the loop, sort_unstable_by (abstracted) and writer.send: the     *)
(* indexer blocks on the rendezvous until the writer takes the batch.     *)
IndexDone(i) ==
  /\ Alive
  /\ idx[i].pc = "index"
  /\ idx[i].pos > Len(FileBlocks[idx[i].file])
  /\ idx' = [idx EXCEPT ![i].pc = "send"]
  /\ UNCHANGED <<reader, writer, indexed, stored, sentinel, run>>

(* The writer's loop over rows_chan receives a batch and store.write()s   *)
(* it (an atomic batch of the store).                                     *)
WriteRows(i) ==
  /\ Alive
  /\ idx[i].pc = "send"
  /\ stored' = [b \in Blocks |-> IF b \in idx[i].rows THEN stored[b] + 1 ELSE stored[b]]
  /\ idx' = [idx EXCEPT ![i] = IdleIndexer]
  /\ UNCHANGED <<reader, writer, indexed, sentinel, run>>

(* Variant: the last-indexed row is written without joining the         *)
(* indexers first.                                                       *)
WriterFinishWithoutJoin ==
  LET ok == LastIndexed(indexed) # NoBlock IN
  /\ Alive
  /\ writer' = IF ok THEN "done" ELSE "panicked"
  /\ sentinel' = IF ok THEN LastIndexed(indexed) ELSE sentinel
  /\ UNCHANGED <<reader, idx, indexed, stored, run>>

(* The writer's loop ends when every indexer has dropped its rows sender; *)
(* it then joins the reader and the indexers, panicking on a failed or    *)
(* panicked one, and writes the last-indexed row (panicking when no       *)
(* header of the chain is indexed).                                       *)
WriterFinish ==
  LET ok == /\ reader.pc = "done"
            /\ \A i \in Indexers : idx[i].pc = "done"
            /\ LastIndexed(indexed) # NoBlock
  IN
  /\ Alive
  /\ \A i \in Indexers : IdxGone(i)
  /\ ReaderGone
  /\ writer' = IF ok THEN "done" ELSE "panicked"
  /\ sentinel' = IF ok THEN LastIndexed(indexed) ELSE sentinel
  /\ UNCHANGED <<reader, idx, indexed, stored, run>>

(* The process dies at any step (killed, or a panic elsewhere): only the  *)
(* store survives.                                                        *)
Crash ==
  /\ Alive
  /\ writer' = "crashed"
  /\ UNCHANGED <<reader, idx, indexed, stored, sentinel, run>>

(* The operator runs index_blk_files again: the indexed set is loaded     *)
(* from the store by read_indexed_blockhashes.                            *)
Restart ==
  /\ ~Alive
  /\ run < MaxRuns
  /\ reader' = [pc |-> "read", next |-> 1]
  /\ idx' = [i \in Indexers |-> IdleIndexer]
  /\ writer' = "drain"
  /\ indexed' = ReadIndexedBlockhashes
  /\ run' = run + 1
  /\ UNCHANGED <<stored, sentinel>>

(* A start of index_blk_files that ends before any thread is spawned:     *)
(* set_open_files_limit panics when getrlimit or setrlimit fails, or      *)
(* list_blk_files or load_headers (in Parser::new) returns Err.  Nothing  *)
(* is read or written.                                                     *)
StartupFails ==
  /\ ~Alive
  /\ run < MaxRuns
  /\ writer' = "aborted"
  /\ run' = run + 1
  /\ UNCHANGED <<reader, idx, indexed, stored, sentinel>>

Next ==
  \/ ReadBlkFile \/ ReaderExit
  \/ \E i \in Indexers : Recv(i) \/ RecvClosed(i) \/ IndexBlock(i) \/ IndexDone(i)
  \/ \E i \in Indexers : WriteRows(i)
  \/ WriterFinish \/ Crash \/ Restart \/ StartupFails

(* Every thread that can run eventually runs; a crash or a rerun is never *)
(* forced.                                                                *)
Fairness ==
  /\ WF_vars(ReadBlkFile) /\ WF_vars(ReaderExit)
  /\ \A i \in Indexers : WF_vars(Recv(i)) /\ WF_vars(RecvClosed(i))
                         /\ WF_vars(IndexBlock(i)) /\ WF_vars(IndexDone(i))
                         /\ WF_vars(WriteRows(i))
  /\ WF_vars(WriterFinish)

Spec == Init /\ [][Next]_vars /\ Fairness
-----------------------------------------------------------------------------
(* The type of each variable; the indexed set and the row batches hold  *)
(* chain blocks only (header_by_blockhash gates both).                   *)
TypeOK ==
  /\ reader \in [pc : ReaderPcs, next : 1..(FileCount + 1)]
  /\ idx \in [Indexers -> [pc : IdxPcs, file : Files, pos : Nat, rows : SUBSET Range(Headers)]]
  /\ writer \in WriterPcs
  /\ indexed \subseteq Range(Headers)
  /\ stored \in [Blocks -> Nat]
  /\ sentinel \in Blocks \cup {NoBlock}
  /\ run \in 1..MaxRuns

(* Each block's rows reach the store at most once over all runs, however  *)
(* the indexers interleave and wherever a run crashed: the duplicate gate *)
(* of index_blkfile within a run, read_indexed_blockhashes across runs.   *)
RowsWrittenOnce == \A b \in Blocks : stored[b] <= 1

(* The last-indexed row never names a block unless the rows of every      *)
(* header up to it are in the store: the writer joins all indexers before *)
(* Parser::last_indexed_row reads the indexed set.                        *)
SentinelCovered ==
  sentinel # NoBlock =>
    \E k \in 1..Len(Headers) : /\ Headers[k] = sentinel
                               /\ \A j \in 1..k : stored[Headers[j]] > 0

(* A run that ends without panicking has stored the rows of every chain   *)
(* block of every blk*.dat file.                                          *)
CompleteOnSuccess ==
  writer = "done" =>
    \A f \in Files : \A b \in Range(FileBlocks[f]) :
      b \in Range(Headers) => stored[b] > 0

(* Every run ends: the writer finishes or panics, unless the process is   *)
(* killed first.  A lost channel closure or a missing join would leave a  *)
(* thread blocked for ever.                                               *)
RunEnds == [](Alive => <>(~Alive))

(* The pipeline implements BulkIndex when the store is read as the set of *)
(* blocks it holds rows of: every store write of every run, crashed ones  *)
(* included, adds rows of chain blocks or writes a last-indexed row at    *)
(* the end of the longest stored prefix of the chain.                     *)
BI == INSTANCE BulkIndex WITH written <- StoredBlocks, checkpoint <- sentinel
BulkIndexRefined == BI!Spec
=============================================================================
