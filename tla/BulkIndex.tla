----------------------------- MODULE BulkIndex -----------------------------
(***************************************************************************)
(* What a bulk load promises about the store, whatever the threads do and *)
(* however often the process is killed and rerun: the store gains rows of *)
(* header-chain blocks in batches, and its last-indexed row names the end *)
(* of the longest prefix of the header chain whose rows are all written.  *)
(* The store is seen as the set of blocks it holds rows of; BulkPipeline  *)
(* implements this specification under the mapping of BulkIndexRefined.  *)
(***************************************************************************)
EXTENDS Naturals, Sequences, SequencesExt

CONSTANTS Headers, NoBlock

VARIABLES written, checkpoint

(* The first k headers of the chain all have their rows written. *)
Covered(k) == \A j \in 1..k : Headers[j] \in written

Init ==
  /\ written = {}
  /\ checkpoint = NoBlock

(* A batch adds rows of chain blocks not written before. *)
WriteBatch ==
  \E S \in SUBSET Range(Headers) :
    /\ S # {}
    /\ S \cap written = {}
    /\ written' = written \cup S
    /\ UNCHANGED checkpoint

(* The last-indexed row: the end of the longest covered prefix. *)
Checkpoint ==
  \E k \in 1..Len(Headers) :
    /\ Covered(k)
    /\ k < Len(Headers) => Headers[k + 1] \notin written
    /\ checkpoint' = Headers[k]
    /\ UNCHANGED written

Spec == Init /\ [][WriteBatch \/ Checkpoint]_<<written, checkpoint>>
=============================================================================
