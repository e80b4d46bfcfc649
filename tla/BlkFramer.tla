----------------------------- MODULE BlkFramer -----------------------------
(***************************************************************************)
(* The block-file framer of bulk.rs: parse_blocks(blob, magic).           *)
(*                                                                         *)
(* The loop of parse_blocks is a state machine over the cursor: one action *)
(* per branch of the loop body (resync, EOF break, missing size, payload   *)
(* window, deserialization).  Bytes are abstracted to the alphabet         *)
(* 0..ByteBase-1 and a u32 is decoded little-endian in that base, which is *)
(* consensus_decode with 256 replaced by ByteBase.  deserialize succeeds   *)
(* exactly on the windows that are the encoding of some block.            *)
(*                                                                         *)
(* The blob to parse is drawn from the reference construction of the       *)
(* block-file format: frames magic . size . payload, each preceded by zero *)
(* padding, zero padding at the tail, and every prefix of such a blob (a   *)
(* block file cut short while the node is still writing it).  The ghost    *)
(* variable want holds the blocks the intact blob was built from.         *)
(***************************************************************************)
EXTENDS Naturals, Sequences, SequencesExt

CONSTANTS
  ByteBase,    \* size of the abstract byte alphabet
  Magic,       \* the four bytes of the network magic, little-endian
  BlockIds,    \* the blocks that may appear in a file
  Undecodable, \* blocks whose payload bytes deserialize rejects
  Encodings,   \* BlockIds -> consensus encoding of that block (a byte sequence)
  MaxFrames,   \* bound on the number of frames in a blob
  MaxPad       \* bound on the zero padding before a frame and at the tail

VARIABLES blob, cursor, blocks, outcome, want, intact

vars == <<blob, cursor, blocks, outcome, want, intact>>

Bytes == 0..(ByteBase - 1)

(* u32::consensus_decode of the four bytes at 0-based offset pos.          *)
U32At(s, pos) ==
  s[pos + 1] + ByteBase * s[pos + 2]
    + ByteBase * ByteBase * s[pos + 3]
    + ByteBase * ByteBase * ByteBase * s[pos + 4]

(* The little-endian u32 encoding of n, the inverse of U32At.              *)
LE32(n) == [k \in 1..4 |-> (n \div (ByteBase ^ (k - 1))) % ByteBase]

MagicValue == U32At(Magic, 0)

Zeros(n) == [k \in 1..n |-> 0]

(* The reference format: one frame per block, padding before each frame.   *)
Frame(b) == Magic \o LE32(Len(Encodings[b])) \o Encodings[b]

BuildBlob(fs, pads) ==
  FlattenSeq([k \in 1..Len(fs) |-> Zeros(pads[k]) \o Frame(fs[k])])
    \o Zeros(pads[Len(fs) + 1])

Inputs ==
  UNION { { [blob |-> SubSeq(BuildBlob(fs, pads), 1, n), want |-> fs,
             intact |-> n = Len(BuildBlob(fs, pads))]
            : n \in 0..Len(BuildBlob(fs, pads)) }
          : fs \in SeqOf(BlockIds, MaxFrames),
            pads \in [1..(MaxFrames + 1) -> 0..MaxPad] }

(* deserialize(&blob[start..end]): the block whose encoding the window is. *)
Decodes(w) == \E b \in BlockIds \ Undecodable : Encodings[b] = w
Deserialize(w) == CHOOSE b \in BlockIds \ Undecodable : Encodings[b] = w

Init ==
  \E in \in Inputs :
    /\ blob = in.blob
    /\ want = in.want
    /\ intact = in.intact
    /\ cursor = 0
    /\ blocks = <<>>
    /\ outcome = "run"

Running == outcome = "run" /\ cursor < Len(blob)

(* while cursor.position() < max_pos: the loop ends and Ok(blocks).        *)
LoopEnd ==
  /\ outcome = "run"
  /\ cursor >= Len(blob)
  /\ outcome' = "ok"
  /\ UNCHANGED <<blob, cursor, blocks, want, intact>>

(* u32::consensus_decode fails on a short read: break, Ok(blocks).         *)
EofBreak ==
  /\ Running
  /\ cursor + 4 > Len(blob)
  /\ outcome' = "ok"
  /\ UNCHANGED <<blob, cursor, blocks, want, intact>>

(* Variant: the seek back after a non-magic u32 goes back four bytes.      *)
ResyncStuck ==
  /\ Running
  /\ cursor + 4 <= Len(blob)
  /\ U32At(blob, cursor) # MagicValue
  /\ cursor' = cursor + 4 - 4
  /\ UNCHANGED <<blob, blocks, outcome, want, intact>>

(* Variant: no seek back at all after a non-magic u32.                     *)
ResyncWordwise ==
  /\ Running
  /\ cursor + 4 <= Len(blob)
  /\ U32At(blob, cursor) # MagicValue
  /\ cursor' = cursor + 4
  /\ UNCHANGED <<blob, blocks, outcome, want, intact>>

(* A u32 other than magic: seek(SeekFrom::Current(-3)) and continue.       *)
Resync ==
  /\ Running
  /\ cursor + 4 <= Len(blob)
  /\ U32At(blob, cursor) # MagicValue
  /\ cursor' = cursor + 4 - 3
  /\ UNCHANGED <<blob, blocks, outcome, want, intact>>

(* Magic read, but block_size cannot be read: Err("no block size").        *)
NoBlockSize ==
  /\ Running
  /\ cursor + 4 <= Len(blob)
  /\ U32At(blob, cursor) = MagicValue
  /\ cursor + 8 > Len(blob)
  /\ outcome' = "err"
  /\ UNCHANGED <<blob, cursor, blocks, want, intact>>

(* Variant: a payload running past the end is skipped like padding.      *)
SlicePastEndSkipping ==
  /\ Running
  /\ cursor + 8 <= Len(blob)
  /\ U32At(blob, cursor) = MagicValue
  /\ cursor + 8 + U32At(blob, cursor + 4) > Len(blob)
  /\ cursor' = cursor + 8 + U32At(blob, cursor + 4)
  /\ UNCHANGED <<blob, blocks, outcome, want, intact>>

(* The seek by block_size succeeds past the end of the Cursor, and the     *)
(* slice &blob[start..end] then panics.                                    *)
SlicePastEnd ==
  /\ Running
  /\ cursor + 8 <= Len(blob)
  /\ U32At(blob, cursor) = MagicValue
  /\ cursor + 8 + U32At(blob, cursor + 4) > Len(blob)
  /\ outcome' = "panic"
  /\ UNCHANGED <<blob, cursor, blocks, want, intact>>

(* The window is not the encoding of a block: deserialize fails, Err.      *)
BadPayload ==
  /\ Running
  /\ cursor + 8 <= Len(blob)
  /\ U32At(blob, cursor) = MagicValue
  /\ LET start == cursor + 8
         end == start + U32At(blob, cursor + 4)
     IN /\ end <= Len(blob)
        /\ ~Decodes(SubSeq(blob, start + 1, end))
  /\ outcome' = "err"
  /\ UNCHANGED <<blob, cursor, blocks, want, intact>>

(* Variant: the cursor is left at the start of the payload.                *)
ParseBlockNoSeek ==
  /\ Running
  /\ cursor + 8 <= Len(blob)
  /\ U32At(blob, cursor) = MagicValue
  /\ LET start == cursor + 8
         end == start + U32At(blob, cursor + 4)
     IN /\ end <= Len(blob)
        /\ Decodes(SubSeq(blob, start + 1, end))
        /\ blocks' = Append(blocks, Deserialize(SubSeq(blob, start + 1, end)))
        /\ cursor' = start
  /\ UNCHANGED <<blob, outcome, want, intact>>

(* Magic, block_size, seek to end, deserialize the window, push the block. *)
ParseBlock ==
  /\ Running
  /\ cursor + 8 <= Len(blob)
  /\ U32At(blob, cursor) = MagicValue
  /\ LET start == cursor + 8
         end == start + U32At(blob, cursor + 4)
     IN /\ end <= Len(blob)
        /\ Decodes(SubSeq(blob, start + 1, end))
        /\ blocks' = Append(blocks, Deserialize(SubSeq(blob, start + 1, end)))
        /\ cursor' = end
  /\ UNCHANGED <<blob, outcome, want, intact>>

Next ==
  \/ LoopEnd
  \/ EofBreak
  \/ Resync
  \/ NoBlockSize
  \/ SlicePastEnd
  \/ BadPayload
  \/ ParseBlock

(* parse_blocks runs on one indexer thread without waiting on anything.    *)
Spec == Init /\ [][Next]_vars /\ WF_vars(Next)

-----------------------------------------------------------------------------
TypeOK ==
  /\ blob \in Seq(Bytes)
  /\ cursor \in 0..Len(blob)
  /\ blocks \in Seq(BlockIds)
  /\ outcome \in {"run", "ok", "err", "panic"}

(* parse_blocks recovers exactly the blocks an intact block file was       *)
(* written with, in order, skipping the zero padding by the seek back of   *)
(* three bytes; magic bytes inside a payload never start a frame.          *)
ParseRecoversFrames ==
  intact /\ outcome # "run" /\ Range(want) \cap Undecodable = {}
    => outcome = "ok" /\ blocks = want

(* Whatever prefix of a block file it is given, parse_blocks never yields  *)
(* a block the file does not hold at that place: its output is always a   *)
(* prefix of the blocks the file was written with.                         *)
NoPhantomBlocks == IsPrefix(blocks, want)

(* The resync loop of parse_blocks always makes progress: the call returns.*)
ParseTerminates == <>(outcome # "run")

(* Section 4.1 of the spec: a frame whose declared size runs past the end  *)
(* of the blob is a fatal error for the file, i.e. parse_blocks returns    *)
(* Err; it never panics the indexer thread.                                *)
NeverPanics == outcome # "panic"
=============================================================================
