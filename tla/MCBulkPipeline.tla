--------------------------- MODULE MCBulkPipeline ---------------------------
(* Three blk*.dat files holding the genesis block g, chain blocks b1 and b2 *)
(* and an orphan x; b1 sits in two files, so two indexers race on its      *)
(* insertion.  The second file lists b2 before b1: files are not in chain  *)
(* order.                                                                  *)
EXTENDS BulkPipeline

CONSTANTS f1, f2, f3, g, b1, b2, x

MCBlkFiles == <<f1, f2, f3>>
MCFileBlocks == (f1 :> <<g, b1>>) @@ (f2 :> <<x, b1>>) @@ (f3 :> <<b2>>)
MCHeaders == <<g, b1, b2>>
=============================================================================
