---------------------------- MODULE MCBlkFramer ----------------------------
(* A four-letter byte alphabet, a magic with no zero byte (as the real     *)
(* networks' magics), one block, one block whose payload itself contains a *)
(* whole frame of the first, and one block with a corrupt payload.        *)
EXTENDS BlkFramer

CONSTANTS a, b, bad

MCMagic == <<3, 2, 1, 3>>

MCEncodings ==
  (a :> <<2>>) @@ (b :> (MCMagic \o <<1, 0, 0, 0>> \o <<2>>)) @@ (bad :> <<1>>)
====
