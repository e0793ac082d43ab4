------------------------------ MODULE MCXmodem ------------------------------
(***************************************************************************)
(* Three-bit bytes, so that the block number wraps in nine blocks, and the *)
(* control codes are five of the eight values, which data, numbers and     *)
(* checksums take as well.                                                 *)
(***************************************************************************)
EXTENDS Xmodem

\* Every value of a byte is among the data; the last block has those of EOT and NAK.
MCPayload == <<<<1, 4>>, <<6, 1>>, <<5, 7>>, <<4, 0>>, <<0, 5>>, <<3, 6>>, <<7, 2>>, <<2, 1>>, <<4, 5>>>>

\* An image with the value of EOT in it.
MCBinary == <<<<0, 2>>, <<3, 4>>>>
=============================================================================
