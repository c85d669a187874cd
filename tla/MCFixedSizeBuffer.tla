-------------------------- MODULE MCFixedSizeBuffer -------------------------
(***************************************************************************)
(* A ring of four bytes of two values: chunks of one to four bytes on both *)
(* sides of the end of the array, and counters that wrap after two rounds. *)
(***************************************************************************)
EXTENDS FixedSizeBuffer

MCBufferSize == 4
MCCounterModulus == 2 * MCBufferSize
MCByte == {0, 1}
=============================================================================
