------------------------------- MODULE Bytes -------------------------------
(* The output of a command, as what puts it into a buffer and what takes it    *)
(* out both see it.                                                            *)
EXTENDS Naturals, Sequences

CONSTANTS Byte,     \* the bytes of remote output
          Chunks,   \* what is put into the buffer at once: sequences of bytes
          MaxBytes  \* bound: bytes of output in a behaviour

ASSUME ChunksAssumption == Chunks \subseteq Seq(Byte)
ASSUME MaxBytesAssumption == MaxBytes \in Nat
=============================================================================
