-------------------------- MODULE MCFileByteSource --------------------------
(* A file of up to five bytes, a two-byte needle at one place. *)
EXTENDS FileByteSource

MCMarks == {2}
=============================================================================
