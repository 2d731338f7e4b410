----------------------------- MODULE MCBlobStore -----------------------------
(* Model values and symmetry for checking BlobStore on small instances. *)
EXTENDS BlobStore, TLC

CONSTANTS w1, w2, r1

OneWriter == {w1}
TwoWriters == {w1, w2}
OneReader == {r1}
NoReader == {}

(* In units: a small blob takes one, a large one two, an oversized one three. *)
MixedLens == {100, 5000}
EmptyOrLarge == {0, 5000}
DirectLens == {9000}

BigBuffer == {10000}
BothBuffers == {1000, 10000}

WriterSymmetry == Permutations(TwoWriters)
=============================================================================
