--------------------------- MODULE MCEditorKernel ---------------------------
(* Small instances of EditorKernel for TLC; each cfg chooses which part of *)
(* the kernel is exercised and bounds the rest away.                        *)
EXTENDS EditorKernel, TLC

CONSTANTS d1, d2, s1, r1, r2, a, b

(* Every identifier is opaque to the kernel: only safety runs use this.     *)
Symmetry == Permutations(Sources) \cup Permutations(RunIds) \cup Permutations(Documents)
=============================================================================
