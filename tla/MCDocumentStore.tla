-------------------------- MODULE MCDocumentStore --------------------------
(* Two loaders and two requests at a time for DocumentStore.tla.             *)
EXTENDS DocumentStore, TLC

\* The sources of the loaders do not change: processing one again finds the same
\* content in it, until somebody edits a chunk.
Texts == [c \in Chunk |-> <<c.no, c.edited>>]

\* A loader of two chunks, of which one save may fail, or a process that dies.
SmallBounds == {[size |-> 2, crashes |-> 0], [size |-> 1, crashes |-> 1]}

Symmetry == Permutations(Request) \cup Permutations(Doc)
=============================================================================
