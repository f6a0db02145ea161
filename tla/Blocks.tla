------------------------------- MODULE Blocks -------------------------------
(***************************************************************************)
(* Blocks of the C heap as src/src/mr_utils/src/mrs_strings.c and          *)
(* mrv_vectors.c use them: sequences of cells that hold Junk until they    *)
(* are written.  Offsets count from 0, as in C.                            *)
(***************************************************************************)
EXTENDS Naturals, Sequences

CONSTANT Junk  \* what a cell holds that nothing has written

\* A pointer to no block.
Null == <<>>

malloc(n) == [i \in 1..n |-> Junk]

realloc(block, n) == [i \in 1..n |-> IF i <= Len(block) THEN block[i] ELSE Junk]

\* memcpy(&block[at], cells): what falls outside of the block is lost here,
\* and told from a good store by Within.
Stored(block, at, cells) ==
    [i \in DOMAIN block |-> IF i \in (at + 1)..(at + Len(cells))
                            THEN cells[i - at] ELSE block[i]]

Within(block, at, n) == at + n <= Len(block)

=============================================================================
