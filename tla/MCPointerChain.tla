--------------------------- MODULE MCPointerChain ----------------------------
(* Lines of four bytes and pages of four lines keep the proportions of the  *)
(* real ones: a line is a multiple of NUM_CHAINS, and the offset of a node  *)
(* within its page wraps around before the last node.                       *)
EXTENDS PointerChain, Bitwise

MCBuffer == [c \in AllChain |-> 64 * (c + 1)]
MCMask(a) == a ^^ 342                      (* 101010110: like the key, even *)
=============================================================================
