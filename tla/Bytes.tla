--------------------------------- MODULE Bytes ---------------------------------
(* Numbers as sequences of bytes, the lowest first; a byte is 0..base-1.     *)
EXTENDS Integers, SequencesExt

CONSTANT None   \* Option::None

\* to_le_bytes of a number of so many bytes, and from_le_bytes.
LittleEndian(n, base, width) == [i \in 1..width |-> (n \div base^(i - 1)) % base]

Number(bytes, base) == FoldRight(LAMBDA b, n : b + base * n, bytes, 0)
=============================================================================
