------------------------------ MODULE CMemory ------------------------------
(***************************************************************************)
(* What the modules of the C data layer share: the width of its counts,    *)
(* NULL, and blocks of memory as functions on an interval from 0, which    *)
(* realloc keeps up to the smaller of the sizes.                           *)
(***************************************************************************)
EXTENDS Naturals, FiniteSets

CONSTANTS MaxUInt,   \* UINT32_MAX
          None,      \* NULL
          Junk       \* what memory holds before it is written

ASSUME UIntWidth == MaxUInt \in Nat \ {0}

\* uint32_t arithmetic.
UInt == 0 .. MaxUInt
Wrapped(n) == n % (MaxUInt + 1)

\* A block's length in its own units.
SizeOf(block) == Cardinality(DOMAIN block)
NewBlock(size, content) == [w \in 0 .. size - 1 |-> content]
Resized(block, size) ==
  [w \in 0 .. size - 1 |-> IF w \in DOMAIN block THEN block[w] ELSE Junk]

\* A capacity doubled until it holds what is wanted, after at most so many times.
DoubledTo(cap, want) ==
  LET after[n \in 0 .. want] ==
        IF n = 0 THEN cap
        ELSE LET c == after[n - 1] IN IF c < want THEN 2 * c ELSE c
  IN  after[want]

=============================================================================
