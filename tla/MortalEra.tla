------------------------------- MODULE MortalEra -------------------------------
(***************************************************************************)
(* The lifetime of a transaction that an off-chain worker signs.            *)
(* create_transaction of runtime/src/lib.rs computes a period from          *)
(* BlockHashCount and an era from the number of the worker's block; the     *)
(* encoding of eras (sp_runtime) and the window of block hashes             *)
(* (frame_system) are Substrate's.                                         *)
(*                                                                         *)
(* A signed transaction covers the hash of the block its era begins at.  A  *)
(* block that applies it works out that block's number again, from the era   *)
(* and its own number, and must still have the hash.                       *)
(***************************************************************************)
EXTENDS Integers

CONSTANTS
    BlockHashCount,     \* how many block hashes the runtime keeps (2400)
    BlockNumberBits     \* width of a BlockNumber (32)

ASSUME HashCountAssumption ==
    BlockHashCount \in Nat \ {0} /\ BlockNumberBits \in Nat \ {0}

NoPower == 0

\* checked_next_power_of_two: the least power of two from n on, NoPower if it does
\* not fit the width.
NextPowerOfTwo(n, bits) ==
    LET powers == {p \in {2^k : k \in 0 .. bits - 1} : p >= n}
    IN  IF powers = {} THEN NoPower ELSE CHOOSE p \in powers : \A q \in powers : p <= q

\* "take the biggest period possible."
Period ==
    LET c == NextPowerOfTwo(BlockHashCount, BlockNumberBits)
    IN  IF c = NoPower THEN 2 ELSE c \div 2

\* Mutant: the block to begin at left at its default.
FromGenesis(n) == 0

\* System::block_number() in the worker of block n is n.
CurrentBlock(n) == IF n = 0 THEN 0 ELSE n - 1

\* Era::mortal: the period becomes a power of two from 4 to 2^16, the phase loses
\* the bits that the encoding has no room for.
EraPeriod(period) ==
    LET p == NextPowerOfTwo(period, 17)
    IN  IF p = NoPower THEN 65536 ELSE IF p < 4 THEN 4 ELSE p

QuantizeFactor(period) == IF period < 8192 THEN 1 ELSE period \div 4096

Mortal(period, current) ==
    LET p == EraPeriod(period)
        f == QuantizeFactor(p)
    IN  [period |-> p, phase |-> ((current % p) \div f) * f]

\* Era::birth and Era::death, as seen in block v.
Birth(era, v) ==
    LET w == IF v > era.phase THEN v ELSE era.phase
    IN  ((w - era.phase) \div era.period) * era.period + era.phase

Death(era, v) == Birth(era, v) + era.period

\* What the runtime's constants have to satisfy: an era ends before the window of
\* hashes has passed its first block.
ASSUME PeriodAssumption == EraPeriod(Period) \in 1 .. BlockHashCount + 2

\* The era of what the worker of block n signs, and the block whose hash it signs.
EraOf(n) == Mortal(Period, CurrentBlock(n))
BirthOf(n) == Birth(EraOf(n), n)
DeathOf(n) == Death(EraOf(n), n)

\* The blocks whose hash the runtime has while it executes block v: the parent's was
\* added when v began, and each block's end removes the one BlockHashCount before
\* its parent; the genesis hash stays.
HashesIn(v) == {0} \cup {h \in Int : v - 1 - BlockHashCount <= h /\ h < v}

\* CheckEra in block v for a transaction signed by the worker of block n, on a chain
\* that contains block n: the same birth block, and a hash to compare.
EraAccepts(n, v) == Birth(EraOf(n), v) = BirthOf(n) /\ BirthOf(n) \in HashesIn(v)
===============================================================================
