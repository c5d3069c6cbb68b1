-------------------------------- MODULE Blocks -------------------------------
(***************************************************************************)
(* How the data cache cuts files into blocks (src/cache/data.rs): the key  *)
(* of a block is its inode and the aligned offset it starts at.            *)
(***************************************************************************)
EXTENDS Naturals

CONSTANT BlockSize

ASSUME BlockSizeAssumption == BlockSize \in Nat \ {0}   \* Config::validate refuses 0

\* BlockKey::new aligns the offset to the block size.
BlockKey(i, offset) == <<i, (offset \div BlockSize) * BlockSize>>

\* Mutant: the end of the range is rounded down.
RangeKeysDown(i, offset, n) ==
  {<<i, b * BlockSize>> : b \in offset \div BlockSize .. ((offset + n) \div BlockSize) - 1}

\* From the block of the first byte to the block of the last one.
RangeKeys(i, offset, n) ==
  LET first == offset \div BlockSize
      end == (offset + n + BlockSize - 1) \div BlockSize
  IN {<<i, b * BlockSize>> : b \in first .. end - 1}
==============================================================================
