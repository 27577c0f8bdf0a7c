----------------------------- MODULE Allocator -----------------------------
(***************************************************************************)
(* BlockAllocator of allocator.h: memory is cut from blocks, and a length  *)
(* word is kept in front of every region handed out.                       *)
(*                                                                         *)
(* An address is a block and an offset from the block's begin.  begin is a *)
(* multiple of 16: new uint8_t[] is aligned for any type, and              *)
(* sizeof(MemBlock) is 32 on the 64-bit platforms modelled here.           *)
(***************************************************************************)
EXTENDS Integers

CONSTANTS
  BlockSize,     \* block_size
  Isolation,     \* isolation_threshold
  Word,          \* sizeof(size_t)
  Sizes,         \* the sizes that callers ask for
  MaxBlocks      \* bound on the number of blocks a behaviour explores

ASSUME SizesAssumption == Sizes \subseteq Nat

ASSUME WordAssumption == Word \in Nat \ {0}

(* The constructor asserts isolation_threshold <= block_size.              *)
ASSUME ThresholdAssumption ==
  BlockSize \in Nat /\ Isolation \in Nat /\ Isolation <= BlockSize

ASSUME MaxBlocksAssumption == MaxBlocks \in Nat

VARIABLES
  n,         \* the number of blocks retained; they are numbered 1 .. n
  end,       \* per block: its size, i.e. the offset of end from begin
  head,      \* the block that regions are cut from; 0 for nullptr
  last,      \* head->last, as an offset
  regions    \* the regions handed out: block, offset, length

vars == <<n, end, head, last, regions>>

Region == [blk : Nat, at : Nat, len : Nat]

(* (x + 0xf) & ~0xf                                                        *)
Align(x) == ((x + 15) \div 16) * 16

Max2(a, b) == IF a < b THEN b ELSE a

Init ==
  /\ n = 0
  /\ end = [b \in {} |-> 0]
  /\ head = 0
  /\ last = 0
  /\ regions = {}

-----------------------------------------------------------------------------
(* alloc_mem_block(size): a new block, the last one in the numbering.      *)
alloc_mem_block(size) ==
  /\ n < MaxBlocks
  /\ n' = n + 1
  /\ end' = [b \in 1 .. n + 1 |-> IF b = n + 1 THEN size ELSE end[b]]

Hand(blk, at, len) == regions' = regions \cup {[blk |-> blk, at |-> at, len |-> len]}

(* size + sizeof(size_t) >= isolation_threshold: a block of its own.       *)
AllocIsolated(size) ==
  LET len == Max2(16, size)
  IN  /\ size + Word >= Isolation
      /\ alloc_mem_block(len + Word)
      /\ Hand(n + 1, Word, len)
      /\ UNCHANGED <<head, last>>

(* Variants stand for plausible mistakes; no specification uses them.      *)
(* Variant: the length word is forgotten in the test for room.             *)
RoomForBody(size) == head # 0 /\ end[head] - last >= size

(* The head block has room left for a region of this size.  last may lie   *)
(* beyond end (it is rounded up), the difference is signed.                *)
Room(size) == head # 0 /\ end[head] - last >= size + Word

(* Cut from a new head block.                                              *)
AllocNewHead(size) ==
  /\ size + Word < Isolation
  /\ ~Room(size)
  /\ alloc_mem_block(BlockSize)
  /\ head' = n + 1
  /\ Hand(n + 1, Word, size)
  /\ last' = Align(Word + size)

(* Variant: the region's length word is not counted when last moves on.    *)
AllocHeadShort(size) ==
  /\ size + Word < Isolation
  /\ Room(size)
  /\ Hand(head, last + Word, size)
  /\ last' = Align(last + size)
  /\ UNCHANGED <<n, end, head>>

(* Cut from the head block.                                                *)
AllocHead(size) ==
  /\ size + Word < Isolation
  /\ Room(size)
  /\ Hand(head, last + Word, size)
  /\ last' = Align(last + Word + size)
  /\ UNCHANGED <<n, end, head>>

alloc(size) == AllocIsolated(size) \/ AllocNewHead(size) \/ AllocHead(size)

(* realloc(ptr, size): a region that is too small is replaced by a larger  *)
(* one; it stays allocated itself.                                         *)
realloc(r, size) ==
  /\ size > r.len
  /\ alloc(Max2(size + 1, 2 * r.len))

(* reset(), also run by the destructor and by move assignment.             *)
reset ==
  /\ n' = 0
  /\ end' = [b \in {} |-> 0]
  /\ head' = 0
  /\ last' = 0
  /\ regions' = {}

Next ==
  \/ \E size \in Sizes : alloc(size)
  \/ \E r \in regions, size \in Sizes : realloc(r, size)
  \/ reset

Spec == Init /\ [][Next]_vars

-----------------------------------------------------------------------------
(* The variables have their types.                                         *)
TypeOK ==
  /\ n \in Nat
  /\ end \in [1 .. n -> Nat]
  /\ head \in 0 .. n
  /\ last \in Nat
  /\ regions \subseteq Region

(* Every region lies inside its block, its length word included: nothing   *)
(* BlockAllocator hands out reaches beyond a block's end, although last    *)
(* itself may.                                                             *)
InBounds ==
  \A r \in regions :
    /\ r.blk \in 1 .. n
    /\ Word <= r.at
    /\ r.at + r.len <= end[r.blk]

(* Regions do not overlap, length words included, so writing to one never  *)
(* changes another or the length that get_alloc_length would read.         *)
Disjoint ==
  \A r, q \in regions :
    r # q /\ r.blk = q.blk => \/ r.at + r.len <= q.at - Word
                              \/ q.at + q.len <= r.at - Word

(* The part that makes the others inductive: the regions cut from the head *)
(* block end at or before last.                                            *)
BelowLast == \A r \in regions : r.blk = head => r.at + r.len <= last

Inv == TypeOK /\ InBounds /\ Disjoint /\ BelowLast

=============================================================================
