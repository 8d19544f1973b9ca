------------------------------- MODULE BmHeap -------------------------------
(***************************************************************************)
(* The heap of the bare metal platform: every allocator of the platform    *)
(* layer ends in mem_alloc, which moves heap_base up and never down, for   *)
(* freeing a block does nothing.                                           *)
(***************************************************************************)
EXTENDS Integers

CONSTANTS
  HeapBase,   \* PLATFORM_HEAP_REGION_BASE
  HeapSize,   \* PLATFORM_HEAP_REGION_SIZE
  Uint32,     \* the values of uint32_t
  PLATFORM_PAGE_SIZE   \* and MEM_ALIGN_4K

ASSUME HeapAssumption ==
  /\ HeapBase \in Nat \ {0}
  /\ HeapSize \in Nat
  /\ Uint32 \in Nat \ {0}
  /\ PLATFORM_PAGE_SIZE \in Nat \ {0}

VARIABLES
  heap_base, heap_top, heap_init_done,
  gSharedMemory,
  held          \* the blocks handed out and not freed, with the bytes their callers asked for

heapVars == <<heap_base, heap_top, heap_init_done, gSharedMemory, held>>

NULL == 0
MEM_ALIGN_8 == 8

\* The bytes of a product computed in 32 bits.
Given(asked) == asked % Uint32

is_power_of_2(n) == n # 0 /\ \E k \in 0..30 : n = 2^k

\* Bug: the address is rounded down.
ADDR_ALIGN_Down(a, b) == a - (a % b)
ADDR_ALIGN(a, b) == (a + b - 1) - ((a + b - 1) % b)

heap_alloc(base, top, alignment, size) ==
  LET addr == ADDR_ALIGN(base, alignment)
      total == size + (addr - base)
  IN IF top - base < total THEN [addr |-> NULL, base |-> base] ELSE [addr |-> addr, base |-> base + total]

\* mem_alloc, with mem_alloc_init before the first block.
mem_alloc(alignment, size) ==
  LET base == IF heap_init_done THEN heap_base ELSE HeapBase
      top == IF heap_init_done THEN heap_top ELSE HeapBase + HeapSize
  IN IF size <= 0 \/ ~is_power_of_2(alignment) THEN [addr |-> NULL, base |-> base]
     ELSE heap_alloc(base, top, alignment, size + alignment - 1)

Allocate(alignment, asked, got) ==
  /\ heap_init_done' = TRUE
  /\ heap_top' = IF heap_init_done THEN heap_top ELSE HeapBase + HeapSize
  /\ heap_base' = got.base
  /\ held' = IF got.addr = NULL THEN held
               ELSE held \cup {[start |-> got.addr, alignment |-> alignment, asked |-> asked]}

\* What each allocator makes of its arguments. pal_mem_calloc also clears the
\* bytes given; pal_mem_alloc_cacheable asks as pal_mem_alloc does.
pal_aligned_alloc(alignment, asked) ==
  Allocate(alignment, asked, mem_alloc(alignment, Given(asked))) /\ UNCHANGED gSharedMemory
pal_mem_alloc(Size) == pal_aligned_alloc(MEM_ALIGN_8, Size)
pal_mem_calloc(num, Size) == pal_aligned_alloc(MEM_ALIGN_8, num * Size)
pal_mem_alloc_pages(NumPages) == pal_aligned_alloc(PLATFORM_PAGE_SIZE, NumPages * PLATFORM_PAGE_SIZE)
pal_mem_allocate_shared(num_hart, sizeofentry) ==
  LET got == mem_alloc(MEM_ALIGN_8, Given(num_hart * sizeofentry)) IN
    Allocate(MEM_ALIGN_8, num_hart * sizeofentry, got) /\ gSharedMemory' = got.addr

\* Every way to free a block ends here. The caller no longer owns the block,
\* the heap is as it was.
mem_free(b) ==
  /\ held' = held \ {b}
  /\ UNCHANGED <<heap_base, heap_top, heap_init_done, gSharedMemory>>

-----------------------------------------------------------------------------
HeapInit ==
  /\ heap_base = 0 /\ heap_top = 0 /\ heap_init_done = FALSE
  /\ gSharedMemory = NULL
  /\ held = {}

HeapNext(alignments, sizes) ==
  \/ \E a \in alignments, n \in sizes : pal_aligned_alloc(a, n)
  \/ \E n \in sizes : pal_mem_alloc(n)
  \/ \E n, m \in sizes : pal_mem_calloc(n, m)
  \/ \E n \in sizes : pal_mem_alloc_pages(n)
  \/ \E n, m \in sizes : pal_mem_allocate_shared(n, m)
  \/ \E b \in held : mem_free(b)

\* The blocks that callers hold are aligned as they asked, lie in the heap and
\* do not overlap, whatever was allocated and freed before, with any mix of
\* alignments and up to the last byte of the heap; a caller whose product of
\* number and size does not fit 32 bits holds less than it asked for.
BlocksAreApart ==
  \A b \in held : b.asked < Uint32 =>
    /\ \E q \in 0..b.start : b.start = q * b.alignment
    /\ b.start >= HeapBase /\ b.start + b.asked <= HeapBase + HeapSize
    /\ \A c \in held : (c.asked < Uint32 /\ c # b) =>
         b.start + b.asked <= c.start \/ c.start + c.asked <= b.start

HeapSpec == HeapInit /\ [][HeapNext(Nat, Nat)]_heapVars
=============================================================================
