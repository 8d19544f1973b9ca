--------------------------- MODULE PlatformProofs ---------------------------
(***************************************************************************)
(* What holds on every platform: the blocks of the bare metal heap never   *)
(* overlap, the harts have stacks of their own, and a wakeup test passes   *)
(* or fails for the reasons it should.                                     *)
(***************************************************************************)
EXTENDS BmHeap, Harts, Wakeup, TLAPS

USE SMTT(15), ZenonT(60)

(* The heap.                                                                *)

HeapTypeOK ==
  /\ heap_base \in Nat /\ heap_top \in Nat
  /\ heap_init_done \in BOOLEAN
  /\ held \subseteq [start : Nat, alignment : Nat, asked : Nat]

\* Every block, as long as it was given, ends at or below heap_base, where the
\* next one begins at the earliest.
HeapInv ==
  /\ HeapTypeOK
  /\ ~heap_init_done => held = {}
  /\ heap_init_done => heap_top = HeapBase + HeapSize /\ heap_base <= heap_top /\ HeapBase <= heap_base
  /\ \A b \in held :
       /\ \E q \in 0..b.start : b.start = q * b.alignment
       /\ HeapBase <= b.start /\ b.start + Given(b.asked) <= heap_base
       /\ Given(b.asked) > 0
       /\ \A c \in held : c # b => b.start + Given(b.asked) <= c.start \/ c.start + Given(c.asked) <= b.start

\* The bytes given are a number of 32 bits, and those asked for if these are.
LEMMA GivenIsAsked ==
  ASSUME NEW n \in Nat
  PROVE  Given(n) \in Nat /\ (n < Uint32 => Given(n) = n)
BY HeapAssumption DEF Given

\* Aligning an address moves it up by less than the alignment, to a multiple.
LEMMA AlignUp ==
  ASSUME NEW a \in Nat, NEW b \in Nat \ {0}
  PROVE  /\ ADDR_ALIGN(a, b) \in Nat
         /\ a <= ADDR_ALIGN(a, b) /\ ADDR_ALIGN(a, b) <= a + b - 1
         /\ \E q \in 0..ADDR_ALIGN(a, b) : ADDR_ALIGN(a, b) = q * b
<1> DEFINE x == a + b - 1
           q == x \div b
<1>1. x \in Nat /\ x % b \in 0..(b - 1)
  OBVIOUS
<1>2. q \in Nat /\ x = b * q + (x % b)
  OBVIOUS
<1>3. ADDR_ALIGN(a, b) = x - (x % b)
  BY DEF ADDR_ALIGN
<1>4. ADDR_ALIGN(a, b) = q * b /\ ADDR_ALIGN(a, b) \in Nat
  BY <1>1, <1>2, <1>3
<1>5. q * b >= q
  BY <1>2
<1> QED
  BY <1>1, <1>2, <1>3, <1>4, <1>5


\* What mem_alloc returns: no block, or an aligned one that starts at or above
\* the heap_base before it and ends at or below the one after it.
LEMMA AllocFits ==
  ASSUME HeapInv, NEW alignment \in Nat, NEW size \in Nat
  PROVE  LET got == mem_alloc(alignment, size)
             base == IF heap_init_done THEN heap_base ELSE HeapBase
         IN /\ got.base \in Nat /\ base <= got.base /\ got.base <= HeapBase + HeapSize
            /\ got.addr \in Nat
            /\ got.addr # NULL => /\ size > 0
                                  /\ base <= got.addr /\ got.addr + size <= got.base
                                  /\ \E q \in 0..got.addr : got.addr = q * alignment
<1> DEFINE got == mem_alloc(alignment, size)
           base == IF heap_init_done THEN heap_base ELSE HeapBase
           top == IF heap_init_done THEN heap_top ELSE HeapBase + HeapSize
           addr == ADDR_ALIGN(base, alignment)
           total == (size + alignment - 1) + (addr - base)
<1>1. base \in Nat /\ top = HeapBase + HeapSize /\ top \in Nat /\ base <= top
  BY HeapAssumption DEF HeapInv, HeapTypeOK
<1>2. CASE size <= 0 \/ ~is_power_of_2(alignment)
  BY <1>1, <1>2 DEF mem_alloc, NULL
<1>3. CASE ~(size <= 0 \/ ~is_power_of_2(alignment))
  <2>1. alignment \in Nat \ {0} /\ size > 0
    BY <1>3 DEF is_power_of_2
  <2>2. /\ addr \in Nat /\ base <= addr
        /\ \E q \in 0..addr : addr = q * alignment
    <3> HIDE DEF base
    <3> QED  BY <1>1, <2>1, AlignUp
  <2>3. got = IF top - base < total THEN [addr |-> NULL, base |-> base] ELSE [addr |-> addr, base |-> base + total]
    BY <1>3 DEF mem_alloc, heap_alloc
  <2> HIDE DEF base, top, addr, got
  <2>4. total \in Nat /\ addr + size <= base + total
    BY <1>1, <2>1, <2>2
  <2>5. CASE top - base < total
    <3>1. got.base = base /\ got.addr = NULL
      BY <2>3, <2>5
    <3> QED  BY <3>1, <1>1 DEF NULL, base, got
  <2>6. CASE ~(top - base < total)
    <3>1. got.base = base + total /\ got.addr = addr
      BY <2>3, <2>6
    <3>2. base + total <= top
      BY <2>4, <2>6, <1>1
    <3>3. /\ got.base \in Nat /\ base <= got.base /\ got.base <= HeapBase + HeapSize
          /\ got.addr \in Nat
          /\ base <= got.addr /\ got.addr + size <= got.base
      BY <3>1, <3>2, <1>1, <2>2, <2>4
    <3>4. \E q \in 0..got.addr : got.addr = q * alignment
      BY <3>1, <2>2
    <3> QED  BY <3>3, <3>4, <2>1, ZenonT(60) DEF base, got
  <2> QED  BY <2>5, <2>6, ZenonT(60)
<1> QED  BY <1>2, <1>3, ZenonT(60)

\* An allocation, by whichever of the allocators, keeps the invariant.
LEMMA AllocateKeeps ==
  ASSUME HeapInv, NEW alignment \in Nat, NEW asked \in Nat,
         Allocate(alignment, asked, mem_alloc(alignment, Given(asked)))
  PROVE  HeapInv'
<1> DEFINE got == mem_alloc(alignment, Given(asked))
           base == IF heap_init_done THEN heap_base ELSE HeapBase
           new == [start |-> got.addr, alignment |-> alignment, asked |-> asked]
<1>1. Given(asked) \in Nat
  BY GivenIsAsked
<1>2. /\ got.base \in Nat /\ base <= got.base /\ got.base <= HeapBase + HeapSize
      /\ got.addr \in Nat
      /\ got.addr # NULL => /\ Given(asked) > 0
                            /\ base <= got.addr /\ got.addr + Given(asked) <= got.base
                            /\ \E q \in 0..got.addr : got.addr = q * alignment
  BY <1>1, AllocFits, ZenonT(60)
<1>3. /\ heap_init_done' = TRUE
      /\ heap_base' = got.base
      /\ held' = IF got.addr = NULL THEN held ELSE held \cup {new}
      /\ heap_top' = HeapBase + HeapSize
  BY ZenonT(60) DEF Allocate, HeapInv
<1> HIDE DEF got
<1>4. base \in Nat /\ HeapBase <= base
  BY HeapAssumption DEF HeapInv, HeapTypeOK
<1>5. HeapTypeOK'
  BY <1>2, <1>3, HeapAssumption DEF HeapInv, HeapTypeOK
<1>6. \A b \in held : /\ b.start \in Nat /\ Given(b.asked) \in Nat
                        /\ \E q \in 0..b.start : b.start = q * b.alignment
                        /\ HeapBase <= b.start /\ b.start + Given(b.asked) <= base
                        /\ Given(b.asked) > 0
                        /\ \A c \in held : c # b => b.start + Given(b.asked) <= c.start \/ c.start + Given(c.asked) <= b.start
  BY GivenIsAsked DEF HeapInv, HeapTypeOK
<1> HIDE DEF base
<1>7. CASE got.addr = NULL
  <2>1. held' = held
    BY <1>3, <1>7
  <2>2. \A b \in held : b.start + Given(b.asked) <= heap_base'
    BY <1>2, <1>3, <1>4, <1>6
  <2> QED  BY <2>1, <2>2, <1>2, <1>3, <1>4, <1>5, <1>6, HeapAssumption DEF HeapInv, Given
<1>8. CASE got.addr # NULL
  <2> HIDE DEF new
  <2>0. new.start = got.addr /\ new.alignment = alignment /\ new.asked = asked
    BY DEF new
  <2>1. held' = held \cup {new}
    BY <1>3, <1>8
  <2>2. \A b \in held' : /\ \E q \in 0..b.start : b.start = q * b.alignment
                           /\ HeapBase <= b.start /\ b.start + Given(b.asked) <= heap_base'
                           /\ Given(b.asked) > 0
    <3>1. ASSUME NEW b \in held
          PROVE  HeapBase <= b.start /\ b.start + Given(b.asked) <= heap_base'
      BY <1>2, <1>3, <1>4, <1>6, HeapAssumption
    <3>2. HeapBase <= new.start /\ new.start + Given(new.asked) <= heap_base' /\ Given(new.asked) > 0
      BY <2>0, <1>1, <1>2, <1>3, <1>4, <1>8, HeapAssumption
    <3>3. \E q \in 0..new.start : new.start = q * new.alignment
      BY <2>0, <1>2, <1>8
    <3> QED  BY <2>1, <3>1, <3>2, <3>3, <1>6, ZenonT(60)
  <2>3. ASSUME NEW b \in held', NEW c \in held', c # b
        PROVE  b.start + Given(b.asked) <= c.start \/ c.start + Given(c.asked) <= b.start
    <3>1. CASE b \in held /\ c \in held
      BY <3>1, <2>3, <1>6
    <3>2. CASE b = new /\ c \in held
      <4>1. c.start + Given(c.asked) <= base /\ base <= new.start /\ c.start \in Nat /\ Given(c.asked) \in Nat
        BY <3>2, <1>6, <1>2, <1>8, <2>0, ZenonT(60)
      <4> QED  BY <4>1, <3>2, <1>4, <2>0, <1>2
    <3>3. CASE c = new /\ b \in held
      <4>1. b.start + Given(b.asked) <= base /\ base <= new.start /\ b.start \in Nat /\ Given(b.asked) \in Nat
        BY <3>3, <1>6, <1>2, <1>8, <2>0, ZenonT(60)
      <4> QED  BY <4>1, <3>3, <1>4, <2>0, <1>2
    <3> QED  BY <3>1, <3>2, <3>3, <2>1, <2>3, ZenonT(60)
  <2>4. HeapBase <= heap_base' /\ heap_base' <= heap_top'
    BY <1>2, <1>3, <1>4, HeapAssumption
  <2> QED  BY <2>2, <2>3, <2>4, <1>3, <1>5, ZenonT(60) DEF HeapInv, Given
<1> QED  BY <1>7, <1>8

\* Every step of the heap keeps the invariant.
LEMMA HeapStep ==
  HeapInv /\ [HeapNext(Nat, Nat)]_heapVars => HeapInv'
<1> SUFFICES ASSUME HeapInv, [HeapNext(Nat, Nat)]_heapVars
             PROVE  HeapInv'
  OBVIOUS
<1>0. MEM_ALIGN_8 \in Nat /\ PLATFORM_PAGE_SIZE \in Nat
  BY HeapAssumption DEF MEM_ALIGN_8
<1>1. ASSUME NEW a \in Nat, NEW n \in Nat, pal_aligned_alloc(a, n)
      PROVE  HeapInv'
  BY <1>1, AllocateKeeps DEF pal_aligned_alloc
<1>2. ASSUME NEW n \in Nat, pal_mem_alloc(n)
      PROVE  HeapInv'
  BY <1>0, <1>1, <1>2 DEF pal_mem_alloc
<1>3. ASSUME NEW n \in Nat, NEW m \in Nat, pal_mem_calloc(n, m)
      PROVE  HeapInv'
  <2>1. n * m \in Nat
    OBVIOUS
  <2> QED  BY <2>1, <1>0, <1>1, <1>3 DEF pal_mem_calloc
<1>4. ASSUME NEW n \in Nat, pal_mem_alloc_pages(n)
      PROVE  HeapInv'
  <2>1. n * PLATFORM_PAGE_SIZE \in Nat
    BY <1>0
  <2> QED  BY <2>1, <1>0, <1>1, <1>4 DEF pal_mem_alloc_pages
<1>5. ASSUME NEW n \in Nat, NEW m \in Nat, pal_mem_allocate_shared(n, m)
      PROVE  HeapInv'
  <2>1. n * m \in Nat
    OBVIOUS
  <2> QED  BY <2>1, <1>0, <1>5, AllocateKeeps DEF pal_mem_allocate_shared
<1>6. ASSUME NEW b \in held, mem_free(b)
      PROVE  HeapInv'
  BY <1>6, ZenonT(60) DEF mem_free, HeapInv, HeapTypeOK, Given
<1>7. CASE UNCHANGED heapVars
  BY <1>7, ZenonT(60) DEF heapVars, HeapInv, HeapTypeOK, Given
<1> QED  BY <1>1, <1>2, <1>3, <1>4, <1>5, <1>6, <1>7, ZenonT(60) DEF HeapNext

\* The blocks callers hold are aligned, inside the heap and apart in every
\* state of the heap of pal_bm_misc.c, for every heap and every width.
THEOREM HeapBlocksApart == HeapSpec => []BlocksAreApart
<1>1. HeapInit => HeapInv
  <2> SUFFICES ASSUME HeapInit PROVE HeapInv
    OBVIOUS
  <2>1. heap_base \in Nat /\ heap_top \in Nat
    BY DEF HeapInit
  <2>2. heap_init_done = FALSE /\ held = {}
    BY DEF HeapInit
  <2> QED  BY <2>1, <2>2, Zenon DEF HeapInv, HeapTypeOK
<1>2. HeapInv => BlocksAreApart
  <2> SUFFICES ASSUME HeapInv, NEW b \in held, b.asked < Uint32
               PROVE  /\ \E q \in 0..b.start : b.start = q * b.alignment
                      /\ b.start >= HeapBase /\ b.start + b.asked <= HeapBase + HeapSize
                      /\ \A c \in held : (c.asked < Uint32 /\ c # b) =>
                           b.start + b.asked <= c.start \/ c.start + c.asked <= b.start
    BY DEF BlocksAreApart
  <2>1. \A c \in held : c.start \in Nat /\ c.asked \in Nat /\ (c.asked < Uint32 => Given(c.asked) = c.asked)
    BY GivenIsAsked DEF HeapInv, HeapTypeOK
  <2>2. /\ heap_init_done /\ heap_top = HeapBase + HeapSize /\ heap_base <= heap_top
        /\ heap_base \in Nat /\ heap_top \in Nat
    BY DEF HeapInv, HeapTypeOK
  <2>3. b.start >= HeapBase /\ b.start + b.asked <= HeapBase + HeapSize
    BY <2>1, <2>2, HeapAssumption DEF HeapInv
  <2> QED  BY <2>1, <2>3 DEF HeapInv
<1> QED  BY <1>1, <1>2, HeapStep, PTL DEF HeapSpec
-----------------------------------------------------------------------------
(* The positions of the harts.                                              *)

Affinities == [1..4 -> Nat]
Below(aff, max) == \A f \in 1..4 : aff[f] <= max[f]

\* A digit and the digits below it: the number stays below the product of the
\* radices.
LEMMA DigitBound ==
  ASSUME NEW d \in Nat, NEW m \in Nat, d <= m,
         NEW r \in Nat, NEW R \in Nat, r < R
  PROVE  r + d * R \in Nat /\ r + d * R < (m + 1) * R
<1>1. d * R <= m * R
  <2>1. (m - d) * R >= 0 /\ (m - d) * R = m * R - d * R
    OBVIOUS
  <2> QED  BY <2>1
<1>2. (m + 1) * R = m * R + R
  OBVIOUS
<1>3. d * R \in Nat /\ m * R \in Nat
  OBVIOUS
<1> QED  BY <1>1, <1>2, <1>3

\* A number determines its highest digit and the rest.
LEMMA DigitUnique ==
  ASSUME NEW d \in Nat, NEW e \in Nat, NEW R \in Nat,
         NEW r \in Nat, r < R, NEW s \in Nat, s < R,
         r + d * R = s + e * R
  PROVE  d = e /\ r = s
<1>1. ASSUME NEW x \in Nat, NEW y \in Nat, x < y
      PROVE  x * R + R <= y * R
  <2>1. (y - x - 1) * R >= 0 /\ (y - x - 1) * R = y * R - x * R - R
    BY <1>1
  <2>2. x * R \in Nat /\ y * R \in Nat
    OBVIOUS
  <2> QED  BY <2>1, <2>2
<1>2. d * R \in Nat /\ e * R \in Nat
  OBVIOUS
<1>3. ~(d < e)
  BY <1>1, <1>2
<1>4. ~(e < d)
  BY <1>1, <1>2
<1> QED  BY <1>3, <1>4, <1>2

\* Equal numbers with this radix have equal digits.
SameDigit(d, e, R, r, s) == r + d * R = s + e * R => d = e /\ r = s

\* DigitUnique, with its conclusion under a name the provers can match.
LEMMA SameDigits ==
  \A d, e, R, r, s \in Nat : r < R /\ s < R => SameDigit(d, e, R, r, s)
BY DigitUnique DEF SameDigit

\* The radices of the positions, and a position as its four digits.
LEMMA PositionDigits ==
  ASSUME NEW aff \in Affinities, NEW max \in Affinities, Below(aff, max)
  PROVE  LET R1 == max[4] + 1
             R2 == (max[3] + 1) * R1
             R3 == (max[2] + 1) * R2
             low == aff[4] + aff[3] * R1
             mid == low + aff[2] * R2
         IN /\ R1 \in Nat /\ R2 \in Nat /\ R3 \in Nat
            /\ aff[4] \in Nat /\ aff[4] < R1
            /\ low \in Nat /\ low < R2
            /\ mid \in Nat /\ mid < R3
            /\ CorePos(aff, max) = mid + aff[1] * R3
            /\ CorePos(aff, max) \in Nat
            /\ CorePos(aff, max) < PalAllocateSecondaryStack(max)
<1> DEFINE R1 == max[4] + 1
           R2 == (max[3] + 1) * R1
           R3 == (max[2] + 1) * R2
           low == aff[4] + aff[3] * R1
           mid == low + aff[2] * R2
<1>1. /\ \A f \in 1..4 : aff[f] \in Nat /\ max[f] \in Nat /\ aff[f] <= max[f]
      /\ 1 \in 1..4 /\ 2 \in 1..4 /\ 3 \in 1..4 /\ 4 \in 1..4
  BY DEF Affinities, Below
<1>2. R1 \in Nat /\ aff[4] < R1 /\ aff[4] \in Nat
  BY <1>1
<1>3. R2 \in Nat /\ low \in Nat /\ low < R2
  <2> HIDE DEF R1
  <2>1. (max[3] + 1) * R1 \in Nat
    BY <1>1, <1>2
  <2> QED  BY <2>1, <1>1, <1>2, DigitBound
<1>4. R3 \in Nat /\ mid \in Nat /\ mid < R3
  <2> HIDE DEF R1, R2, low
  <2>1. (max[2] + 1) * R2 \in Nat
    BY <1>1, <1>3
  <2> QED  BY <2>1, <1>1, <1>3, DigitBound, ZenonT(60)
<1>5. mid + aff[1] * R3 \in Nat /\ mid + aff[1] * R3 < (max[1] + 1) * R3
  <2> HIDE DEF R3, mid
  <2> QED  BY <1>1, <1>4, DigitBound
<1>6. CorePos(aff, max) = mid + aff[1] * R3
  <2>1. \A a, b, c, x, y \in Nat : x * a * b = x * (b * a) /\ y * a * b * c = y * (c * (b * a))
    OBVIOUS
  <2>2. max[4] + 1 \in Nat /\ max[3] + 1 \in Nat /\ max[2] + 1 \in Nat /\ aff[1] \in Nat /\ aff[2] \in Nat
    BY <1>1
  <2>3. /\ aff[2] * (max[4] + 1) * (max[3] + 1) = aff[2] * R2
        /\ aff[1] * (max[4] + 1) * (max[3] + 1) * (max[2] + 1) = aff[1] * R3
    BY <2>1, <2>2
  <2> QED  BY <2>3 DEF CorePos
<1>7. PalAllocateSecondaryStack(max) = (max[1] + 1) * R3
  <2>1. ASSUME NEW a \in Nat, NEW b \in Nat, NEW c \in Nat, NEW d \in Nat
        PROVE  a * b * c * d = a * (b * (c * d))
    OBVIOUS
  <2> QED  BY <2>1, <1>1 DEF PalAllocateSecondaryStack
<1> HIDE DEF R1, R2, R3, low, mid
<1>8. CorePos(aff, max) \in Nat /\ CorePos(aff, max) < PalAllocateSecondaryStack(max)
  BY <1>5, <1>6, <1>7
<1> QED  BY <1>2, <1>3, <1>4, <1>6, <1>8, ZenonT(60) DEF R1, R2, R3, low, mid

\* Whatever the affinities, no two harts compute the same position at
\* ModuleEntryPoint, and every position is one of those the memory of
\* PalAllocateSecondaryStack was allocated for.
THEOREM PositionsAreApart ==
  \A max \in Affinities, g, h \in Affinities :
    Below(g, max) /\ Below(h, max) =>
      /\ CorePos(g, max) \in 0..(PalAllocateSecondaryStack(max) - 1)
      /\ g # h => CorePos(g, max) # CorePos(h, max)
<1> SUFFICES ASSUME NEW max \in Affinities, NEW g \in Affinities, NEW h \in Affinities,
                    Below(g, max), Below(h, max)
             PROVE  /\ CorePos(g, max) \in 0..(PalAllocateSecondaryStack(max) - 1)
                    /\ CorePos(g, max) = CorePos(h, max) => g = h
  OBVIOUS
<1> DEFINE R1 == max[4] + 1
           R2 == (max[3] + 1) * R1
           R3 == (max[2] + 1) * R2
           low(a) == a[4] + a[3] * R1
           mid(a) == low(a) + a[2] * R2
<1>1. \A a \in {g, h} : /\ a[4] \in Nat /\ a[4] < R1
                        /\ low(a) \in Nat /\ low(a) < R2
                        /\ mid(a) \in Nat /\ mid(a) < R3
                        /\ CorePos(a, max) = mid(a) + a[1] * R3
                        /\ CorePos(a, max) \in Nat
                        /\ CorePos(a, max) < PalAllocateSecondaryStack(max)
  BY PositionDigits, ZenonT(60)
<1>2. R1 \in Nat /\ R2 \in Nat /\ R3 \in Nat
  BY PositionDigits, ZenonT(60)
<1>3. \A a \in {g, h} : a[1] \in Nat /\ a[2] \in Nat /\ a[3] \in Nat /\ a[4] \in Nat
  BY DEF Affinities
<1>4. CorePos(g, max) \in 0..(PalAllocateSecondaryStack(max) - 1)
  <2>1. PalAllocateSecondaryStack(max) \in Int
    <3>1. \A f \in 1..4 : max[f] + 1 \in Nat
      BY DEF Affinities
    <3>2. (max[1] + 1) * (max[2] + 1) * (max[3] + 1) * (max[4] + 1) \in Nat
      BY <3>1
    <3> QED  BY <3>2 DEF PalAllocateSecondaryStack
  <2> QED  BY <2>1, <1>1
<1>5. ASSUME CorePos(g, max) = CorePos(h, max)
      PROVE  g = h
  <2>1. g[1] = h[1] /\ mid(g) = mid(h)
    <3> HIDE DEF R3, mid
    <3>1. mid(g) + g[1] * R3 = mid(h) + h[1] * R3
      BY <1>1, <1>5, ZenonT(60)
    <3>2. /\ mid(g) \in Nat /\ mid(g) < R3 /\ mid(h) \in Nat /\ mid(h) < R3
          /\ g[1] \in Nat /\ h[1] \in Nat /\ R3 \in Nat
      BY <1>1, <1>2, <1>3, ZenonT(60)
    <3>3. SameDigit(g[1], h[1], R3, mid(g), mid(h))
      BY <3>2, SameDigits, ZenonT(60)
    <3> QED  BY <3>1, <3>3 DEF SameDigit
  <2>2. g[2] = h[2] /\ low(g) = low(h)
    <3>1. low(g) + g[2] * R2 = low(h) + h[2] * R2
      BY <2>1
    <3> HIDE DEF R2, low, mid
    <3>2. /\ low(g) \in Nat /\ low(g) < R2 /\ low(h) \in Nat /\ low(h) < R2
          /\ g[2] \in Nat /\ h[2] \in Nat /\ R2 \in Nat
      BY <1>1, <1>2, <1>3, ZenonT(60)
    <3>3. SameDigit(g[2], h[2], R2, low(g), low(h))
      BY <3>2, SameDigits, ZenonT(60)
    <3> QED  BY <3>1, <3>3 DEF SameDigit
  <2>3. g[3] = h[3] /\ g[4] = h[4]
    <3>1. g[4] + g[3] * R1 = h[4] + h[3] * R1
      BY <2>2
    <3> HIDE DEF R1, R2, R3, low, mid
    <3>2. /\ g[4] \in Nat /\ g[4] < R1 /\ h[4] \in Nat /\ h[4] < R1
          /\ g[3] \in Nat /\ h[3] \in Nat /\ R1 \in Nat
      BY <1>1, <1>2, <1>3, ZenonT(60)
    <3>3. SameDigit(g[3], h[3], R1, g[4], h[4])
      BY <3>2, SameDigits, ZenonT(60)
    <3> QED  BY <3>1, <3>3 DEF SameDigit
  <2>4. \A f \in 1..4 : g[f] = h[f]
    BY <2>1, <2>2, <2>3
  <2> QED  BY <2>4 DEF Affinities
<1> QED  BY <1>4, <1>5

-----------------------------------------------------------------------------
(* The wakeup tests.                                                       *)

WakePcs == {"begin", "payload", "loop", "access", "install", "failsafe", "arm", "flags", "wfi", "asleep",
            "woken", "check"}

WakeState ==
  [test : 1..Checked, pc : WakePcs, source : Sources \cup {"none"}, timer_num : Int, ns : BOOLEAN,
   phy_isr : {"none", "isr1", "failsafe"}, g_wd_int_received : BOOLEAN,
   g_failsafe_int_received : BOOLEAN, others : BOOLEAN]

WakeTypeInv ==
  /\ hw \in Hardware
  /\ wk \in WakeState
  /\ armed \subseteq Sources /\ fired \subseteq Sources
  /\ DOMAIN verdicts = 1..5

\* From the choice of a device to the end of its sleep.
Trying == {"access", "install", "failsafe", "arm", "flags", "wfi", "asleep", "woken"}
Counting == {"flags", "wfi", "asleep"}

\* Which device a step is about.
PlaceInv ==
  /\ wk.test = Checked => wk.pc = "begin"
  /\ wk.pc \in {"loop", "access", "install", "flags"} => wk.test \in 4..5
  /\ wk.pc = "flags" => wk.test = 4
  /\ wk.pc = "failsafe" => wk.test # 1
  /\ wk.pc = "loop" => wk.timer_num \in 0..2
  /\ wk.pc \in Trying =>
       /\ wk.test = 1 => wk.source = "phy"
       /\ wk.test = 2 => wk.source = "vir"
       /\ wk.test = 3 => wk.source = "el2"
       /\ wk.test = 4 => wk.timer_num \in 0..1 /\ wk.source = Wds[wk.timer_num + 1]
       /\ wk.test = 5 => wk.timer_num \in 0..1 /\ wk.source = Sys[wk.timer_num + 1]

\* Who handles the EL1 timer, and when it runs: in its own test, as the
\* failsafe of a sleep, or left over by a watchdog that could not be armed.
PhyInv ==
  /\ wk.pc \in {"arm", "flags", "wfi", "asleep", "woken"} =>
       wk.phy_isr = IF wk.test = 1 THEN "isr1" ELSE "failsafe"
  /\ "phy" \in armed =>
       \/ wk.test = 1 /\ wk.pc \in {"wfi", "asleep"}
       \/ /\ wk.phy_isr = "failsafe"
          /\ \/ wk.test \in 2..5 /\ wk.pc \in {"arm", "flags", "wfi", "asleep", "woken"}
             \/ WdTooLong(Timeout) /\ ((wk.test = 4 /\ wk.pc = "check") \/ wk.test \in 5..Checked)

\* Another working source runs only between its start and the end of the sleep,
\* and has not expired before unless it is early.
LiveInv ==
  /\ \A s \in Live \ {"phy"} : s = wk.source /\ wk.test \in 2..5 /\ wk.pc \in Counting
  /\ wk.pc \in Counting => wk.source \in armed \cup hw.early

\* The reasons for which a test may fail.
Excused(t, source) ==
  \/ source \notin hw.live \/ source \in hw.refused \cup hw.early
  \/ t \in 4..5 /\ WdTooLong(Timeout)

\* The result is that of the device tried last once it has ended the sleep.
ResultInv ==
  /\ wk.pc \in {"woken", "check", "loop"} =>
       /\ status = "PASS" => wk.source \in fired
       /\ status = "FAIL" => Excused(wk.test, wk.source)
  /\ wk.pc = "payload" => /\ status # "PASS"
                          /\ status = "FAIL" => wk.test = 5 /\ WdTooLong(Timeout)
  /\ wk.pc = "woken" /\ wk.test = 4 => wk.g_wd_int_received \/ wk.g_failsafe_int_received

WakeInv ==
  /\ WakeTypeInv /\ PlaceInv /\ WakeupVerdicts
  /\ ~wk.others => PhyInv /\ LiveInv /\ ResultInv

\* A step that checks no test keeps the verdicts.
LEMMA VerdictsKept ==
  ASSUME WakeInv, hw' = hw, verdicts' = verdicts, wk.others => wk'.others
  PROVE  WakeupVerdicts'
<1>1. WdTooLong(Timeout)' = WdTooLong(Timeout)
  BY DEF WdTooLong
<1> QED  BY <1>1, ZenonT(60) DEF WakeInv, WakeupVerdicts

LEMMA DeviceFacts ==
  /\ \A n \in 0..1 : val_wd_get_info(n) = Wds[n + 1] /\ val_timer_get_info(n) = Sys[n + 1]
  /\ Wds[1] = "wd0" /\ Wds[2] = "wd1" /\ Sys[1] = "sys0" /\ Sys[2] = "sys1"
  /\ \A n \in 0..1 : Wds[n + 1] \in {"wd0", "wd1"} /\ Sys[n + 1] \in {"sys0", "sys1"}
  /\ \A n \in 0..1 : Wds[n + 1] \in Sources /\ Sys[n + 1] \in Sources
<1>1. Wds[1] = "wd0" /\ Wds[2] = "wd1" /\ Sys[1] = "sys0" /\ Sys[2] = "sys1"
  BY DEF Wds, Sys
<1>2. \A n \in 0..1 : n = 0 \/ n = 1
  OBVIOUS
<1>3. 0 + 1 = 1 /\ 1 + 1 = 2
  OBVIOUS
<1> QED  BY <1>1, <1>2, <1>3 DEF val_wd_get_info, val_timer_get_info, Sources

\* The steps of a payload before a device is started, and those that only
\* move on: nothing is armed and no handler runs.
LEMMA TimerPayload ==
  ASSUME WakeInv, In({"payload"}), payload_timer, UNCHANGED fired, Kept
  PROVE  WakeInv'
<1> DEFINE source == <<"phy", "vir", "el2">>[wk.test]
<1>1. /\ wk.pc = "payload" /\ wk.test \in 1..3 /\ hw' = hw /\ armed' = armed /\ fired' = fired
      /\ verdicts' = verdicts /\ WakeTypeInv /\ PlaceInv
  BY DEF In, payload_timer, Kept, WakeInv
<1>2. /\ wk.test = 1 => source = "phy"
      /\ wk.test = 2 => source = "vir"
      /\ wk.test = 3 => source = "el2"
      /\ source \in Sources
  BY <1>1 DEF Sources
<1>3. /\ wk' = [wk EXCEPT !.source = source,
                          !.phy_isr = IF wk.test = 1 /\ "phy" \notin hw.refused THEN "isr1" ELSE @,
                          !.pc = IF source \in hw.refused THEN "check"
                                 ELSE IF wk.test = 1 THEN "arm" ELSE "failsafe"]
      /\ status' = "FAIL"
  BY DEF payload_timer, val_set_status
<1> HIDE DEF source
<1>4. /\ wk'.test = wk.test /\ wk'.source = source /\ wk'.others = wk.others /\ wk'.timer_num = wk.timer_num
      /\ wk'.pc = IF source \in hw.refused THEN "check" ELSE IF wk.test = 1 THEN "arm" ELSE "failsafe"
      /\ wk'.phy_isr = IF wk.test = 1 /\ "phy" \notin hw.refused THEN "isr1" ELSE wk.phy_isr
  BY <1>1, <1>3 DEF WakeTypeInv, WakeState
<1>5. WakeTypeInv'
  BY <1>1, <1>2, <1>3, ZenonT(30) DEF WakeTypeInv, WakeState, WakePcs
<1>6. PlaceInv'
  BY <1>1, <1>2, <1>4 DEF PlaceInv, Checked
<1>7. WakeupVerdicts'
  BY <1>1, <1>4, VerdictsKept
<1>8. ASSUME ~wk.others PROVE PhyInv' /\ LiveInv' /\ ResultInv'
  <2>1. PhyInv /\ LiveInv /\ ResultInv
    BY <1>8 DEF WakeInv
  <2>2. "phy" \notin armed
    BY <1>1, <2>1 DEF PhyInv, Checked
  <2>3. PhyInv'
    BY <1>1, <1>2, <1>4, <2>2, ZenonT(60) DEF PhyInv
  <2>4. Live \ {"phy"} = {} /\ Live' = Live
    BY <1>1, <2>1 DEF LiveInv, Live, Counting
  <2>5. LiveInv'
    BY <1>4, <2>4 DEF LiveInv, Counting
  <2>6. ResultInv'
    BY <1>1, <1>3, <1>4 DEF ResultInv, Excused
  <2> QED  BY <2>3, <2>5, <2>6
<1> QED  BY <1>4, <1>5, <1>6, <1>7, <1>8, ZenonT(60) DEF WakeInv

\* A step of payload4 or payload5 that starts nothing.
LEMMA QuietStep ==
  ASSUME WakeInv, hw' = hw, verdicts' = verdicts, fired' = fired, armed' = armed,
         WakeTypeInv', PlaceInv',
         wk.pc \in {"payload", "loop", "access", "install"},
         wk'.pc \in {"loop", "access", "install", "failsafe", "check"},
         wk'.test = wk.test, wk'.others = wk.others, wk'.phy_isr = wk.phy_isr,
         (~wk.others /\ wk'.pc \in {"check", "loop"}) =>
            /\ status' = "PASS" => wk'.source \in fired
            /\ status' = "FAIL" => Excused(wk.test, wk'.source)
  PROVE  WakeInv'
<1>1. WakeupVerdicts'
  BY VerdictsKept
<1>2. WdTooLong(Timeout)' = WdTooLong(Timeout)
  BY DEF WdTooLong
<1>3. ASSUME ~wk.others PROVE PhyInv' /\ LiveInv' /\ ResultInv'
  <2>1. PhyInv /\ LiveInv /\ ResultInv
    BY <1>3 DEF WakeInv
  <2>2. PhyInv'
    BY <1>2, <2>1, ZenonT(60) DEF PhyInv
  <2>3. Live \ {"phy"} = {} /\ Live' = Live
    BY <2>1 DEF LiveInv, Live, Counting
  <2>4. LiveInv'
    BY <2>3 DEF LiveInv, Counting
  <2>5. ResultInv'
    BY <1>2, <1>3, ZenonT(60) DEF ResultInv, Excused
  <2> QED  BY <2>2, <2>4, <2>5
<1> QED  BY <1>1, <1>3 DEF WakeInv

LEMMA CountPayload ==
  ASSUME WakeInv, In({"payload"}), NEW count \in 0..2, payload_count(count), wk.test \in 4..5, UNCHANGED fired, Kept
  PROVE  WakeInv'
<1>1. /\ wk.pc = "payload" /\ hw' = hw /\ armed' = armed /\ fired' = fired /\ verdicts' = verdicts
      /\ WakeTypeInv /\ PlaceInv
      /\ wk' = [wk EXCEPT !.timer_num = count, !.ns = FALSE, !.pc = IF count = 0 THEN "check" ELSE "loop"]
      /\ status' = IF count = 0 THEN "SKIP" ELSE status
  BY DEF In, payload_count, Kept, WakeInv, val_set_status
<1>2. /\ wk'.test = wk.test /\ wk'.others = wk.others /\ wk'.phy_isr = wk.phy_isr /\ wk'.timer_num = count
      /\ wk'.pc = IF count = 0 THEN "check" ELSE "loop"
  BY <1>1 DEF WakeTypeInv, WakeState
<1>3. WakeTypeInv'
  <2>1. count \in Int
    OBVIOUS
  <2> QED  BY <1>1, <2>1, ZenonT(30) DEF WakeTypeInv, WakeState, WakePcs
<1>4. PlaceInv'
  BY <1>1, <1>2 DEF PlaceInv, Checked, Trying
<1>5. ASSUME ~wk.others
      PROVE  status' # "PASS" /\ (status' = "FAIL" => \A s : Excused(wk.test, s))
  BY <1>1, <1>5 DEF WakeInv, ResultInv, Excused
<1> QED  BY <1>1, <1>2, <1>3, <1>4, <1>5, QuietStep, ZenonT(60)

LEMMA LoopPayload ==
  ASSUME WakeInv, In({"loop"}), payload_loop, UNCHANGED fired, Kept
  PROVE  WakeInv'
<1> DEFINE n == wk.timer_num - 1
           device == IF wk.test = 4 THEN val_wd_get_info(n) ELSE val_timer_get_info(n)
<1>1. /\ wk.pc = "loop" /\ hw' = hw /\ armed' = armed /\ fired' = fired /\ verdicts' = verdicts
      /\ WakeTypeInv /\ PlaceInv
  BY DEF In, payload_loop, Kept, WakeInv
<1>2. wk.test \in 4..5 /\ wk.timer_num \in 0..2 /\ n \in -1..1
  BY <1>1 DEF PlaceInv
<1>3. ASSUME ~wk.others
      PROVE  /\ status = "PASS" => wk.source \in fired
             /\ status = "FAIL" => Excused(wk.test, wk.source)
  BY <1>1, <1>3 DEF WakeInv, ResultInv
<1>4. CASE n = -1
  <2>1. wk' = [wk EXCEPT !.timer_num = -1, !.pc = "check"] /\ status' \in {status, "SKIP"}
    BY <1>4 DEF payload_loop, val_set_status
  <2>2. /\ wk'.test = wk.test /\ wk'.others = wk.others /\ wk'.phy_isr = wk.phy_isr /\ wk'.source = wk.source
        /\ wk'.pc = "check"
    BY <1>1, <2>1 DEF WakeTypeInv, WakeState
  <2>3. WakeTypeInv'
    <3>1. -1 \in Int
      OBVIOUS
    <3> QED  BY <1>1, <2>1, <3>1, ZenonT(30) DEF WakeTypeInv, WakeState, WakePcs
  <2>4. PlaceInv'
    BY <1>2, <2>2 DEF PlaceInv, Checked, Trying
  <2> QED  BY <1>1, <1>3, <2>1, <2>2, <2>3, <2>4, QuietStep, ZenonT(60)
<1>5. CASE n # -1
  <2>1. n \in 0..1
    BY <1>2, <1>5
  <2>2. /\ status' = status
        /\ wk' = IF device \in hw.secure THEN [wk EXCEPT !.timer_num = n]
                 ELSE [wk EXCEPT !.timer_num = n, !.ns = TRUE, !.source = device,
                                 !.pc = IF wk.test = 4 THEN "install" ELSE "access"]
    BY <1>5 DEF payload_loop
  <2>3. device = (IF wk.test = 4 THEN Wds[n + 1] ELSE Sys[n + 1]) /\ device \in Sources
    BY <2>1, DeviceFacts, ZenonT(60)
  <2>4. n \in Int
    BY <1>2
  <2> HIDE DEF n, device
  <2>5. CASE device \in hw.secure
    <3>1. /\ wk'.test = wk.test /\ wk'.others = wk.others /\ wk'.phy_isr = wk.phy_isr /\ wk'.source = wk.source
          /\ wk'.pc = "loop" /\ wk'.timer_num = n
      BY <1>1, <2>2, <2>5 DEF WakeTypeInv, WakeState
    <3>2. WakeTypeInv'
      BY <1>1, <2>2, <2>4, <2>5, ZenonT(60) DEF WakeTypeInv, WakeState, WakePcs
    <3>3. PlaceInv'
      BY <1>2, <2>1, <3>1 DEF PlaceInv, Checked, Trying
    <3> QED  BY <1>1, <1>3, <2>2, <3>1, <3>2, <3>3, QuietStep, ZenonT(60)
  <2>6. CASE device \notin hw.secure
    <3>1. /\ wk'.test = wk.test /\ wk'.others = wk.others /\ wk'.phy_isr = wk.phy_isr /\ wk'.source = device
          /\ wk'.pc = (IF wk.test = 4 THEN "install" ELSE "access") /\ wk'.timer_num = n
      BY <1>1, <2>2, <2>6 DEF WakeTypeInv, WakeState
    <3>2. WakeTypeInv'
      BY <1>1, <2>2, <2>3, <2>4, <2>6, ZenonT(30) DEF WakeTypeInv, WakeState, WakePcs
    <3>3. PlaceInv'
      BY <1>2, <2>1, <2>3, <3>1 DEF PlaceInv, Checked, Trying
    <3> QED  BY <1>1, <3>1, <3>2, <3>3, QuietStep, ZenonT(60)
  <2> QED  BY <2>5, <2>6
<1> QED  BY <1>4, <1>5

LEMMA AccessPayload ==
  ASSUME WakeInv, In({"access"}), payload5_access, UNCHANGED fired, Kept
  PROVE  WakeInv'
<1>1. /\ wk.pc = "access" /\ hw' = hw /\ armed' = armed /\ fired' = fired /\ verdicts' = verdicts
      /\ WakeTypeInv /\ PlaceInv /\ wk.test \in 4..5
  BY ZenonT(60) DEF In, payload5_access, Kept, WakeInv, PlaceInv
<1>2. PICK leave \in BOOLEAN : /\ wk' = [wk EXCEPT !.pc = IF leave THEN "check" ELSE "install"]
                               /\ leave => status' = "SKIP"
  BY ZenonT(30) DEF payload5_access, Step, val_set_status
<1>3. /\ wk'.test = wk.test /\ wk'.others = wk.others /\ wk'.phy_isr = wk.phy_isr /\ wk'.source = wk.source
      /\ wk'.timer_num = wk.timer_num /\ wk'.pc = IF leave THEN "check" ELSE "install"
  BY <1>1, <1>2 DEF WakeTypeInv, WakeState
<1>4. WakeTypeInv'
  BY <1>1, <1>2 DEF WakeTypeInv, WakeState, WakePcs
<1>5. PlaceInv'
  BY <1>1, <1>3, ZenonT(60) DEF PlaceInv, Checked, Trying
<1> QED  BY <1>1, <1>2, <1>3, <1>4, <1>5, QuietStep

LEMMA InstallPayload ==
  ASSUME WakeInv, In({"install"}), payload_install, UNCHANGED fired, Kept
  PROVE  WakeInv'
<1>1. /\ wk.pc = "install" /\ hw' = hw /\ armed' = armed /\ fired' = fired /\ verdicts' = verdicts
      /\ WakeTypeInv /\ PlaceInv /\ wk.test \in 4..5
  BY ZenonT(60) DEF In, payload_install, Kept, WakeInv, PlaceInv
<1>2. PICK pc \in {"loop", "check", "failsafe"} :
        /\ wk' = [wk EXCEPT !.pc = pc]
        /\ pc # "failsafe" => status' = "FAIL" /\ wk.source \in hw.refused
  BY DEF payload_install, Step, val_set_status
<1>3. /\ wk'.test = wk.test /\ wk'.others = wk.others /\ wk'.phy_isr = wk.phy_isr /\ wk'.source = wk.source
      /\ wk'.timer_num = wk.timer_num /\ wk'.pc = pc
  BY <1>1, <1>2 DEF WakeTypeInv, WakeState
<1>4. WakeTypeInv'
  BY <1>1, <1>2 DEF WakeTypeInv, WakeState, WakePcs
<1>5. PlaceInv'
  BY <1>1, <1>2, <1>3 DEF PlaceInv, Checked, Trying
<1>6. pc # "failsafe" => status' # "PASS" /\ Excused(wk.test, wk.source)
  BY <1>2 DEF Excused
<1> QED  BY <1>1, <1>2, <1>3, <1>4, <1>5, <1>6, QuietStep, ZenonT(60)

\* The failsafe is started, then the device, and the hart sleeps.
LEMMA FailsafePayload ==
  ASSUME WakeInv, In({"failsafe"}), wakeup_set_failsafe, UNCHANGED <<acr, status, fired>>, Kept
  PROVE  WakeInv'
<1>1. /\ wk.pc = "failsafe" /\ hw' = hw /\ fired' = fired /\ verdicts' = verdicts /\ WakeTypeInv /\ PlaceInv
      /\ wk.test \in 1..5 /\ wk.test # 1 /\ wk' = [wk EXCEPT !.phy_isr = "failsafe", !.pc = "arm"]
  BY DEF In, wakeup_set_failsafe, Kept, WakeInv, PlaceInv, WakeTypeInv, WakeState, Checked
<1>2. armed' = armed \cup {"phy"}
  BY WakeAssumption DEF wakeup_set_failsafe, val_timer_set_phy_el1, Started
<1>3. /\ wk'.test = wk.test /\ wk'.others = wk.others /\ wk'.source = wk.source /\ wk'.timer_num = wk.timer_num
      /\ wk'.pc = "arm" /\ wk'.phy_isr = "failsafe"
  BY <1>1 DEF WakeTypeInv, WakeState
<1>4. WakeTypeInv'
  BY <1>1, <1>2, ZenonT(30) DEF WakeTypeInv, WakeState, WakePcs, Sources
<1>5. PlaceInv'
  BY <1>1, <1>3, ZenonT(60) DEF PlaceInv, Checked, Trying
<1>6. WakeupVerdicts'
  BY <1>1, <1>3, VerdictsKept
<1>7. ASSUME ~wk.others PROVE PhyInv' /\ LiveInv' /\ ResultInv'
  <2>1. LiveInv
    BY <1>7 DEF WakeInv
  <2>2. PhyInv'
    BY <1>1, <1>3 DEF PhyInv
  <2>3. Live' \ {"phy"} = {}
    BY <1>1, <1>2, <2>1 DEF LiveInv, Live, Counting
  <2>4. LiveInv' /\ ResultInv'
    BY <1>3, <2>3 DEF LiveInv, Counting, ResultInv
  <2> QED  BY <2>2, <2>4
<1> QED  BY <1>3, <1>4, <1>5, <1>6, <1>7, ZenonT(60) DEF WakeInv

LEMMA ArmPayload ==
  ASSUME WakeInv, In({"arm"}), payload_arm, UNCHANGED fired, Kept
  PROVE  WakeInv'
<1>1. /\ wk.pc = "arm" /\ hw' = hw /\ fired' = fired /\ verdicts' = verdicts /\ WakeTypeInv /\ PlaceInv
      /\ wk.test \in 1..5 /\ wk.source \in Sources
  <2>1. /\ wk.pc = "arm" /\ hw' = hw /\ fired' = fired /\ verdicts' = verdicts /\ WakeTypeInv /\ PlaceInv
        /\ wk.test \in 1..5
    BY DEF In, Kept, WakeInv, WakeTypeInv, WakeState, Checked
  <2>2. wk.source \in Sources
    BY <2>1, DeviceFacts DEF PlaceInv, Trying, Sources
  <2> QED  BY <2>1, <2>2
<1>2. WdTooLong(Timeout)' = WdTooLong(Timeout)
  BY <1>1 DEF WdTooLong
<1>4. CASE wk.test = 4 /\ WdTooLong(Timeout)
  <2>1. armed' = armed /\ status' = "FAIL" /\ wk' = [wk EXCEPT !.pc = "check"]
    BY <1>4, WakeAssumption DEF payload_arm, val_wd_set_ws0, val_set_status, Step
  <2>2. /\ wk'.test = wk.test /\ wk'.others = wk.others /\ wk'.source = wk.source /\ wk'.timer_num = wk.timer_num
        /\ wk'.pc = "check" /\ wk'.phy_isr = wk.phy_isr
    BY <1>1, <2>1 DEF WakeTypeInv, WakeState
  <2>3. WakeTypeInv'
    BY <1>1, <2>1 DEF WakeTypeInv, WakeState, WakePcs
  <2>4. PlaceInv'
    BY <1>1, <1>4, <2>2, ZenonT(60) DEF PlaceInv, Checked, Trying
  <2>5. WakeupVerdicts'
    BY <1>1, <2>2, VerdictsKept
  <2>6. ASSUME ~wk.others PROVE PhyInv' /\ LiveInv' /\ ResultInv'
    <3>1. LiveInv /\ PhyInv
      BY <2>6 DEF WakeInv
    <3>2. PhyInv'
      BY <1>1, <1>2, <1>4, <2>1, <2>2, <3>1, ZenonT(60) DEF PhyInv
    <3>3. Live' \ {"phy"} = {}
      BY <1>1, <2>1, <3>1 DEF LiveInv, Live, Counting
    <3>4. LiveInv'
      BY <2>2, <3>3 DEF LiveInv, Counting
    <3>5. ResultInv'
      BY <1>2, <1>4, <2>1, <2>2 DEF ResultInv, Excused
    <3> QED  BY <3>2, <3>4, <3>5
  <2> QED  BY <2>2, <2>3, <2>4, <2>5, <2>6, ZenonT(60) DEF WakeInv
<1>5. CASE ~(wk.test = 4 /\ WdTooLong(Timeout))
  <2>1. armed' = armed \cup {wk.source}
    <3>1. CASE wk.test = 1
      BY <1>1, <3>1, WakeAssumption DEF payload_arm, val_timer_set_phy_el1, Started, PlaceInv, Trying
    <3>2. CASE wk.test = 2
      BY <1>1, <3>2, WakeAssumption DEF payload_arm, val_timer_set_vir_el1, Started, PlaceInv, Trying
    <3>3. CASE wk.test = 3
      BY <1>1, <3>3, WakeAssumption DEF payload_arm, val_timer_set_phy_el2, Started, PlaceInv, Trying
    <3>4. CASE wk.test = 4
      BY <1>1, <1>5, <3>4, WakeAssumption DEF payload_arm, val_wd_set_ws0, Started
    <3>5. CASE wk.test = 5
      BY <1>1, <3>5, WakeAssumption DEF payload_arm, val_timer_set_system_timer, Started
    <3> QED  BY <1>1, <3>1, <3>2, <3>3, <3>4, <3>5
  <2>2. wk' = [wk EXCEPT !.pc = IF wk.test = 4 THEN "flags" ELSE "wfi"]
    BY <1>5 DEF payload_arm, Step
  <2>3. /\ wk'.test = wk.test /\ wk'.others = wk.others /\ wk'.source = wk.source /\ wk'.timer_num = wk.timer_num
        /\ wk'.pc = (IF wk.test = 4 THEN "flags" ELSE "wfi") /\ wk'.phy_isr = wk.phy_isr
    BY <1>1, <2>2 DEF WakeTypeInv, WakeState
  <2>4. WakeTypeInv'
    BY <1>1, <2>1, <2>2, ZenonT(60) DEF WakeTypeInv, WakeState, WakePcs
  <2>5. PlaceInv'
    BY <1>1, <2>3 DEF PlaceInv, Checked, Trying
  <2>6. WakeupVerdicts'
    BY <1>1, <2>3, VerdictsKept
  <2>7. ASSUME ~wk.others PROVE PhyInv' /\ LiveInv' /\ ResultInv'
    <3>1. LiveInv /\ PhyInv
      BY <2>7 DEF WakeInv
    <3>2. wk.source = "phy" => wk.test = 1
      BY <1>1, DeviceFacts DEF PlaceInv, Trying
    <3>3. PhyInv'
      BY <1>1, <2>1, <2>3, <3>1, <3>2 DEF PhyInv
    <3>4. \A s \in Live' \ {"phy"} : s = wk.source
      BY <1>1, <2>1, <3>1 DEF LiveInv, Live, Counting
    <3>5. LiveInv'
      <4>1. wk.test = 1 => Live' \ {"phy"} = {}
        BY <1>1, <3>4 DEF PlaceInv, Trying
      <4> QED  BY <1>1, <2>1, <2>3, <3>4, <4>1 DEF LiveInv, Counting
    <3>6. ResultInv'
      BY <2>3 DEF ResultInv
    <3> QED  BY <3>3, <3>5, <3>6
  <2> QED  BY <2>3, <2>4, <2>5, <2>6, <2>7, ZenonT(60) DEF WakeInv
<1> QED  BY <1>4, <1>5

\* The flags are cleared, or the hart goes to sleep.
LEMMA SleepPayload ==
  ASSUME WakeInv,
         \/ In({"flags"}) /\ payload4_flags
         \/ In({"wfi"}) /\ val_power_enter_semantic,
         UNCHANGED fired, Kept
  PROVE  WakeInv'
<1>1. /\ wk.pc \in {"flags", "wfi"} /\ hw' = hw /\ fired' = fired /\ verdicts' = verdicts /\ armed' = armed
      /\ WakeTypeInv /\ PlaceInv /\ wk.test \in 1..5
  BY DEF In, payload4_flags, val_power_enter_semantic, Kept, WakeInv, WakeTypeInv, WakeState, Checked
<1>2. /\ wk'.test = wk.test /\ wk'.others = wk.others /\ wk'.source = wk.source /\ wk'.timer_num = wk.timer_num
      /\ wk'.pc \in {"wfi", "asleep"} /\ wk'.phy_isr = wk.phy_isr
  BY <1>1, ZenonT(30) DEF WakeTypeInv, WakeState, payload4_flags, val_power_enter_semantic, Step
<1>3. WakeTypeInv'
  BY <1>1, ZenonT(30) DEF WakeTypeInv, WakeState, WakePcs, payload4_flags, val_power_enter_semantic, Step
<1>4. PlaceInv'
  BY <1>1, <1>2, ZenonT(60) DEF PlaceInv, Checked, Trying
<1>5. WakeupVerdicts'
  BY <1>1, <1>2, VerdictsKept
<1>6. ASSUME ~wk.others PROVE PhyInv' /\ LiveInv' /\ ResultInv'
  <2>1. LiveInv /\ PhyInv
    BY <1>6 DEF WakeInv
  <2>2. WdTooLong(Timeout)' = WdTooLong(Timeout)
    BY <1>1 DEF WdTooLong
  <2>3. PhyInv'
    BY <1>1, <1>2, <2>1, <2>2, ZenonT(60) DEF PhyInv, PlaceInv
  <2>4. LiveInv'
    BY <1>1, <1>2, <2>1, ZenonT(60) DEF LiveInv, Live, Counting
  <2>5. ResultInv'
    BY <1>2 DEF ResultInv
  <2> QED  BY <2>3, <2>4, <2>5
<1> QED  BY <1>2, <1>3, <1>4, <1>5, <1>6, ZenonT(60) DEF WakeInv

\* Awake again: the failsafe is stopped, the result is what the handler left.
LEMMA WokenPayload ==
  ASSUME WakeInv, In({"woken"}), payload_woken, UNCHANGED fired, Kept
  PROVE  WakeInv'
<1>1. /\ wk.pc = "woken" /\ hw' = hw /\ fired' = fired /\ verdicts' = verdicts /\ WakeTypeInv /\ PlaceInv
      /\ wk.test \in 1..5 /\ wk' = [wk EXCEPT !.pc = IF wk.test \in 4..5 THEN "loop" ELSE "check"]
  BY DEF In, payload_woken, Kept, WakeInv, WakeTypeInv, WakeState, Checked, Step
<1>2. armed' = IF wk.test = 1 THEN armed ELSE armed \ {"phy"}
  BY DEF payload_woken, wakeup_clear_failsafe, val_timer_set_phy_el1, Started
<1>3. /\ wk'.test = wk.test /\ wk'.others = wk.others /\ wk'.source = wk.source /\ wk'.timer_num = wk.timer_num
      /\ wk'.pc = (IF wk.test \in 4..5 THEN "loop" ELSE "check") /\ wk'.phy_isr = wk.phy_isr
  BY <1>1 DEF WakeTypeInv, WakeState
<1>4. WakeTypeInv'
  BY <1>1, <1>2 DEF WakeTypeInv, WakeState, WakePcs
<1>5. PlaceInv'
  BY <1>1, <1>3 DEF PlaceInv, Checked, Trying
<1>6. WakeupVerdicts'
  BY <1>1, <1>3, VerdictsKept
<1>7. ASSUME ~wk.others PROVE PhyInv' /\ LiveInv' /\ ResultInv'
  <2>1. LiveInv /\ PhyInv /\ ResultInv
    BY <1>7 DEF WakeInv
  <2>2. WdTooLong(Timeout)' = WdTooLong(Timeout)
    BY <1>1 DEF WdTooLong
  <2>3. PhyInv'
    BY <1>1, <1>2, <1>3, <2>1, ZenonT(60) DEF PhyInv, Checked
  <2>4. LiveInv'
    BY <1>1, <1>2, <1>3, <2>1 DEF LiveInv, Live, Counting
  <2>5. status' = status
    BY <1>1, <2>1 DEF payload_woken, ResultInv
  <2>6. ResultInv'
    BY <1>1, <1>3, <2>1, <2>2, <2>5 DEF ResultInv, Excused
  <2> QED  BY <2>3, <2>4, <2>6
<1> QED  BY <1>3, <1>4, <1>5, <1>6, <1>7, ZenonT(60) DEF WakeInv

\* os_u001_entry: a test begins or is checked.
LEMMA EntryStep ==
  ASSUME WakeInv, os_u001_entry
  PROVE  WakeInv'
<1>1. /\ hw' = hw /\ armed' = armed /\ WakeTypeInv /\ PlaceInv /\ wk.test \in 1..5 /\ wk.pc \in {"begin", "check"}
  BY DEF os_u001_entry, In, WakeInv, WakeTypeInv, WakeState, Checked
<1>2. WdTooLong(Timeout)' = WdTooLong(Timeout)
  BY <1>1 DEF WdTooLong
<1>3. wk.test + 1 \in 1..6
  BY <1>1
<1>4. ASSUME wk.pc = "begin" PROVE WakeInv'
  <2>1. fired' = {} /\ verdicts' = verdicts
    BY <1>4 DEF os_u001_entry, In
  <2>2. \/ wk' = [wk EXCEPT !.test = @ + 1] /\ wk.test <= 3
        \/ wk' = [wk EXCEPT !.pc = "payload"] /\ status' = "PENDING"
    BY <1>1, <1>4 DEF os_u001_entry, In, Step, val_set_status
  <2>3. /\ wk'.others = wk.others /\ wk'.phy_isr = wk.phy_isr
        /\ \/ wk'.test = wk.test + 1 /\ wk'.pc = "begin" /\ wk.test <= 3
           \/ wk'.test = wk.test /\ wk'.pc = "payload" /\ status' = "PENDING"
    BY <1>1, <1>4, <2>2 DEF WakeTypeInv, WakeState
  <2>4. WakeTypeInv'
    <3>1. fired' \subseteq Sources /\ DOMAIN verdicts' = 1..5
      BY <1>1, <2>1 DEF WakeTypeInv, WakeState
    <3>2. wk.test + 1 \in 1..Checked
      BY <1>3 DEF Checked
    <3> QED  BY <1>1, <2>2, <3>1, <3>2, ZenonT(60) DEF WakeTypeInv, WakeState, WakePcs
  <2>5. PlaceInv'
    BY <1>1, <2>3 DEF PlaceInv, Checked, Trying
  <2>6. WakeupVerdicts'
    BY <1>1, <2>1, <2>3, VerdictsKept, ZenonT(60)
  <2>7. ASSUME ~wk.others PROVE PhyInv' /\ LiveInv' /\ ResultInv'
    <3>1. LiveInv /\ PhyInv
      BY <2>7 DEF WakeInv
    <3>2. "phy" \in armed => WdTooLong(Timeout) /\ wk.phy_isr = "failsafe" /\ wk.test = 5
      BY <1>1, <1>4, <3>1 DEF PhyInv, Checked
    <3>3. PhyInv'
      BY <1>1, <1>2, <2>3, <3>2 DEF PhyInv, Checked
    <3>4. Live \ {"phy"} = {} /\ Live' = Live
      BY <1>1, <1>4, <3>1 DEF LiveInv, Live, Counting
    <3>5. LiveInv'
      BY <2>3, <3>4 DEF LiveInv, Counting
    <3>6. ResultInv'
      BY <2>3 DEF ResultInv
    <3> QED  BY <3>3, <3>5, <3>6
  <2> QED  BY <2>3, <2>4, <2>5, <2>6, <2>7, ZenonT(60) DEF WakeInv
<1>5. ASSUME wk.pc = "check" PROVE WakeInv'
  <2>1. /\ verdicts' = [verdicts EXCEPT ![wk.test] = [status |-> status, source |-> wk.source, fired |-> fired]]
        /\ wk' = [wk EXCEPT !.test = @ + 1, !.pc = "begin", !.source = "none"]
        /\ fired' = fired
    BY <1>5 DEF os_u001_entry, In
  <2>2. wk'.others = wk.others /\ wk'.phy_isr = wk.phy_isr /\ wk'.test = wk.test + 1 /\ wk'.pc = "begin"
    BY <1>1, <2>1 DEF WakeTypeInv, WakeState
  <2>3. WakeTypeInv'
    <3>1. fired' \subseteq Sources /\ DOMAIN verdicts' = 1..5
      BY <1>1, <2>1 DEF WakeTypeInv, WakeState
    <3>2. wk.test + 1 \in 1..Checked
      BY <1>3 DEF Checked
    <3> QED  BY <1>1, <2>1, <3>1, <3>2, ZenonT(30) DEF WakeTypeInv, WakeState, WakePcs
  <2>4. PlaceInv'
    BY <1>1, <2>2, ZenonT(60) DEF PlaceInv, Checked, Trying
  <2>5. WakeupVerdicts'
    <3> SUFFICES ASSUME ~wk.others PROVE WakeupVerdicts'
      BY <2>2, ZenonT(60) DEF WakeupVerdicts
    <3>1. /\ status = "PASS" => wk.source \in fired
          /\ status = "FAIL" => Excused(wk.test, wk.source)
      BY <1>5 DEF WakeInv, ResultInv
    <3>2. \A t \in 1..5 : t # wk.test => verdicts'[t] = verdicts[t]
      BY <1>1, <2>1 DEF WakeTypeInv, WakeState
    <3>3. verdicts'[wk.test] = [status |-> status, source |-> wk.source, fired |-> fired]
      BY <1>1, <2>1 DEF WakeTypeInv, WakeState
    <3>4. /\ verdicts'[wk.test].status = status /\ verdicts'[wk.test].source = wk.source
          /\ verdicts'[wk.test].fired = fired
      BY <3>3
    <3>5. ASSUME NEW t \in 1..5
          PROVE  /\ verdicts'[t].status = "PASS" => verdicts'[t].source \in verdicts'[t].fired
                 /\ verdicts'[t].status = "FAIL" => Excused(t, verdicts'[t].source)
      <4>1. CASE t = wk.test
        BY <3>1, <3>4, <4>1, ZenonT(60)
      <4>2. CASE t # wk.test
        BY <3>2, <4>2, ZenonT(60) DEF WakeInv, WakeupVerdicts, Excused
      <4> QED  BY <4>1, <4>2, ZenonT(60)
    <3> QED  BY <1>1, <1>2, <3>5, ZenonT(60) DEF WakeupVerdicts, Excused
  <2>6. ASSUME ~wk.others PROVE PhyInv' /\ LiveInv' /\ ResultInv'
    <3>1. LiveInv /\ PhyInv
      BY <2>6 DEF WakeInv
    <3>2. "phy" \in armed => WdTooLong(Timeout) /\ wk.phy_isr = "failsafe" /\ wk.test \in 4..5
      BY <1>1, <1>5, <3>1 DEF PhyInv, Checked
    <3>3. PhyInv'
      BY <1>1, <1>2, <2>2, <3>2 DEF PhyInv, Checked
    <3>4. Live \ {"phy"} = {} /\ Live' = Live
      BY <1>1, <1>5, <3>1 DEF LiveInv, Live, Counting
    <3>5. LiveInv'
      BY <2>2, <3>4 DEF LiveInv, Counting
    <3>6. ResultInv'
      BY <2>2 DEF ResultInv
    <3> QED  BY <3>3, <3>5, <3>6
  <2> QED  BY <2>2, <2>3, <2>4, <2>5, <2>6, ZenonT(60) DEF WakeInv
<1> QED  BY <1>1, <1>4, <1>5

\* What all handlers do: they silence sources and end the sleep.
LEMMA HandlerFacts ==
  ASSUME WakeTypeInv, NEW source, Handler(source), hw' = hw
  PROVE  /\ armed' \subseteq armed
         /\ wk' \in WakeState
         /\ wk'.test = wk.test /\ wk'.source = wk.source /\ wk'.timer_num = wk.timer_num
         /\ wk'.phy_isr = wk.phy_isr /\ wk'.others = wk.others
         /\ wk'.pc = IF wk.pc = "asleep" THEN "woken" ELSE wk.pc
<1>1. armed' \subseteq armed
  BY DEF Handler, isr1, isr2, isr3, isr4, isr5, isr_failsafe, val_timer_set_phy_el1, val_timer_set_vir_el1,
         val_timer_set_phy_el2, val_wd_set_ws0, val_timer_disable_system_timer, Started
<1>2. wk' \in {Woken(wk), Woken([wk EXCEPT !.g_wd_int_received = TRUE]),
               Woken([wk EXCEPT !.g_failsafe_int_received = TRUE])}
  BY DEF Handler, isr1, isr2, isr3, isr4, isr5, isr_failsafe
<1>3. ASSUME NEW w \in WakeState
      PROVE  /\ Woken(w) \in WakeState
             /\ Woken(w).test = w.test /\ Woken(w).source = w.source /\ Woken(w).timer_num = w.timer_num
             /\ Woken(w).phy_isr = w.phy_isr /\ Woken(w).others = w.others
             /\ Woken(w).pc = IF w.pc = "asleep" THEN "woken" ELSE w.pc
  <2>1. CASE w.pc = "asleep"
    BY <2>1 DEF Woken, WakeState, WakePcs
  <2>2. CASE w.pc # "asleep"
    BY <2>2 DEF Woken
  <2> QED  BY <2>1, <2>2, ZenonT(60)
<1>4. ASSUME NEW w \in {wk, [wk EXCEPT !.g_wd_int_received = TRUE], [wk EXCEPT !.g_failsafe_int_received = TRUE]}
      PROVE  /\ w \in WakeState /\ w.test = wk.test /\ w.source = wk.source /\ w.timer_num = wk.timer_num
             /\ w.phy_isr = wk.phy_isr /\ w.others = wk.others /\ w.pc = wk.pc
  BY ZenonT(30) DEF WakeTypeInv, WakeState
<1>5. PICK w \in {wk, [wk EXCEPT !.g_wd_int_received = TRUE], [wk EXCEPT !.g_failsafe_int_received = TRUE]} :
        wk' = Woken(w)
  BY <1>2
<1>6. /\ w \in WakeState /\ w.test = wk.test /\ w.source = wk.source /\ w.timer_num = wk.timer_num
      /\ w.phy_isr = wk.phy_isr /\ w.others = wk.others /\ w.pc = wk.pc
  BY <1>4, ZenonT(30)
<1> HIDE DEF WakeState
<1> QED  BY <1>1, <1>3, <1>5, <1>6, ZenonT(60)

\* An interrupt fires.
LEMMA FireStep ==
  ASSUME WakeInv, NEW source, Fire(source)
  PROVE  WakeInv'
<1>1. /\ source \in Live /\ MayFire(source) /\ Handler(source) /\ fired' = fired \cup {source}
      /\ hw' = hw /\ verdicts' = verdicts /\ WakeTypeInv /\ PlaceInv /\ source \in Sources
      /\ source \in armed /\ source \in hw.live
  BY DEF Fire, Kept, WakeInv, WakeTypeInv, Live
<1>2. /\ armed' \subseteq armed /\ wk' \in WakeState
      /\ wk'.test = wk.test /\ wk'.source = wk.source /\ wk'.timer_num = wk.timer_num
      /\ wk'.phy_isr = wk.phy_isr /\ wk'.others = wk.others
      /\ wk'.pc = IF wk.pc = "asleep" THEN "woken" ELSE wk.pc
  BY <1>1, HandlerFacts
<1>3. WakeTypeInv'
  BY <1>1, <1>2 DEF WakeTypeInv
<1>4. PlaceInv'
  BY <1>1, <1>2, ZenonT(60) DEF PlaceInv, Trying, Checked
<1>5. WakeupVerdicts'
  BY <1>1, <1>2, VerdictsKept, ZenonT(60)
<1>6. WdTooLong(Timeout)' = WdTooLong(Timeout) /\ \A t, s : Excused(t, s)' = Excused(t, s)
  BY <1>1 DEF WdTooLong, Excused
<1>7. ASSUME ~wk.others PROVE PhyInv' /\ LiveInv' /\ ResultInv'
  <2>1. PhyInv /\ LiveInv /\ ResultInv
    BY <1>7 DEF WakeInv
  <2>2. Live' \subseteq Live
    BY <1>1, <1>2 DEF Live
  \* The EL1 timer in its own test.
  <2>3. CASE source = "phy" /\ wk.phy_isr = "isr1"
    <3>1. armed' = armed \ {"phy"} /\ status' = "PASS"
      BY <1>1, <2>3 DEF Handler, isr1, val_timer_set_phy_el1, Started, val_set_status
    <3>2. wk.test = 1 /\ wk.pc \in {"wfi", "asleep"} /\ wk.source = "phy"
      BY <1>1, <2>1, <2>3, ZenonT(60) DEF PhyInv, PlaceInv, Trying
    <3>3. PhyInv'
      BY <1>2, <2>3, <3>1, <3>2, ZenonT(60) DEF PhyInv
    <3>4. LiveInv'
      <4>1. wk.pc = "wfi" => wk.source \in hw.early
        BY <1>1, <2>3, <3>2 DEF MayFire
      <4> QED  BY <1>1, <1>2, <2>1, <2>2, <3>2, <4>1, ZenonT(60) DEF LiveInv, Counting
    <3>5. ResultInv'
      BY <1>1, <1>2, <2>3, <3>1, <3>2 DEF ResultInv
    <3> QED  BY <3>3, <3>4, <3>5
  \* The failsafe.
  <2>4. CASE source = "phy" /\ wk.phy_isr = "failsafe"
    <3>1. /\ armed' = armed \ {"phy"} /\ status' = "FAIL"
          /\ wk' = Woken([wk EXCEPT !.g_failsafe_int_received = TRUE])
      BY <1>1, <2>4 DEF Handler, isr_failsafe, val_timer_set_phy_el1, Started, val_set_status
    <3>2. PhyInv'
      BY <1>2, <2>1, <3>1, ZenonT(60) DEF PhyInv
    <3>3. CASE wk.pc = "asleep"
      <4>1. wk.source \notin Live /\ wk'.pc = "woken"
        BY <1>1, <1>2, <2>4, <3>3, ZenonT(60) DEF MayFire
      <4>2. LiveInv'
        BY <1>2, <2>1, <2>2, <4>1, ZenonT(60) DEF LiveInv, Counting
      <4>3. wk'.g_failsafe_int_received
        BY <1>1, <3>1 DEF Woken, WakeTypeInv, WakeState
      <4>4. Excused(wk.test, wk.source)
        BY <2>1, <3>3, <4>1, ZenonT(60) DEF LiveInv, Live, Excused, Counting
      <4>5. ResultInv'
        BY <1>2, <1>6, <3>1, <4>1, <4>3, <4>4, ZenonT(60) DEF ResultInv
      <4> QED  BY <3>2, <4>2, <4>5
    <3>4. CASE wk.pc # "asleep"
      <4>1. wk.pc \in {"begin", "payload", "loop", "access", "install", "check"} /\ wk'.pc = wk.pc
        BY <1>1, <1>2, <2>4, <3>4, ZenonT(60) DEF MayFire
      <4>2. WdTooLong(Timeout) /\ wk.test \in 4..6
        BY <1>1, <2>1, <2>4, <4>1 DEF PhyInv, Checked
      <4>3. wk.pc # "begin" => wk.test \in 4..5
        BY <1>1, <4>2 DEF PlaceInv, Checked
      <4>4. wk.pc = "payload" => wk.test = 5
        BY <1>1, <2>1, <2>4, <4>1, <4>3 DEF PhyInv, Checked
      <4>5. LiveInv'
        BY <1>2, <2>1, <2>2, <4>1, ZenonT(60) DEF LiveInv, Counting
      <4>6. ResultInv'
        BY <1>2, <1>6, <3>1, <4>1, <4>2, <4>3, <4>4, ZenonT(60) DEF ResultInv, Excused
      <4> QED  BY <3>2, <4>5, <4>6
    <3> QED  BY <3>3, <3>4
  \* The device of the running test.
  <2>5. CASE source # "phy"
    <3>1. source = wk.source /\ wk.test \in 2..5 /\ wk.pc \in Counting
      BY <1>1, <2>1, <2>5, ZenonT(60) DEF LiveInv
    <3>2. /\ wk.test = 2 => source = "vir"
          /\ wk.test = 3 => source = "el2"
          /\ wk.test = 4 => source \in {"wd0", "wd1"} /\ wk.timer_num \in 0..1 /\ source = Wds[wk.timer_num + 1]
          /\ wk.test = 5 => source \in {"sys0", "sys1"} /\ wk.timer_num \in 0..1 /\ source = Sys[wk.timer_num + 1]
      BY <1>1, <3>1, DeviceFacts, ZenonT(60) DEF PlaceInv, Trying, Counting
    <3>3. armed' = armed \ {source} /\ status' = "PASS"
      <4>1. CASE wk.test = 2
        BY <1>1, <3>2, <4>1, ZenonT(60) DEF Handler, isr2, val_timer_set_vir_el1, Started, val_set_status
      <4>2. CASE wk.test = 3
        BY <1>1, <3>2, <4>2, ZenonT(60) DEF Handler, isr3, val_timer_set_phy_el2, Started, val_set_status
      <4>3. CASE wk.test = 4
        <5>1. isr4
          BY <1>1, <3>2, <4>3, ZenonT(60) DEF Handler
        <5> QED  BY <3>2, <4>3, <5>1, DeviceFacts, ZenonT(60) DEF isr4, val_wd_set_ws0, Started, val_set_status
      <4>4. CASE wk.test = 5
        <5>1. isr5
          BY <1>1, <3>2, <4>4, ZenonT(60) DEF Handler
        <5> QED  BY <3>2, <4>4, <5>1, DeviceFacts, ZenonT(60) DEF isr5, val_timer_disable_system_timer, Started, val_set_status
      <4> QED  BY <3>1, <4>1, <4>2, <4>3, <4>4
    <3>4. wk.test = 4 => wk'.g_wd_int_received
      <4>1. wk.test = 4 => wk' = Woken([wk EXCEPT !.g_wd_int_received = TRUE])
        BY <1>1, <3>2 DEF Handler, isr4
      <4> QED  BY <1>1, <4>1, ZenonT(30) DEF Woken, WakeTypeInv, WakeState
    <3>5. PhyInv'
      <4>1. wk.phy_isr = "failsafe"
        BY <2>1, <3>1 DEF PhyInv, Counting
      <4>2. wk'.pc \in {"flags", "wfi", "asleep", "woken"}
        BY <1>2, <3>1 DEF Counting
      <4> QED  BY <1>2, <3>1, <4>1, <4>2 DEF PhyInv
    <3>6. LiveInv'
      <4>1. wk.pc # "asleep" => wk.source \in hw.early
        BY <1>1, <2>5, <3>1, ZenonT(60) DEF MayFire
      <4>2. Live' \ {"phy"} = {}
        BY <1>1, <2>1, <2>2, <3>1, <3>3, ZenonT(60) DEF LiveInv, Live
      <4> QED  BY <1>1, <1>2, <4>1, <4>2, ZenonT(60) DEF LiveInv, Counting
    <3>7. ResultInv'
      BY <1>1, <1>2, <3>1, <3>3, <3>4, ZenonT(60) DEF ResultInv, Counting
    <3> QED  BY <3>5, <3>6, <3>7
  <2>6. wk.phy_isr # "none" \/ source # "phy"
    BY <1>1, <2>1 DEF PhyInv
  <2> QED  BY <1>1, <2>3, <2>4, <2>5, <2>6, ZenonT(60) DEF WakeTypeInv, WakeState
<1> QED  BY <1>2, <1>3, <1>4, <1>5, <1>7, ZenonT(60) DEF WakeInv

\* On every platform with up to two watchdogs and two timer frames, whichever
\* sources work, expire early, are secure or refuse a handler, and for every
\* timeout: a wakeup test of test_os_u001.c passes only when the device it
\* tried last fired during it, and fails only when that device is dead,
\* refused, could not be armed or fired before the hart slept.
THEOREM WakeupVerdictsHold ==
  ASSUME NEW hws \in SUBSET Hardware
  PROVE  WakeInit(hws) /\ [][WakeNext]_wakeVars => []WakeupVerdicts
<1>1. WakeInit(hws) => WakeInv
  <2> SUFFICES ASSUME WakeInit(hws) PROVE WakeInv
    OBVIOUS
  <2>1. /\ hw \in Hardware
        /\ wk = [test |-> 1, pc |-> "begin", source |-> "none", timer_num |-> 0, ns |-> FALSE, phy_isr |-> "none",
                 g_wd_int_received |-> FALSE, g_failsafe_int_received |-> FALSE, others |-> FALSE]
        /\ armed = {} /\ fired = {} /\ verdicts = [t \in 1..5 |-> NoVerdict]
    BY DEF WakeInit
  <2>2. WakeTypeInv
    BY <2>1 DEF WakeTypeInv, WakeState, WakePcs, Checked
  <2>3. PlaceInv /\ PhyInv /\ LiveInv /\ ResultInv
    BY <2>1, ZenonT(60) DEF PlaceInv, PhyInv, LiveInv, Live, ResultInv, Trying, Counting, Checked
  <2>4. WakeupVerdicts
    BY <2>1, ZenonT(60) DEF WakeupVerdicts, NoVerdict
  <2> QED  BY <2>2, <2>3, <2>4 DEF WakeInv
<1>2. WakeInv /\ [WakeNext]_wakeVars => WakeInv'
  <2> SUFFICES ASSUME WakeInv, [WakeNext]_wakeVars PROVE WakeInv'
    OBVIOUS
  <2>1. ASSUME WakePayload PROVE WakeInv'
    <3>1. hw.wds \in 0..2 /\ hw.frames \in 0..2
      BY DEF WakeInv, WakeTypeInv, Hardware
    <3> QED  BY <2>1, <3>1, TimerPayload, CountPayload, LoopPayload, AccessPayload, InstallPayload, FailsafePayload,
                ArmPayload, SleepPayload, WokenPayload DEF WakePayload
  <2>2. ASSUME AnyFires PROVE WakeInv'
    BY <2>2, FireStep DEF AnyFires
  <2>3. ASSUME FireOther PROVE WakeInv'
    <3>1. /\ hw' = hw /\ armed' = armed /\ fired' = fired /\ verdicts' = verdicts
          /\ wk' = [wk EXCEPT !.pc = "woken", !.others = TRUE] /\ wk.pc = "asleep"
      BY <2>3, ZenonT(30) DEF FireOther, Kept, In, Woken
    <3>2. WakeTypeInv /\ PlaceInv
      BY DEF WakeInv
    <3>3. /\ wk'.others /\ wk'.pc = "woken" /\ wk'.test = wk.test /\ wk'.source = wk.source
          /\ wk'.timer_num = wk.timer_num
      BY <3>1, <3>2 DEF WakeTypeInv, WakeState
    <3>4. WakeTypeInv'
      BY <3>1, <3>2, ZenonT(30) DEF WakeTypeInv, WakeState, WakePcs
    <3>5. PlaceInv'
      BY <3>1, <3>2, <3>3, ZenonT(60) DEF PlaceInv, Trying, Checked
    <3> QED  BY <3>1, <3>3, <3>4, <3>5, VerdictsKept, ZenonT(60) DEF WakeInv
  <2>4. ASSUME UNCHANGED wakeVars PROVE WakeInv'
    <3>1. hw' = hw /\ wk' = wk /\ status' = status /\ armed' = armed /\ fired' = fired /\ verdicts' = verdicts
      BY <2>4, ZenonT(60) DEF wakeVars
    <3>2. WdTooLong(Timeout)' = WdTooLong(Timeout) /\ Live' = Live /\ \A t, s : Excused(t, s)' = Excused(t, s)
      BY <3>1, ZenonT(60) DEF WdTooLong, Live, Excused
    <3>3. WakeTypeInv' /\ PlaceInv' /\ WakeupVerdicts'
      BY <3>1, VerdictsKept, ZenonT(60) DEF WakeInv, WakeTypeInv, PlaceInv
    <3>4. ~wk.others => PhyInv' /\ LiveInv' /\ ResultInv'
      BY <3>1, <3>2, ZenonT(60) DEF WakeInv, PhyInv, LiveInv, ResultInv
    <3> QED  BY <3>1, <3>3, <3>4 DEF WakeInv
  <2> QED  BY <2>1, <2>2, <2>3, <2>4, EntryStep, ZenonT(60) DEF WakeNext
<1>3. WakeInv => WakeupVerdicts
  BY DEF WakeInv
<1> QED  BY <1>1, <1>2, <1>3, PTL
=============================================================================
