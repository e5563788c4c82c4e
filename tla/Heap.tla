-------------------------------- MODULE Heap --------------------------------
(***************************************************************************)
(* The heap: a two-level segregated fit (src/heap_tlsf.rs) over the layout  *)
(* arithmetic of src/heap_layout.rs, called with interrupts off             *)
(* (src/heap.rs), so that a call is one step.  Memory is a function from    *)
(* the places where a block may start to the header that stands there; what *)
(* a caller writes into its payload is Junk.                                 *)
(***************************************************************************)
EXTENDS Integers, Sequences, FiniteSets, SequencesExt

CONSTANTS Start, End,     \* the linker's bounds of the heap
          Layouts,        \* <<size, align>> that callers ask for
          Header, Prefix, \* bytes of a block's header and of the owner prefix
          FlMinLog2, FlCount,
          SizeMax         \* usize::MAX, where additions saturate

BlockAlign == 8
SlCount == 4
Max2(a, b) == IF a > b THEN a ELSE b
SatSub(a, b) == Max2(a - b, 0)
SatAdd(a, b) == IF a + b > SizeMax THEN SizeMax ELSE a + b
AlignUp(v, align) == ((v + align - 1) \div align) * align
MinBlock == AlignUp(Header + Max2(2 * Prefix, Prefix + 1), BlockAlign)
HeapAssumption ==
  /\ Start \in Nat /\ End \in Nat /\ Start <= End
  /\ Header \in Nat \ {0} /\ Prefix \in Nat \ {0} /\ FlMinLog2 > 2
  /\ SizeMax >= End - Start /\ MinBlock >= 2 ^ FlMinLog2 /\ End - Start < 2 ^ (FlMinLog2 + FlCount)

VARIABLES mem,    \* the headers
          lists,  \* the free lists, head first
          free,   \* free_bytes
          live    \* what callers hold: records of payload, size, align
heapVars == <<mem, lists, free, live>>

\* heap_bounds: only whole blocks between the linker's bounds.
ArenaEnd == (End \div BlockAlign) * BlockAlign
ArenaStart == IF AlignUp(Start, BlockAlign) < ArenaEnd THEN AlignUp(Start, BlockAlign) ELSE ArenaEnd
Places == {a \in ArenaStart..ArenaEnd : a % BlockAlign = 0}
Junk == [size |-> 0, used |-> FALSE, prevUsed |-> FALSE, prev |-> 0]
-----------------------------------------------------------------------------
(* Size classes (heap_layout.rs): a block is put where its size rounds down   *)
(* to and looked for where the size that is needed rounds up to.              *)
Log2(x) == CHOOSE k \in 0..30 : 2 ^ k <= x /\ x < 2 ^ (k + 1)
ClassMin(c) == LET k == c[1] + FlMinLog2 IN 2 ^ k + c[2] * 2 ^ (k - 2)
InsertIndex(size) ==
  LET k == Log2(size) IN <<k - FlMinLog2, (size \div 2 ^ (k - 2)) % SlCount>>
NoClass == <<FlCount, 0>>
SearchIndex(size) ==
  LET c == InsertIndex(size)
  IN IF c[1] >= FlCount THEN NoClass
     ELSE IF size <= ClassMin(c) THEN c
     ELSE IF c[2] + 1 < SlCount THEN <<c[1], c[2] + 1>> ELSE <<c[1] + 1, 0>>
Class == (0..(FlCount - 1)) \X (0..(SlCount - 1))
AtLeast(c, d) == c[1] > d[1] \/ (c[1] = d[1] /\ c[2] >= d[2])

\* What any block must have for the layout, wherever it starts, and what it
\* takes from the block at b.
MinimumNeed(l) == AlignUp(Max2(l[2], BlockAlign) + BlockAlign + Max2(l[1], 1), BlockAlign)
Payload(b, l) == AlignUp(b + Header + Prefix, Max2(l[2], BlockAlign))
PlanSize(b, l) == AlignUp(Payload(b, l) + Max2(l[1], 1), BlockAlign) - b
-----------------------------------------------------------------------------
(* Lists: a function of the lists before; bitmaps tell which are empty. *)
Insert(ls, m, b) == [ls EXCEPT ![InsertIndex(m[b].size)] = <<b>> \o @]
Unlink(ls, m, b) == [ls EXCEPT ![InsertIndex(m[b].size)] = SelectSeq(@, LAMBDA x : x # b)]

\* The head of the first list that is not empty, from the class on.
FindBlock(size) ==
  LET fits == {c \in Class : AtLeast(c, SearchIndex(size)) /\ lists[c] # <<>>}
  IN IF fits = {} THEN {}
     ELSE {Head(lists[CHOOSE c \in fits : \A d \in fits : AtLeast(d, c)])}

PrevUsed(m, a, used) == IF a < ArenaEnd THEN [m EXCEPT ![a].prevUsed = used] ELSE m
\* The block after a split is not told.
PrevSizeKept(m, a, size) == m
PrevSize(m, a, size) == IF a < ArenaEnd THEN [m EXCEPT ![a].prev = size] ELSE m
\* A caller writes all of its payload: headers that stood there are gone.
Scribbled(m, p, size) ==
  [a \in Places |-> IF a + Header > p /\ a < p + size THEN Junk ELSE m[a]]

Hold(m, b, l) ==
  LET p == Payload(b, l)
  IN /\ mem' = Scribbled(m, p, Max2(l[1], 1))
     /\ live' = live \cup {[payload |-> p, size |-> l[1], align |-> l[2], owner |-> b]}

\* alloc: the rest becomes a free block when it can be one.
Alloc(l) ==
  LET found == FindBlock(Max2(MinimumNeed(l), MinBlock))
  IN IF found = {} THEN UNCHANGED heapVars
     ELSE LET b    == CHOOSE x \in found : TRUE
              old  == mem[b].size
              plan == PlanSize(b, l)
              rest == old - plan
              off  == Unlink(lists, mem, b)
              used == [mem[b] EXCEPT !.used = TRUE]
          IN IF plan > old THEN UNCHANGED heapVars
             ELSE IF rest >= MinBlock
             THEN LET m1 == [mem EXCEPT ![b + plan] = [size |-> rest, used |-> FALSE, prevUsed |-> TRUE, prev |-> plan],
                                        ![b] = [used EXCEPT !.size = plan]]
                  IN /\ lists' = Insert(off, m1, b + plan)
                     /\ free' = SatSub(free, plan)
                     /\ Hold(PrevSize(m1, b + old, rest), b, l)
             ELSE /\ lists' = off
                  /\ free' = SatSub(free, old)
                  /\ Hold(PrevUsed([mem EXCEPT ![b] = used], b + old, TRUE), b, l)

\* dealloc: the block joins the free ones before and after it.
Dealloc(x) ==
  LET b == x.owner
      h == mem[b]
      before == b - h.prev
      joins == ~h.prevUsed /\ h.prev >= MinBlock /\ h.prev % BlockAlign = 0 /\ ~mem[before].used
      b1 == IF joins THEN before ELSE b
      size1 == IF joins THEN h.size + h.prev ELSE h.size
      prevUsed == IF joins THEN mem[before].prevUsed ELSE h.prevUsed
      lists1 == IF joins THEN Unlink(lists, mem, before) ELSE lists
      next == b1 + size1
      takes == next < ArenaEnd /\ ~mem[next].used
      size2 == IF takes THEN size1 + mem[next].size ELSE size1
      lists2 == IF takes THEN Unlink(lists1, mem, next) ELSE lists1
      m1 == IF takes THEN PrevSize(mem, next + mem[next].size, size2)
            ELSE PrevSize(PrevUsed(mem, next, FALSE), next, size2)
      \* Headers inside the joined block are left over.
      m2 == [a \in Places |->
               IF a = b1 THEN [m1[a] EXCEPT !.size = size2, !.used = FALSE, !.prevUsed = prevUsed]
               ELSE IF a > b1 /\ a < b1 + size2 THEN Junk ELSE m1[a]]
  IN /\ mem' = m2
     /\ lists' = Insert(lists2, m2, b1)
     /\ free' = SatAdd(free, size2)
     /\ live' = live \ {x}

\* GlobalAlloc, with the first call's init.
HeapAlloc == \E l \in Layouts : Alloc(l)
HeapDealloc == \E x \in live : Dealloc(x)
-----------------------------------------------------------------------------
HeapInit ==
  /\ live = {}
  /\ LET total == ArenaEnd - ArenaStart
         whole == [size |-> total, used |-> FALSE, prevUsed |-> TRUE, prev |-> 0]
         empty == [c \in Class |-> <<>>]
     IN IF total < MinBlock
        THEN mem = [a \in Places |-> Junk] /\ lists = empty /\ free = 0
        ELSE /\ mem = [a \in Places |-> IF a = ArenaStart THEN whole ELSE Junk]
             /\ lists = Insert(empty, [a \in {ArenaStart} |-> whole], ArenaStart)
             /\ free = total
HeapNext == HeapAlloc \/ HeapDealloc
HeapSpec == HeapInit /\ [][HeapNext]_heapVars
-----------------------------------------------------------------------------
Used == SatSub(ArenaEnd - ArenaStart, free)
FreeBlocks == UNION {Range(lists[c]) : c \in Class}
\* Only the highest class that has a block is looked at.
LargestFreeBlock ==
  LET tops == {c \in Class : lists[c] # <<>>}
      fl == CHOOSE k \in {c[1] : c \in tops} : \A c \in tops : k >= c[1]
      sizes == {mem[b].size : b \in UNION {Range(lists[<<fl, sl>>]) : sl \in 0..(SlCount - 1)}}
  IN IF tops = {} THEN 0 ELSE CHOOSE n \in sizes : \A m \in sizes : n >= m

\* The blocks there are: from one to the next by the sizes in their headers.
Owners == {x.owner : x \in live}
Heads == FreeBlocks \cup Owners
SizeOf(b) == mem[b].size

(* After any sequence of calls the blocks fill the heap without a gap; each    *)
(* free block is on the list of its class, no two of them touch, and what a    *)
(* block says of the one before it is true where it is used to join them.      *)
HeapSound ==
  ArenaEnd - ArenaStart >= MinBlock =>
  /\ ArenaStart \in Heads /\ FreeBlocks \cap Owners = {}
  /\ \A b \in Heads : b + SizeOf(b) = ArenaEnd \/ b + SizeOf(b) \in Heads
  /\ \A a, b \in Heads : a < b => a + SizeOf(a) <= b
  /\ \A b \in FreeBlocks : /\ ~mem[b].used
                           /\ b \in Range(lists[InsertIndex(SizeOf(b))])
                           /\ b + SizeOf(b) \notin FreeBlocks
  /\ \A a, b \in Heads : b = a + SizeOf(a) =>
       mem[b].prevUsed = (a \in Owners) /\ (a \in FreeBlocks => mem[b].prev = SizeOf(a))

(* What callers hold is aligned as they asked, lies in the heap behind its      *)
(* block's header and prefix, and overlaps nothing of anyone else; and the     *)
(* largest free block that is reported is the largest.                         *)
PayloadsApart ==
  /\ \A x \in live :
       /\ x.payload % x.align = 0 /\ x.payload - Prefix >= x.owner + Header
       /\ x.payload + x.size <= x.owner + SizeOf(x.owner)
       /\ mem[x.owner].used
       /\ \A y \in live : x # y => x.payload + x.size <= y.owner \/ y.payload + y.size <= x.owner
  /\ \A b \in FreeBlocks : SizeOf(b) <= LargestFreeBlock

(* heap_tlsf.rs:302: what is reported as used is what the blocks in use take.  *)
UsedExact == Used = FoldSet(LAMBDA b, sum : sum + SizeOf(b), 0, Owners)

(* A call that finds no block fails only when no free block could hold what    *)
(* it asks for with its size rounded up to the next class: for every layout.   *)
FindsFit ==
  \A l \in Layouts :
    LET need == Max2(MinimumNeed(l), MinBlock)
    IN IF FindBlock(need) = {}
       THEN \A b \in FreeBlocks : SizeOf(b) < need + need \div SlCount + BlockAlign
       ELSE \A b \in FindBlock(need) : PlanSize(b, l) <= SizeOf(b)
=============================================================================
