------------------------------ MODULE OSHeap ------------------------------
(***************************************************************************)
(* The heaps of one arena (libraries/os/src/os_alloc.c).  An address and a *)
(* size count units of ALIGNMENT bytes, so that HEADERSIZE is one unit.    *)
(* The cells are kept in doubly linked lists that run through the arena's  *)
(* own memory: cell[a] is the header that stands at address a, NoCell when  *)
(* no list reaches a: that memory is the callers' and holds anything.      *)
(* Every call runs with interrupts disabled and is one step.  An assertion *)
(* of the arguments is a guard: the build without SDK_DEBUG is modelled.   *)
(***************************************************************************)
EXTENDS Integers, FiniteSets, SequencesExt

CONSTANTS ArenaSize,   \* units between arenaStart and arenaEnd, MINOBJSIZE at least
          NumHeaps,    \* numHeaps, not 0
          Requests     \* sizes asked for, in units, without the header; none is 0

MINOBJSIZE == 2
NoAddress == -1
Units == 0..(ArenaSize - 1)
Heaps == 0..(NumHeaps - 1)
Ranges == {r \in Units \X (1..ArenaSize) : r[1] < r[2]}

VARIABLES cell,          \* address -> [prev, next, size], the headers in memory
          heap,          \* heap -> [size, free, allocated], heapArray
          currentHeap,   \* heap that the handle -1 stands for
          fixed          \* ranges that callers hold from OS_AllocFixed

vars == <<cell, heap, currentHeap, fixed>>

(***************************************************************************)
(* The lists.                                                              *)
(***************************************************************************)
NoCell == [prev |-> NoAddress, next |-> NoAddress, size |-> 0]
OneCell(r) == [NoCell EXCEPT !.size = r[2] - r[1]]
OneFree(r) == [size |-> r[2] - r[1], free |-> r[1], allocated |-> NoAddress]
Inactive == [size |-> -1, free |-> NoAddress, allocated |-> NoAddress]

\* The cells that a loop over cell->next visits from address a on.
Chain(mem, a) ==
    LET at[k \in 0..ArenaSize] ==
            IF k = 0 THEN a
            ELSE LET p == at[k - 1] IN IF p = NoAddress THEN NoAddress ELSE mem[p].next
        visited == {k \in 0..ArenaSize : at[k] # NoAddress}
    IN  [k \in 1..Cardinality(visited) |-> at[k - 1]]

End(mem, c) == c + mem[c].size
Overlapping(r, s) == r[1] < s[2] /\ s[1] < r[2]

\* The memory after a call.
Headers(mem, hs) ==
    LET lists == UNION {{hs[h].free, hs[h].allocated} : h \in Heaps}
        reached == UNION {Range(Chain(mem, list)) : list \in lists}
    IN  [a \in Units |-> IF a \in reached THEN mem[a] ELSE NoCell]
Becomes(mem, hs) == heap' = hs /\ cell' = Headers(mem, hs)

\* The list operations return the memory and the list's new head.
DLAddFront(mem, list, c) ==
    LET m == [mem EXCEPT ![c].next = list, ![c].prev = NoAddress]
    IN  <<IF list # NoAddress THEN [m EXCEPT ![list].prev = c] ELSE m, c>>

DLExtract(mem, list, c) ==
    LET next == mem[c].next
        prev == mem[c].prev
        m == IF next # NoAddress THEN [mem EXCEPT ![next].prev = prev] ELSE mem
    IN  IF prev = NoAddress THEN <<m, next>>
        ELSE <<[m EXCEPT ![prev].next = next], list>>

\* A cell takes in the one that follows it, where they touch.
Absorb(mem, c, n) ==
    IF n # NoAddress /\ End(mem, c) = n
    THEN LET after == mem[n].next
             m == [mem EXCEPT ![c].size = @ + mem[n].size, ![c].next = after]
         IN  IF after # NoAddress THEN [m EXCEPT ![after].prev = c] ELSE m
    ELSE mem

\* c takes its place by address, then takes in its successor and is taken in by
\* its predecessor.
DLInsert(mem, list, c) ==
    LET chain == Chain(mem, list)
        before == SelectSeq(chain, LAMBDA x : x < c)
        prev == IF before = <<>> THEN NoAddress ELSE Last(before)
        next == IF Len(before) = Len(chain) THEN NoAddress ELSE chain[Len(before) + 1]
        m1 == [mem EXCEPT ![c].next = next, ![c].prev = prev]
        m2 == IF next # NoAddress THEN [m1 EXCEPT ![next].prev = c] ELSE m1
        m3 == Absorb(m2, c, next)
    IN  IF prev = NoAddress THEN <<m3, c>>
        ELSE <<Absorb([m3 EXCEPT ![prev].next = c], prev, c), list>>

\* Mutation: only the beginning of a is looked at.
RangeOverlap_Start(a, b) == b[1] <= a[1] /\ a[1] < b[2]

\* RangeOverlap(a, b) asks for an end of a inside b: it says FALSE of an a
\* that begins before b and ends after it.
RangeOverlap(a, b) ==
    \/ b[1] <= a[1] /\ a[1] < b[2]
    \/ b[1] < a[2] /\ a[2] <= b[2]

DLOverlap(mem, list, r) ==
    \E k \in DOMAIN Chain(mem, list) :
        LET c == Chain(mem, list)[k] IN RangeOverlap(<<c, End(mem, c)>>, r)

(***************************************************************************)
(* What is in use, for the callers' duties and the properties.             *)
(***************************************************************************)
Active == {h \in Heaps : heap[h].size >= 0}
CellsOf(list) == Range(Chain(cell, list))
Allocated == UNION {CellsOf(heap[h].allocated) : h \in Active}
Free == UNION {CellsOf(heap[h].free) : h \in Active}
Extent(c) == <<c, End(cell, c)>>
Unused(r) ==
    /\ \A c \in Allocated \cup Free : ~Overlapping(Extent(c), r)
    /\ \A f \in fixed : ~Overlapping(f, r)
Handles == Heaps \cup {-1}
Resolved(handle) == IF handle < 0 THEN currentHeap ELSE handle

(***************************************************************************)
(* The calls.                                                              *)
(***************************************************************************)
\* After OS_InitAlloc: no heap is active.
Init ==
    /\ cell = [a \in Units |-> NoCell]
    /\ heap = [h \in Heaps |-> Inactive]
    /\ currentHeap = -1
    /\ fixed = {}

\* The first inactive descriptor becomes a heap of one free cell.
OS_CreateHeap(r) ==
    /\ r[2] - r[1] >= MINOBJSIZE /\ Unused(r)
    /\ \E h \in Heaps \ Active :
        /\ \A g \in Heaps \ Active : h <= g
        /\ Becomes([cell EXCEPT ![r[1]] = OneCell(r)], [heap EXCEPT ![h] = OneFree(r)])
    /\ UNCHANGED <<currentHeap, fixed>>

\* The handle is not forgotten as the current one.
OS_DestroyHeap(h) ==
    /\ h \in Active
    /\ Becomes(cell, [heap EXCEPT ![h] = Inactive])
    /\ UNCHANGED <<currentHeap, fixed>>

OS_SetCurrentHeap(h) ==
    /\ h \in Active
    /\ currentHeap' = h
    /\ UNCHANGED <<cell, heap, fixed>>

\* The rest of a free cell that is not taken whole stands in its place.
SplitRest(mem, h, c, size) ==
    LET new == c + size
        m1 == [mem EXCEPT ![c].size = size,
                          ![new] = [mem[c] EXCEPT !.size = mem[c].size - size]]
        m2 == IF mem[c].next # NoAddress THEN [m1 EXCEPT ![mem[c].next].prev = new] ELSE m1
    IN  IF mem[c].prev # NoAddress
        THEN <<[m2 EXCEPT ![mem[c].prev].next = new], heap[h].free>>
        ELSE <<m2, new>>

\* The first free cell that is large enough; NoAddress is returned when there
\* is none, or when the current heap has been destroyed.
OS_AllocFromHeap(handle, request) ==
    LET h == Resolved(handle)
        size == request + 1
        fits == SelectSeq(Chain(cell, heap[h].free), LAMBDA c : size <= cell[c].size)
    IN  /\ h \in Heaps /\ (handle < 0 \/ h \in Active)
        /\ fits # <<>>
        /\ LET c == Head(fits)
               taken == IF cell[c].size - size < MINOBJSIZE
                        THEN DLExtract(cell, heap[h].free, c)
                        ELSE SplitRest(cell, h, c, size)
               added == DLAddFront(taken[1], heap[h].allocated, c)
           IN  Becomes(added[1],
                       [heap EXCEPT ![h].free = taken[2], ![h].allocated = added[2]])
        /\ UNCHANGED <<currentHeap, fixed>>

Freed(mem, hd, c) ==
    LET out == DLExtract(mem, hd.allocated, c)
        in == DLInsert(out[1], hd.free, c)
    IN  [mem |-> in[1], hd |-> [hd EXCEPT !.allocated = out[2], !.free = in[2]]]

OS_FreeToHeap(handle, c) ==
    LET h == Resolved(handle)
        freed == Freed(cell, heap[h], c)
    IN  /\ h \in Active /\ c \in CellsOf(heap[h].allocated)
        /\ Becomes(freed.mem, [heap EXCEPT ![h] = freed.hd])
        /\ UNCHANGED <<currentHeap, fixed>>

OS_FreeAllToHeap(handle) ==
    LET h == Resolved(handle)
        free(s, c) == Freed(s.mem, s.hd, c)
        freed == FoldLeft(free, [mem |-> cell, hd |-> heap[h]], Chain(cell, heap[h].allocated))
    IN  /\ h \in Active /\ heap[h].allocated # NoAddress
        /\ Becomes(freed.mem, [heap EXCEPT ![h] = freed.hd])
        /\ UNCHANGED <<currentHeap, fixed>>

\* A range that belongs to nobody, or that a caller gives back, joins a heap.
OS_AddToHeap(h, r) ==
    LET in == DLInsert([cell EXCEPT ![r[1]].size = r[2] - r[1]], heap[h].free, r[1])
    IN  /\ h \in Active /\ r[2] - r[1] >= MINOBJSIZE
        /\ r \in fixed \/ Unused(r)
        /\ Becomes(in[1], [heap EXCEPT ![h].size = @ + (r[2] - r[1]), ![h].free = in[2]])
        /\ fixed' = fixed \ {r}
        /\ UNCHANGED currentHeap

\* The heap starts again as one free cell; what was allocated is forgotten.
\* The caller names a range no other heap and no other caller uses.
OS_ClearHeap(h, r) ==
    /\ h \in Active /\ r[2] - r[1] >= MINOBJSIZE
    /\ \A g \in Active \ {h} : \A c \in CellsOf(heap[g].free) \cup CellsOf(heap[g].allocated) :
            ~Overlapping(Extent(c), r)
    /\ \A f \in fixed : ~Overlapping(f, r)
    /\ Becomes([cell EXCEPT ![r[1]] = OneCell(r)], [heap EXCEPT ![h] = OneFree(r)])
    /\ UNCHANGED <<currentHeap, fixed>>

(***************************************************************************)
(* OS_AllocFixed cuts the range out of every heap's free cells.  The range *)
(* grows over what would be left of a cell and is smaller than MINOBJSIZE. *)
(* s is what the loop carries: the memory, one heap's descriptor, the      *)
(* range and whether the loop over the heap's cells has ended.             *)
(***************************************************************************)
FrontCut(s, c) == s.start - 1 <= c /\ c < s.end
BackCut(s, c) == s.start <= End(s.mem, c) /\ End(s.mem, c) < s.end + MINOBJSIZE

CutWhole(s, c) ==
    LET out == DLExtract(s.mem, s.hd.free, c)
        lo == IF c < s.start THEN c ELSE s.start
        hi == IF s.end < End(s.mem, c) THEN End(s.mem, c) ELSE s.end
    IN  [s EXCEPT !.mem = out[1], !.start = lo, !.end = hi,
                  !.hd = [@ EXCEPT !.free = out[2], !.size = @ - s.mem[c].size]]

\* What follows the range becomes a cell of its own, linked where prev says.
Rest(s, c, prev) ==
    LET m == [s.mem EXCEPT ![s.end] = [prev |-> prev, next |-> s.mem[c].next,
                                       size |-> End(s.mem, c) - s.end]]
    IN  IF s.mem[c].next # NoAddress THEN [m EXCEPT ![s.mem[c].next].prev = s.end] ELSE m

CutFront(s, c) ==
    LET lo == IF c < s.start THEN c ELSE s.start
        prev == s.mem[c].prev
        m == Rest(s, c, prev)
    IN  [s EXCEPT !.start = lo, !.done = TRUE,
                  !.mem = IF prev # NoAddress THEN [m EXCEPT ![prev].next = s.end] ELSE m,
                  !.hd = [@ EXCEPT !.free = IF prev # NoAddress THEN @ ELSE s.end,
                                   !.size = @ - (s.end - c)]]

CutBack(s, c) ==
    LET hi == IF s.end < End(s.mem, c) THEN End(s.mem, c) ELSE s.end
    IN  [s EXCEPT !.end = hi, !.mem = [@ EXCEPT ![c].size = s.start - c],
                  !.hd = [@ EXCEPT !.size = @ - (End(s.mem, c) - s.start)]]

CutMiddle(s, c) ==
    [s EXCEPT !.done = TRUE,
              !.mem = [Rest(s, c, c) EXCEPT ![c].next = s.end, ![c].size = s.start - c],
              !.hd = [@ EXCEPT !.size = @ - (s.end - s.start)]]

CutCell(s, c) ==
    IF s.done \/ End(s.mem, c) <= s.start THEN s
    ELSE IF s.end <= c THEN [s EXCEPT !.done = TRUE]
    ELSE IF FrontCut(s, c) THEN IF BackCut(s, c) THEN CutWhole(s, c) ELSE CutFront(s, c)
    ELSE IF BackCut(s, c) THEN CutBack(s, c) ELSE CutMiddle(s, c)

CutHeap(t, h) ==
    IF heap[h].size < 0 THEN t
    ELSE LET s == [mem |-> t.mem, hd |-> t.heap[h], start |-> t.start, end |-> t.end,
                   done |-> FALSE]
             cut == FoldLeft(CutCell, s, Chain(t.mem, t.heap[h].free))
         IN  [mem |-> cut.mem, heap |-> [t.heap EXCEPT ![h] = cut.hd],
              start |-> cut.start, end |-> cut.end]

OS_AllocFixed(r) ==
    LET cut == FoldLeft(CutHeap, [mem |-> cell, heap |-> heap, start |-> r[1], end |-> r[2]],
                        [k \in 1..NumHeaps |-> k - 1])
    IN  /\ \A f \in fixed : ~Overlapping(f, r)
        /\ \A h \in Active : ~DLOverlap(cell, heap[h].allocated, r)
        /\ Becomes(cut.mem, cut.heap)
        /\ fixed' = fixed \cup {<<cut.start, cut.end>>}
        /\ UNCHANGED currentHeap

\* The calls DLOverlap judges right: no allocated cell surrounds the range.
NotInside(r) == \A c \in Allocated : ~(c < r[1] /\ r[2] < End(cell, c))

Call ==
    \/ \E r \in Ranges : OS_CreateHeap(r)
    \/ \E h \in Heaps : OS_DestroyHeap(h) \/ OS_SetCurrentHeap(h)
    \/ \E h \in Handles, n \in Requests : OS_AllocFromHeap(h, n)
    \/ \E h \in Handles, c \in Units : OS_FreeToHeap(h, c)
    \/ \E h \in Handles : OS_FreeAllToHeap(h)
    \/ \E h \in Heaps, r \in Ranges : OS_AddToHeap(h, r)
    \/ \E h \in Heaps, r \in Ranges : OS_ClearHeap(h, r)

Next == Call \/ \E r \in Ranges : NotInside(r) /\ OS_AllocFixed(r)
Spec == Init /\ [][Next]_vars

(***************************************************************************)
(* Properties.                                                             *)
(***************************************************************************)
\* OS_CheckHeap's own tests of one list: back links, sizes, and for the
\* free list an order in which no two cells touch.
ListChecks(list, sorted) ==
    /\ list # NoAddress => cell[list].prev = NoAddress
    /\ \A c \in CellsOf(list) :
        /\ cell[c].next # NoAddress => cell[cell[c].next].prev = c
        /\ cell[c].size >= MINOBJSIZE
        /\ sorted /\ cell[c].next # NoAddress => End(cell, c) < cell[c].next

\* OS_CheckHeap passes of every active heap after any calls: the links of
\* both lists, a free list in which neighbours are joined, and a heap size
\* that is the sum of the cells, whatever OS_AllocFixed has cut out.
HeapsCheck ==
    \A h \in Active :
        LET cells == CellsOf(heap[h].allocated) \cup CellsOf(heap[h].free)
            size(c) == cell[c].size
        IN  /\ ListChecks(heap[h].allocated, FALSE)
            /\ ListChecks(heap[h].free, TRUE)
            /\ heap[h].size = MapThenSumSet(size, cells)

\* No memory has two uses: the cells of all heaps and the ranges that
\* callers hold lie in the arena and do not overlap, so that neither an
\* allocated block nor a list's header is overwritten by another's owner.
MemoryHasOneUse ==
    LET used == {Extent(c) : c \in Allocated \cup Free} \cup fixed
    IN  /\ Allocated \cap Free = {}
        /\ Cardinality(used) = Cardinality(Allocated) + Cardinality(Free) + Cardinality(fixed)
        /\ \A r \in used : 0 <= r[1] /\ r[2] <= ArenaSize
        /\ \A r, s \in used : r # s => ~Overlapping(r, s)
=============================================================================
