-------------------------- MODULE AllocatorProofs --------------------------
(***************************************************************************)
(* What vm_alloc and vm_free do to a list of nodes, for every list that    *)
(* tiles the heap and is ordered.  HeapProofs and SystemProofs rest on it. *)
(***************************************************************************)
EXTENDS Allocator, TLAPS

(* The fields of the nodes of a list.                                      *)
LEMMA NodeFields ==
  ASSUME NEW ns \in Seq(Node), NEW i \in 1..Len(ns)
  PROVE  /\ ns[i].begin \in Nat /\ ns[i].size \in Nat
         /\ ns[i].free \in BOOLEAN
<1>1. ns[i] \in Node
  OBVIOUS
<1>. QED  BY <1>1 DEF Node

(* Carve makes a node list of a node list.                                 *)
LEMMA CarveType ==
  ASSUME NEW ns \in Seq(Node), NEW size \in Nat, NEW i \in 1..Len(ns),
         Fits(ns, i, size)
  PROVE  /\ Carve(ns, i, size) \in Seq(Node)
         /\ Len(Carve(ns, i, size)) = Len(ns) + 1
<1>1. \A j \in 1..Len(ns) : ns[j] \in Node
  OBVIOUS
<1>2. ns[i].size - size \in Nat
  BY <1>1 DEF Fits, Node
<1>3. ns[i].begin + size \in Nat
  BY <1>1 DEF Node
<1>. DEFINE cell(j) ==
       IF j < i THEN ns[j]
       ELSE IF j = i
       THEN [begin |-> ns[i].begin, size |-> size, free |-> FALSE]
       ELSE IF j = i + 1
       THEN [begin |-> ns[i].begin + size, size |-> ns[i].size - size,
             free |-> TRUE]
       ELSE ns[j-1]
<1>4. \A j \in 1..(Len(ns) + 1) : cell(j) \in Node
  BY <1>1, <1>2, <1>3 DEF Node
<1>5. Carve(ns, i, size) = [j \in 1..(Len(ns) + 1) |-> cell(j)]
  BY DEF Carve
<1>. HIDE DEF cell
<1>. QED  BY <1>4, <1>5

(* Release makes a node list of a node list.                               *)
LEMMA ReleaseType ==
  ASSUME NEW ns \in Seq(Node), NEW i \in 1..Len(ns)
  PROVE  /\ Release(ns, i) \in Seq(Node)
         /\ Len(Release(ns, i)) =
              IF NextIsFree(ns, i) THEN Len(ns) - 1 ELSE Len(ns)
<1>1. \A j \in 1..Len(ns) : ns[j] \in Node
  OBVIOUS
<1>2. CASE NextIsFree(ns, i)
  <2>. DEFINE cell(j) ==
         IF j < i THEN ns[j]
         ELSE IF j = i
         THEN [begin |-> ns[i].begin, size |-> ns[i].size + ns[i+1].size,
               free |-> TRUE]
         ELSE ns[j+1]
  <2>1. i < Len(ns)
    BY <1>2 DEF NextIsFree
  <2>2. ASSUME NEW j \in 1..(Len(ns) - 1)
        PROVE  cell(j) \in Node
    <3>1. ns[j] \in Node /\ ns[j+1] \in Node
      BY <1>1
    <3>2. ns[i].begin \in Nat /\ ns[i].size + ns[i+1].size \in Nat
      BY <2>1, NodeFields
    <3>. QED  BY <3>1, <3>2 DEF Node
  <2>3. Release(ns, i) = [j \in 1..(Len(ns) - 1) |-> cell(j)]
    BY <1>2 DEF Release
  <2>. HIDE DEF cell
  <2>. QED  BY <1>2, <2>1, <2>2, <2>3
<1>3. CASE ~NextIsFree(ns, i)
  <2>. DEFINE cell(j) ==
         IF j = i
         THEN [begin |-> ns[i].begin, size |-> ns[i].size, free |-> TRUE]
         ELSE ns[j]
  <2>1. \A j \in 1..Len(ns) : cell(j) \in Node
    BY <1>1 DEF Node
  <2>2. Release(ns, i) = [j \in 1..Len(ns) |-> cell(j)]
    BY <1>3 DEF Release
  <2>. HIDE DEF cell
  <2>. QED  BY <1>3, <2>1, <2>2
<1>. QED  BY <1>2, <1>3

(* A list that tiles the heap and is ordered still does and is after a cut.*)
LEMMA CarveTiles ==
  ASSUME NEW ns \in Seq(Node), NEW size \in Nat, NEW i \in 1..Len(ns),
         Fits(ns, i, size), Tiles(ns), Ordered(ns)
  PROVE  Tiles(Carve(ns, i, size)) /\ Ordered(Carve(ns, i, size))
<1>. DEFINE ms == Carve(ns, i, size)
<1>1. /\ ms \in Seq(Node)
      /\ Len(ms) = Len(ns) + 1
  BY CarveType
<1>2. Len(ns) \in Nat /\ Len(ms) \in Nat
  BY <1>1
<1>3. /\ \A j \in 1..Len(ns) : ns[j].begin \in Nat /\ ns[j].size \in Nat
      /\ \A j \in 1..Len(ms) : ms[j].begin \in Nat /\ ms[j].size \in Nat
  BY <1>1, NodeFields
<1>4. /\ \A j \in 1..(i-1) : ms[j] = ns[j]
      /\ ms[i].begin = ns[i].begin /\ ms[i].size = size
      /\ ms[i+1].begin = ns[i].begin + size
      /\ ms[i+1].size = ns[i].size - size
      /\ \A j \in (i+2)..(Len(ns)+1) : ms[j] = ns[j-1]
  BY DEF Carve
<1>5. /\ ns[1].begin = HEAP_BASE
      /\ ns[Len(ns)].begin + ns[Len(ns)].size = STACK_BASE
      /\ \A j \in 1..(Len(ns)-1) : ns[j].begin + ns[j].size = ns[j+1].begin
      /\ \A j, k \in 1..Len(ns) :
           j < k => ns[j].begin + ns[j].size <= ns[k].begin
      /\ size <= ns[i].size
  BY DEF Tiles, Ordered, End, Fits
<1>. HIDE DEF ms
<1>6. ms[1].begin = HEAP_BASE
  BY <1>4, <1>5
<1>7. ms[Len(ms)].begin + ms[Len(ms)].size = STACK_BASE
  <2>1. CASE i = Len(ns)
    BY <2>1, <1>1, <1>2, <1>3, <1>4, <1>5
  <2>2. CASE i < Len(ns)
    <3>1. ms[Len(ms)] = ns[Len(ns)]
      BY <2>2, <1>1, <1>2, <1>4
    <3>. QED  BY <3>1, <1>5
  <2>. QED  BY <2>1, <2>2
<1>8. ASSUME NEW j \in 1..(Len(ms) - 1)
      PROVE  ms[j].begin + ms[j].size = ms[j+1].begin
  <2>1. CASE j < i - 1
    <3>1. ms[j] = ns[j] /\ ms[j+1] = ns[j+1]
      BY <2>1, <1>2, <1>4
    <3>. QED  BY <3>1, <2>1, <1>2, <1>5
  <2>2. CASE j = i - 1
    <3>1. ms[j] = ns[j] /\ ms[j+1].begin = ns[j+1].begin
      BY <2>2, <1>2, <1>4
    <3>. QED  BY <3>1, <2>2, <1>2, <1>5
  <2>3. CASE j = i
    BY <2>3, <1>4
  <2>4. CASE j = i + 1
    <3>1. ms[j+1] = ns[j]
      BY <2>4, <1>1, <1>2, <1>4
    <3>2. ms[j].begin + ms[j].size = ns[i].begin + ns[i].size
      BY <2>4, <1>3, <1>4
    <3>3. ns[i].begin + ns[i].size = ns[i+1].begin
      BY <2>4, <1>1, <1>2, <1>5
    <3>. QED  BY <2>4, <3>1, <3>2, <3>3
  <2>5. CASE j > i + 1
    <3>1. ms[j] = ns[j-1] /\ ms[j+1] = ns[j]
      BY <2>5, <1>1, <1>2, <1>4
    <3>2. j - 1 \in 1..(Len(ns)-1) /\ (j - 1) + 1 = j
      BY <2>5, <1>1, <1>2
    <3>3. ns[j-1].begin + ns[j-1].size = ns[(j-1)+1].begin
      BY <3>2, <1>5
    <3>. QED  BY <3>1, <3>2, <3>3
  <2>. QED  BY <2>1, <2>2, <2>3, <2>4, <2>5, <1>1, <1>2
<1>9. ASSUME NEW j \in 1..Len(ms), NEW k \in 1..Len(ms), j < k
      PROVE  ms[j].begin + ms[j].size <= ms[k].begin
  <2>. DEFINE old(m) == IF m <= i THEN m ELSE m - 1
  <2>1. old(j) \in 1..Len(ns) /\ old(k) \in 1..Len(ns)
    BY <1>1, <1>2
  <2>2. ASSUME NEW m \in 1..Len(ms)
        PROVE  /\ ms[m].begin + ms[m].size
                    <= ns[old(m)].begin + ns[old(m)].size
               /\ ns[old(m)].begin <= ms[m].begin
    <3>1. CASE m < i
      <4>1. ms[m] = ns[m] /\ old(m) = m /\ m \in 1..Len(ns)
        BY <3>1, <1>4, <1>2
      <4>. QED  BY <4>1, <1>3
    <3>. /\ i \in Nat /\ size \in Nat
         /\ ns[i].begin \in Nat /\ ns[i].size \in Nat
      BY <1>3
    <3>2. CASE m = i
      <4>1. old(m) = i
        BY <3>2
      <4>. QED  BY <4>1, <3>2, <1>4, <1>5
    <3>3. CASE m = i + 1
      <4>1. old(m) = i
        BY <3>3
      <4>2. ms[m].begin = ns[i].begin + size /\ ms[m].size = ns[i].size - size
        BY <3>3, <1>4
      <4>. HIDE DEF old
      <4>. QED  BY <4>1, <4>2, <1>5
    <3>4. CASE m > i + 1
      <4>1. ms[m] = ns[m-1] /\ old(m) = m - 1 /\ m - 1 \in 1..Len(ns)
        BY <3>4, <1>1, <1>2, <1>4
      <4>. QED  BY <4>1, <1>3
    <3>5. m < i \/ m = i \/ m = i + 1 \/ m > i + 1
      BY <1>2
    <3>. QED  BY ONLY <3>1, <3>2, <3>3, <3>4, <3>5
  <2>. HIDE DEF old
  <2>3. CASE old(j) < old(k)
    <3>1. ns[old(j)].begin + ns[old(j)].size <= ns[old(k)].begin
      BY <2>1, <2>3, <1>5
    <3>2. /\ ms[j].begin \in Nat /\ ms[j].size \in Nat
          /\ ms[k].begin \in Nat
      BY <1>3
    <3>3. /\ ns[old(j)].begin \in Nat /\ ns[old(j)].size \in Nat
          /\ ns[old(k)].begin \in Nat
      BY <1>3, <2>1
    <3>4. /\ ms[j].begin + ms[j].size
               <= ns[old(j)].begin + ns[old(j)].size
          /\ ns[old(k)].begin <= ms[k].begin
      BY <2>2
    <3>5. /\ ms[j].begin + ms[j].size \in Int
          /\ ns[old(j)].begin + ns[old(j)].size \in Int
      <4>1. ms[j].begin + ms[j].size \in Int
        BY ONLY <3>2, SMTT(60)
      <4>2. ns[old(j)].begin + ns[old(j)].size \in Int
        BY ONLY <3>3, SMTT(60)
      <4>. QED  BY <4>1, <4>2
    <3>6. ms[j].begin + ms[j].size <= ns[old(k)].begin
      BY <3>1, <3>3, <3>4, <3>5
    <3>. QED  BY <3>2, <3>3, <3>4, <3>5, <3>6
  <2>4. CASE ~(old(j) < old(k))
    <3>1. j = i /\ k = i + 1
      BY <2>4, <1>2, <1>9 DEF old
    <3>. QED  BY <3>1, <1>3, <1>4
  <2>. QED  BY <2>3, <2>4
<1>10. ms # <<>>
  BY <1>1, <1>2
<1>11. Tiles(ms) /\ Ordered(ms)
  BY <1>6, <1>7, <1>8, <1>9, <1>10 DEF Tiles, Ordered, End
<1>. QED  BY <1>11 DEF ms

(* So it is after a release.                                               *)
LEMMA ReleaseTiles ==
  ASSUME NEW ns \in Seq(Node), NEW i \in 1..Len(ns), Tiles(ns), Ordered(ns)
  PROVE  Tiles(Release(ns, i)) /\ Ordered(Release(ns, i))
<1>. DEFINE ms == Release(ns, i)
<1>1. /\ ms \in Seq(Node)
      /\ Len(ms) = IF NextIsFree(ns, i) THEN Len(ns) - 1 ELSE Len(ns)
  BY ReleaseType
<1>2. Len(ns) \in Nat /\ Len(ms) \in Nat
  BY <1>1
<1>3. /\ \A j \in 1..Len(ns) : ns[j].begin \in Nat /\ ns[j].size \in Nat
      /\ \A j \in 1..Len(ms) : ms[j].begin \in Nat /\ ms[j].size \in Nat
  BY <1>1, NodeFields
<1>4. /\ ns[1].begin = HEAP_BASE
      /\ ns[Len(ns)].begin + ns[Len(ns)].size = STACK_BASE
      /\ \A j \in 1..(Len(ns)-1) : ns[j].begin + ns[j].size = ns[j+1].begin
      /\ \A j, k \in 1..Len(ns) :
           j < k => ns[j].begin + ns[j].size <= ns[k].begin
  BY DEF Tiles, Ordered, End
(* Each node of the result spans the nodes from first(m) to last(m).       *)
<1>5. ASSUME NEW first, NEW last,
             \A m \in 1..Len(ms) :
               /\ first[m] \in 1..Len(ns) /\ last[m] \in 1..Len(ns)
               /\ ms[m].begin = ns[first[m]].begin
               /\ ms[m].begin + ms[m].size
                    = ns[last[m]].begin + ns[last[m]].size,
             Len(ms) >= 1, first[1] = 1, last[Len(ms)] = Len(ns),
             \A m \in 1..(Len(ms)-1) : last[m] + 1 = first[m+1],
             \A j, k \in 1..Len(ms) : j < k => last[j] < first[k]
      PROVE  Tiles(ms) /\ Ordered(ms)
  <2>. HIDE DEF ms
  <2>1. ms # <<>> /\ 1 \in 1..Len(ms) /\ Len(ms) \in 1..Len(ms)
    BY <1>1, <1>2, <1>5
  <2>2. ms[1].begin = HEAP_BASE
    BY <2>1, <1>4, <1>5
  <2>3. ms[Len(ms)].begin + ms[Len(ms)].size = STACK_BASE
    BY <2>1, <1>4, <1>5
  <2>4. ASSUME NEW m \in 1..(Len(ms)-1)
        PROVE  ms[m].begin + ms[m].size = ms[m+1].begin
    <3>1. m \in 1..Len(ms) /\ m + 1 \in 1..Len(ms)
      BY <1>2
    <3>2. /\ last[m] \in 1..Len(ns) /\ first[m+1] \in 1..Len(ns)
          /\ last[m] + 1 = first[m+1]
      BY <3>1, <1>5
    <3>3. last[m] \in 1..(Len(ns)-1)
      BY <3>2, <1>2
    <3>4. ns[last[m]].begin + ns[last[m]].size = ns[first[m+1]].begin
      BY <3>2, <3>3, <1>4
    <3>. QED  BY <3>1, <3>4, <1>5
  <2>5. ASSUME NEW j \in 1..Len(ms), NEW k \in 1..Len(ms), j < k
        PROVE  ms[j].begin + ms[j].size <= ms[k].begin
    <3>1. ns[last[j]].begin + ns[last[j]].size <= ns[first[k]].begin
      BY <2>5, <1>4, <1>5
    <3>. QED  BY <3>1, <1>5
  <2>. QED  BY <2>1, <2>2, <2>3, <2>4, <2>5 DEF Tiles, Ordered, End
<1>6. ASSUME NextIsFree(ns, i)
      PROVE  Tiles(ms) /\ Ordered(ms)
  <2>. DEFINE first == [m \in 1..Len(ms) |-> IF m <= i THEN m ELSE m + 1]
              last  == [m \in 1..Len(ms) |-> IF m < i THEN m ELSE m + 1]
  <2>1. i + 1 \in 1..Len(ns) /\ Len(ms) = Len(ns) - 1
    BY <1>1, <1>2, <1>6 DEF NextIsFree
  <2>2. /\ \A m \in 1..(i-1) : ms[m] = ns[m]
        /\ ms[i].begin = ns[i].begin
        /\ ms[i].size = ns[i].size + ns[i+1].size
        /\ \A m \in (i+1)..(Len(ns)-1) : ms[m] = ns[m+1]
    BY <2>1, <1>6, <1>2 DEF Release
  <2>3. ms[i].begin + ms[i].size = ns[i+1].begin + ns[i+1].size
    <3>1. i \in 1..(Len(ns)-1)
      BY <2>1, <1>2
    <3>2. ns[i].begin + ns[i].size = ns[i+1].begin
      BY <3>1, <1>4
    <3>3. /\ ns[i].begin \in Nat /\ ns[i].size \in Nat
          /\ ns[i+1].begin \in Nat /\ ns[i+1].size \in Nat
      BY <2>1, <1>3
    <3>. QED  BY <3>2, <3>3, <2>2
  <2>. HIDE DEF ms
  <2>4. ASSUME NEW m \in 1..Len(ms)
        PROVE  /\ first[m] \in 1..Len(ns) /\ last[m] \in 1..Len(ns)
               /\ ms[m].begin = ns[first[m]].begin
               /\ ms[m].begin + ms[m].size
                    = ns[last[m]].begin + ns[last[m]].size
    <3>1. CASE m < i
      <4>1. first[m] = m /\ last[m] = m /\ m \in 1..Len(ns) /\ m \in 1..(i-1)
        BY <3>1, <1>2
      <4>. QED  BY <4>1, <2>2
    <3>2. CASE m = i
      <4>1. first[m] = i /\ last[m] = i + 1
        BY <3>2
      <4>. QED  BY <4>1, <3>2, <2>1, <2>2, <2>3
    <3>3. CASE m > i
      <4>1. /\ first[m] = m + 1 /\ last[m] = m + 1 /\ m + 1 \in 1..Len(ns)
            /\ m \in (i+1)..(Len(ns)-1)
        BY <3>3, <2>1, <1>2
      <4>. QED  BY <4>1, <2>2
    <3>. QED  BY <3>1, <3>2, <3>3
  <2>5. /\ Len(ms) >= 1 /\ first[1] = 1 /\ last[Len(ms)] = Len(ns)
        /\ \A m \in 1..(Len(ms)-1) : last[m] + 1 = first[m+1]
        /\ \A j, k \in 1..Len(ms) : j < k => last[j] < first[k]
    BY <2>1, <1>2
  <2>. HIDE DEF first, last
  <2>. QED  BY <2>4, <2>5, <1>5
<1>7. ASSUME ~NextIsFree(ns, i)
      PROVE  Tiles(ms) /\ Ordered(ms)
  <2>1. Len(ms) = Len(ns)
    BY <1>1, <1>7
  <2>2. \A m \in 1..Len(ns) :
          ms[m].begin = ns[m].begin /\ ms[m].size = ns[m].size
    BY <1>7 DEF Release
  <2>3. Len(ns) >= 1
    BY <1>2
  <2>. HIDE DEF ms
  <2>4. ms # <<>>
    BY <2>1, <2>3
  <2>5. \A m \in 1..(Len(ms)-1) : ms[m].begin + ms[m].size = ms[m+1].begin
    BY <2>1, <2>2, <1>2, <1>4
  <2>6. \A j, k \in 1..Len(ms) :
          j < k => ms[j].begin + ms[j].size <= ms[k].begin
    BY <2>1, <2>2, <1>4
  <2>7. /\ ms[1].begin = HEAP_BASE
        /\ ms[Len(ms)].begin + ms[Len(ms)].size = STACK_BASE
    BY <2>1, <2>2, <2>3, <1>2, <1>4
  <2>. QED  BY <2>4, <2>5, <2>6, <2>7 DEF Tiles, Ordered, End
<1>. QED  BY <1>6, <1>7

----------------------------------------------------------------------------
(* Where the node j of a list is found after vm_alloc has cut node i, and  *)
(* after vm_free has released it.                                          *)
AfterCarve(i, j) == IF j < i THEN j ELSE j + 1

AfterRelease(ns, i, j) == IF NextIsFree(ns, i) /\ j > i THEN j - 1 ELSE j

SameUse(m, n) == /\ m.free = n.free
                 /\ m.begin = n.begin /\ m.size = n.size

(* vm_alloc leaves every node in use as it is.                             *)
LEMMA CarveKeeps ==
  ASSUME NEW ns \in Seq(Node), NEW size \in Nat, NEW i \in 1..Len(ns),
         Fits(ns, i, size), NEW j \in 1..Len(ns), ~ns[j].free
  PROVE  /\ AfterCarve(i, j) \in 1..Len(Carve(ns, i, size))
         /\ AfterCarve(i, j) # i
         /\ SameUse(Carve(ns, i, size)[AfterCarve(i, j)], ns[j])
<1>1. Len(Carve(ns, i, size)) = Len(ns) + 1
  BY CarveType
<1>2. j # i
  BY DEF Fits
<1>3. CASE j < i
  <2>1. Carve(ns, i, size)[j] = ns[j]
    BY <1>3 DEF Carve
  <2>. QED  BY <1>1, <1>3, <2>1 DEF AfterCarve, SameUse
<1>4. CASE j > i
  <2>1. Carve(ns, i, size)[j+1] = ns[j]
    BY <1>4 DEF Carve
  <2>. QED  BY <1>1, <1>4, <2>1 DEF AfterCarve, SameUse
<1>. QED  BY <1>2, <1>3, <1>4

(* vm_free leaves every node in use as it is, but the one it releases.     *)
LEMMA ReleaseKeeps ==
  ASSUME NEW ns \in Seq(Node), NEW i \in 1..Len(ns),
         NEW j \in 1..Len(ns), ~ns[j].free, j # i
  PROVE  /\ AfterRelease(ns, i, j) \in 1..Len(Release(ns, i))
         /\ SameUse(Release(ns, i)[AfterRelease(ns, i, j)], ns[j])
<1>1. Len(Release(ns, i)) =
        IF NextIsFree(ns, i) THEN Len(ns) - 1 ELSE Len(ns)
  BY ReleaseType
<1>2. CASE NextIsFree(ns, i) /\ j > i
  <2>1. j # i + 1 /\ i < Len(ns)
    BY <1>2 DEF NextIsFree
  <2>2. Release(ns, i)[j-1] = ns[j]
    BY <1>2, <2>1 DEF Release
  <2>. QED  BY <1>1, <1>2, <2>1, <2>2 DEF AfterRelease, SameUse
<1>3. CASE NextIsFree(ns, i) /\ j < i
  <2>1. i < Len(ns)
    BY <1>3 DEF NextIsFree
  <2>2. Release(ns, i)[j] = ns[j]
    BY <1>3, <2>1 DEF Release
  <2>. QED  BY <1>1, <1>3, <2>1, <2>2 DEF AfterRelease, SameUse
<1>4. CASE ~NextIsFree(ns, i)
  <2>1. Release(ns, i)[j] = ns[j]
    BY <1>4 DEF Release
  <2>. QED  BY <1>1, <1>4, <2>1 DEF AfterRelease, SameUse
<1>. QED  BY <1>2, <1>3, <1>4

(* Nodes in use are not confused with each other.                          *)
LEMMA ReleaseInjective ==
  ASSUME NEW ns \in Seq(Node), NEW i \in 1..Len(ns),
         NEW j \in 1..Len(ns), NEW k \in 1..Len(ns),
         j # i, k # i, j # k
  PROVE  AfterRelease(ns, i, j) # AfterRelease(ns, i, k)
BY DEF AfterRelease

(* Nor after vm_alloc has cut a node (allocator.c:14-23).                  *)
LEMMA CarveInjective ==
  ASSUME NEW ns \in Seq(Node), NEW i \in 1..Len(ns),
         NEW j \in 1..Len(ns), NEW k \in 1..Len(ns), j # k
  PROVE  AfterCarve(i, j) # AfterCarve(i, k)
BY DEF AfterCarve

----------------------------------------------------------------------------
(* A node of a list that tiles the heap lies in the heap.                  *)
LEMMA NodeInHeap ==
  ASSUME NEW ns \in Seq(Node), Tiles(ns), Ordered(ns), NEW i \in 1..Len(ns)
  PROVE  HEAP_BASE <= ns[i].begin /\ End(ns[i]) <= STACK_BASE
<1>. DEFINE n == Len(ns)
<1>1. n \in Nat /\ 1 \in 1..n /\ n \in 1..n
  OBVIOUS
<1>2. \A j \in 1..n : ns[j].begin \in Nat /\ ns[j].size \in Nat
  BY NodeFields
<1>3. ns[1].begin = HEAP_BASE /\ End(ns[n]) = STACK_BASE
  BY DEF Tiles
<1>. HIDE DEF n
<1>4. HEAP_BASE <= ns[i].begin
  <2>1. CASE i = 1
    BY <2>1, <1>1, <1>2, <1>3
  <2>2. CASE i > 1
    <3>1. End(ns[1]) <= ns[i].begin
      BY <2>2, <1>1 DEF Ordered, n
    <3>. QED  BY <3>1, <1>1, <1>2, <1>3 DEF End, n
  <2>. QED  BY <2>1, <2>2
<1>5. End(ns[i]) <= STACK_BASE
  <2>1. CASE i = n
    BY <2>1, <1>1, <1>2, <1>3 DEF End
  <2>2. CASE i < n
    <3>1. End(ns[i]) <= ns[n].begin
      BY <2>2, <1>1 DEF Ordered, n
    <3>. QED  BY <3>1, <1>1, <1>2, <1>3 DEF End, n
  <2>. QED  BY <2>1, <2>2, <1>1 DEF n
<1>. QED  BY <1>4, <1>5

(* Two nodes of an ordered list are disjoint.                              *)
LEMMA NodesDisjoint ==
  ASSUME NEW ns \in Seq(Node), Ordered(ns),
         NEW i \in 1..Len(ns), NEW j \in 1..Len(ns), i # j
  PROVE  End(ns[i]) <= ns[j].begin \/ End(ns[j]) <= ns[i].begin
BY DEF Ordered

----------------------------------------------------------------------------
(* A block that has a node in use keeps it when another node is released   *)
(* (allocator.c:37-47).                                                    *)
LEMMA ReleaseReserves ==
  ASSUME NEW ns \in Seq(Node), NEW i \in 1..Len(ns), NEW block,
         \E j \in 1..Len(ns) :
           /\ j # i /\ ~ns[j].free
           /\ ns[j].begin = block.addr /\ ns[j].size = block.size
  PROVE  Reserves(Release(ns, i), block)
<1>1. PICK j \in 1..Len(ns) :
        /\ j # i /\ ~ns[j].free
        /\ ns[j].begin = block.addr /\ ns[j].size = block.size
  OBVIOUS
<1>2. /\ AfterRelease(ns, i, j) \in 1..Len(Release(ns, i))
      /\ SameUse(Release(ns, i)[AfterRelease(ns, i, j)], ns[j])
  BY <1>1, ReleaseKeeps
<1>. QED  BY <1>1, <1>2 DEF SameUse, Reserves

(* So does every such block when vm_free looks for another address.        *)
LEMMA FreeSpares ==
  ASSUME NEW ns \in Seq(Node), NEW i, NEW addr, IsFirstAt(ns, i, addr),
         NEW block, Reserves(ns, block), block.addr # addr
  PROVE  Reserves(Release(ns, i), block)
<1>1. PICK j \in 1..Len(ns) : /\ ~ns[j].free /\ ns[j].begin = block.addr
                              /\ ns[j].size = block.size
  BY DEF Reserves
<1>2. i \in 1..Len(ns) /\ j # i
  BY <1>1 DEF IsFirstAt
<1>. QED  BY <1>1, <1>2, ReleaseReserves

(* A block keeps its node when vm_alloc cuts another one, and the block    *)
(* that vm_alloc hands out has one from then on (allocator.c:14-26).       *)
LEMMA CarveSpares ==
  ASSUME NEW ns \in Seq(Node), NEW size \in Nat, NEW i \in 1..Len(ns),
         Fits(ns, i, size)
  PROVE  /\ \A block : Reserves(ns, block)
                         => Reserves(Carve(ns, i, size), block)
         /\ Reserves(Carve(ns, i, size),
                     [addr |-> ns[i].begin, size |-> size])
<1>1. ASSUME NEW block, Reserves(ns, block)
      PROVE  Reserves(Carve(ns, i, size), block)
  <2>1. PICK j \in 1..Len(ns) : /\ ~ns[j].free /\ ns[j].begin = block.addr
                                /\ ns[j].size = block.size
    BY <1>1 DEF Reserves
  <2>2. /\ AfterCarve(i, j) \in 1..Len(Carve(ns, i, size))
        /\ SameUse(Carve(ns, i, size)[AfterCarve(i, j)], ns[j])
    BY <2>1, CarveKeeps
  <2>. QED  BY <2>1, <2>2 DEF SameUse, Reserves
<1>2. Reserves(Carve(ns, i, size), [addr |-> ns[i].begin, size |-> size])
  <2>1. i \in 1..Len(Carve(ns, i, size))
    BY CarveType
  <2>2. Carve(ns, i, size)[i]
          = [begin |-> ns[i].begin, size |-> size, free |-> FALSE]
    BY DEF Carve
  <2>. QED  BY <2>1, <2>2 DEF Reserves
<1>. QED  BY <1>1, <1>2

(* A block that has a node in use lies in the heap.                        *)
LEMMA ReservedInHeap ==
  ASSUME NEW ns \in Seq(Node), Tiles(ns), Ordered(ns),
         NEW block, Reserves(ns, block)
  PROVE  /\ block.addr \in Nat /\ block.size \in Nat
         /\ HEAP_BASE <= block.addr /\ block.addr + block.size <= STACK_BASE
<1>1. PICK j \in 1..Len(ns) : /\ ns[j].begin = block.addr
                              /\ ns[j].size = block.size
  BY DEF Reserves
<1>. QED  BY <1>1, NodeFields, NodeInHeap DEF End

(* What vm_alloc hands out lies in the heap, apart from every such block.  *)
LEMMA CarveApart ==
  ASSUME NEW ns \in Seq(Node), Tiles(ns), Ordered(ns),
         NEW size \in Nat, NEW i \in 1..Len(ns), Fits(ns, i, size)
  PROVE  /\ ns[i].begin \in Nat /\ HEAP_BASE <= ns[i].begin
         /\ ns[i].begin + size <= STACK_BASE
         /\ \A block : Reserves(ns, block) =>
              \/ ns[i].begin + size <= block.addr
              \/ block.addr + block.size <= ns[i].begin
<1>1. ns[i].free /\ size <= ns[i].size
  BY DEF Fits
<1>2. ns[i].begin \in Nat /\ ns[i].size \in Nat
  BY NodeFields
<1>3. HEAP_BASE <= ns[i].begin /\ ns[i].begin + size <= STACK_BASE
  BY <1>1, <1>2, NodeInHeap, HeapAssumption DEF End
<1>4. ASSUME NEW block, Reserves(ns, block)
      PROVE  \/ ns[i].begin + size <= block.addr
             \/ block.addr + block.size <= ns[i].begin
  <2>1. PICK j \in 1..Len(ns) : /\ ~ns[j].free /\ ns[j].begin = block.addr
                                /\ ns[j].size = block.size
    BY <1>4 DEF Reserves
  <2>2. \/ ns[i].begin + ns[i].size <= ns[j].begin
        \/ ns[j].begin + ns[j].size <= ns[i].begin
    BY <2>1, <1>1, NodesDisjoint DEF End
  <2>3. ns[j].begin \in Nat /\ ns[j].size \in Nat
    BY NodeFields
  <2>. QED  BY <2>1, <2>2, <2>3, <1>1, <1>2
<1>. QED  BY <1>2, <1>3, <1>4

(* The single node with which initVM starts (vm.c:22-26).                  *)
LEMMA InitialList ==
  /\ InitialNodes \in Seq(Node)
  /\ Tiles(InitialNodes) /\ Ordered(InitialNodes)
<1>. USE HeapAssumption
<1>. DEFINE node == [begin |-> HEAP_BASE, size |-> STACK_BASE - HEAP_BASE,
                     free |-> TRUE]
<1>1. node \in Node /\ node.begin = HEAP_BASE /\ End(node) = STACK_BASE
  BY DEF Node, End
<1>2. InitialNodes = << node >>
  BY DEF InitialNodes
<1>. HIDE DEF node
<1>3. /\ InitialNodes \in Seq(Node) /\ Len(InitialNodes) = 1
      /\ InitialNodes[1] = node /\ InitialNodes # << >>
  BY <1>1, <1>2
<1>. QED  BY <1>1, <1>3 DEF Tiles, Ordered
=============================================================================
