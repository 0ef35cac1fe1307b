----------------------------- MODULE HeapProofs -----------------------------
(***************************************************************************)
(* Theorems about the allocator and the heap, for every heap and whatever  *)
(* the program asks for.                                                   *)
(***************************************************************************)
EXTENDS Heap, AllocatorProofs

----------------------------------------------------------------------------
(* As many nodes are in use at an address as the program holds blocks      *)
(* there: each block has a node in use of its own.                         *)
IsMatching(f, ns, hs) ==
  /\ f \in [1..Len(hs) -> 1..Len(ns)]
  /\ \A k \in 1..Len(hs) :
       ~ns[f[k]].free /\ ns[f[k]].begin = hs[k].addr
  /\ \A k, l \in 1..Len(hs) : k # l => f[k] # f[l]

Matching == \E f \in [1..Len(held) -> 1..Len(nodes)] :
              IsMatching(f, nodes, held)

(* The blocks of positive size that the program holds begin at different   *)
(* addresses.                                                              *)
HeldDistinct ==
  \A k, l \in 1..Len(held) :
    k # l /\ held[k].size > 0 /\ held[l].size > 0
      => held[k].addr # held[l].addr

HeapInv ==
  /\ TypeOK
  /\ Tiling
  /\ Ordered(nodes)
  /\ HeldIsReserved
  /\ HeldDistinct
  /\ Matching

----------------------------------------------------------------------------
(* The sequence without its k-th element.                                  *)
LEMMA RemoveAtProperties ==
  ASSUME NEW S, NEW s \in Seq(S), NEW k \in 1..Len(s)
  PROVE  /\ RemoveAt(s, k) \in Seq(S)
         /\ Len(RemoveAt(s, k)) = Len(s) - 1
         /\ \A j \in 1..(Len(s) - 1) :
              RemoveAt(s, k)[j] = IF j < k THEN s[j] ELSE s[j+1]
<1>1. Len(s) \in Nat
  OBVIOUS
<1>2. /\ SubSeq(s, 1, k-1) \in Seq(S)
      /\ Len(SubSeq(s, 1, k-1)) = k - 1
      /\ \A j \in 1..(k-1) : SubSeq(s, 1, k-1)[j] = s[j]
  OBVIOUS
<1>3. /\ SubSeq(s, k+1, Len(s)) \in Seq(S)
      /\ Len(SubSeq(s, k+1, Len(s))) = Len(s) - k
      /\ \A j \in 1..(Len(s)-k) : SubSeq(s, k+1, Len(s))[j] = s[k+j]
  BY <1>1
<1>4. ASSUME NEW a \in Seq(S), NEW b \in Seq(S),
             Len(a) = k - 1, Len(b) = Len(s) - k
      PROVE  /\ a \o b \in Seq(S) /\ Len(a \o b) = Len(s) - 1
             /\ \A j \in 1..(k-1) : (a \o b)[j] = a[j]
             /\ \A j \in k..(Len(s)-1) : (a \o b)[j] = b[j - (k-1)]
  <2>1. a \o b \in Seq(S)
    OBVIOUS
  <2>2. Len(a \o b) = Len(a) + Len(b)
    OBVIOUS
  <2>3. \A j \in 1..(Len(a) + Len(b)) :
          (a \o b)[j] = IF j <= Len(a) THEN a[j] ELSE b[j - Len(a)]
    OBVIOUS
  <2>. QED  BY <2>1, <2>2, <2>3, <1>1, <1>4
<1>. DEFINE a == SubSeq(s, 1, k-1)
            b == SubSeq(s, k+1, Len(s))
<1>5. RemoveAt(s, k) = a \o b
  BY DEF RemoveAt
<1>6. /\ a \o b \in Seq(S) /\ Len(a \o b) = Len(s) - 1
      /\ \A j \in 1..(k-1) : (a \o b)[j] = a[j]
      /\ \A j \in k..(Len(s)-1) : (a \o b)[j] = b[j - (k-1)]
  BY <1>2, <1>3, <1>4
<1>7. /\ \A j \in 1..(k-1) : a[j] = s[j]
      /\ \A j \in 1..(Len(s)-k) : b[j] = s[k+j]
  BY <1>2, <1>3
<1>. HIDE DEF a, b
<1>8. ASSUME NEW j \in 1..(Len(s) - 1)
      PROVE  (a \o b)[j] = IF j < k THEN s[j] ELSE s[j+1]
  <2>1. CASE j < k
    BY <2>1, <1>6, <1>7
  <2>2. CASE j >= k
    <3>1. j - (k-1) \in 1..(Len(s)-k) /\ k + (j - (k-1)) = j + 1
      BY <2>2, <1>1
    <3>2. b[j - (k-1)] = s[k + (j - (k-1))]
      BY <3>1, <1>7
    <3>3. (a \o b)[j] = b[j - (k-1)]
      <4>1. j \in k..(Len(s)-1)
        BY <2>2, <1>1
      <4>. QED  BY <4>1, <1>6
    <3>4. k + (j - (k-1)) = j + 1 /\ ~(j < k)
      BY <2>2, <1>1
    <3>. QED  BY <3>2, <3>3, <3>4
  <2>3. j < k \/ j >= k
    BY <1>1
  <2>. QED  BY <2>1, <2>2, <2>3, Zenon
<1>. QED  BY <1>5, <1>6, <1>8

(* malloc keeps the invariant.                                             *)
LEMMA MallocInv ==
  ASSUME HeapInv, NEW size \in Nat, Malloc(size)
  PROVE  HeapInv'
<1>1. PICK i \in 1..Len(nodes) :
        /\ IsFirstFit(nodes, i, size)
        /\ nodes' = Carve(nodes, i, size)
        /\ held' = Append(held, [addr |-> nodes[i].begin, size |-> size])
  BY DEF Malloc
<1>2. Fits(nodes, i, size)
  BY <1>1 DEF IsFirstFit
<1>3. nodes \in Seq(Node) /\ held \in Seq(Block)
  BY DEF HeapInv, TypeOK
<1>4. nodes' \in Seq(Node) /\ Len(nodes') = Len(nodes) + 1
  BY <1>1, <1>2, <1>3, CarveType
<1>. DEFINE new == [addr |-> nodes[i].begin, size |-> size]
<1>5. new \in Block /\ new.addr = nodes[i].begin /\ new.size = size
  BY <1>3, NodeFields DEF Block
<1>. HIDE DEF new
<1>6. /\ held' \in Seq(Block) /\ Len(held') = Len(held) + 1
      /\ Len(held) \in Nat
      /\ \A k \in 1..Len(held) : held'[k] = held[k]
      /\ held'[Len(held) + 1] = new
  BY <1>1, <1>3, <1>5 DEF new
<1>7. TypeOK'
  BY <1>4, <1>6 DEF TypeOK, HeapInv, Malloc
<1>8. Tiling' /\ Ordered(nodes')
  BY <1>1, <1>2, <1>3, CarveTiles DEF HeapInv, Tiling
(* The node that was cut is the one in use for the new block.              *)
<1>9. /\ i \in 1..Len(nodes') /\ ~nodes'[i].free
      /\ nodes'[i].begin = new.addr /\ nodes'[i].size = size
  BY <1>1, <1>3, <1>4, <1>5 DEF Carve
<1>10. ASSUME NEW j \in 1..Len(nodes), ~nodes[j].free
       PROVE  /\ AfterCarve(i, j) \in 1..Len(nodes')
              /\ AfterCarve(i, j) # i
              /\ SameUse(nodes'[AfterCarve(i, j)], nodes[j])
  BY <1>1, <1>2, <1>3, <1>10, CarveKeeps
<1>11. HeldIsReserved'
  <2>. SUFFICES ASSUME NEW k \in 1..Len(held'), held'[k].size > 0
                PROVE  Reserves(nodes', held'[k])
    BY DEF HeldIsReserved
  <2>1. CASE k \in 1..Len(held)
    <3>1. PICK j \in 1..Len(nodes) : /\ ~nodes[j].free
                                     /\ nodes[j].begin = held[k].addr
                                     /\ nodes[j].size = held[k].size
      BY <2>1, <1>6 DEF HeapInv, HeldIsReserved, Reserves
    <3>. QED  BY <3>1, <2>1, <1>6, <1>10 DEF SameUse, Reserves
  <2>2. CASE k = Len(held) + 1
    BY <2>2, <1>5, <1>6, <1>9 DEF Reserves
  <2>. QED  BY <2>1, <2>2, <1>6
<1>12. HeldDistinct'
  <2>1. ASSUME NEW k \in 1..Len(held), held[k].size > 0, size > 0
        PROVE  held[k].addr # nodes[i].begin
    <3>1. PICK j \in 1..Len(nodes) : /\ ~nodes[j].free
                                     /\ nodes[j].begin = held[k].addr
                                     /\ nodes[j].size = held[k].size
      BY <2>1 DEF HeapInv, HeldIsReserved, Reserves
    <3>2. j # i /\ nodes[i].size > 0 /\ nodes[j].size > 0
      BY <3>1, <2>1, <1>2, <1>3, NodeFields DEF Fits
    <3>3. /\ nodes[i].begin \in Nat /\ nodes[i].size \in Nat
          /\ nodes[j].begin \in Nat /\ nodes[j].size \in Nat
      BY <1>3, NodeFields
    <3>4. \/ nodes[i].begin + nodes[i].size <= nodes[j].begin
          \/ nodes[j].begin + nodes[j].size <= nodes[i].begin
      BY <3>2, <1>3 DEF HeapInv, Ordered, End
    <3>. QED  BY <3>1, <3>2, <3>3, <3>4
  <2>2. \A k \in 1..Len(held) : held[k].size > 0 /\ size > 0
           => held'[k].addr # new.addr
    BY <2>1, <1>5, <1>6
  <2>. QED  BY <2>2, <1>5, <1>6 DEF HeldDistinct, HeapInv
<1>13. Matching'
  <2>1. PICK f \in [1..Len(held) -> 1..Len(nodes)] :
          IsMatching(f, nodes, held)
    BY DEF HeapInv, Matching
  <2>. DEFINE g == [k \in 1..Len(held') |->
                      IF k = Len(held) + 1 THEN i ELSE AfterCarve(i, f[k])]
  <2>2. ASSUME NEW k \in 1..Len(held)
        PROVE  /\ g[k] = AfterCarve(i, f[k]) /\ g[k] \in 1..Len(nodes')
               /\ g[k] # i
               /\ ~nodes'[g[k]].free /\ nodes'[g[k]].begin = held'[k].addr
    <3>1. f[k] \in 1..Len(nodes) /\ ~nodes[f[k]].free
          /\ nodes[f[k]].begin = held[k].addr
      BY <2>1 DEF IsMatching
    <3>2. g[k] = AfterCarve(i, f[k])
      BY <1>6
    <3>. HIDE DEF g
    <3>. QED  BY <3>1, <3>2, <1>6, <1>10 DEF SameUse
  <2>3. g[Len(held) + 1] = i /\ Len(held) + 1 \in 1..Len(held')
    BY <1>6
  <2>. HIDE DEF g
  <2>4. g \in [1..Len(held') -> 1..Len(nodes')]
    <3>1. ASSUME NEW k \in 1..Len(held')
          PROVE  g[k] \in 1..Len(nodes')
      BY <2>2, <2>3, <1>6, <1>9
    <3>. QED  BY <3>1 DEF g
  <2>5. \A k \in 1..Len(held') :
          ~nodes'[g[k]].free /\ nodes'[g[k]].begin = held'[k].addr
    BY <2>2, <2>3, <1>6, <1>9
  <2>6. ASSUME NEW k \in 1..Len(held'), NEW l \in 1..Len(held'), k # l
        PROVE  g[k] # g[l]
    <3>1. CASE k \in 1..Len(held) /\ l \in 1..Len(held)
      <4>1. f[k] # f[l] /\ f[k] \in 1..Len(nodes) /\ f[l] \in 1..Len(nodes)
        BY <3>1, <2>1, <2>6 DEF IsMatching
      <4>. QED  BY <4>1, <3>1, <2>2, <1>3, CarveInjective
    <3>2. CASE k = Len(held) + 1
      <4>1. l \in 1..Len(held)
        BY <3>2, <2>6, <1>6
      <4>. QED  BY <4>1, <3>2, <2>2, <2>3
    <3>3. CASE l = Len(held) + 1
      <4>1. k \in 1..Len(held)
        BY <3>3, <2>6, <1>6
      <4>. QED  BY <4>1, <3>3, <2>2, <2>3
    <3>. QED  BY <3>1, <3>2, <3>3, <1>6
  <2>. QED  BY <2>4, <2>5, <2>6 DEF Matching, IsMatching
<1>. QED  BY <1>7, <1>8, <1>11, <1>12, <1>13 DEF HeapInv

(* The blocks that remain held after vm_free still have a node each.       *)
LEMMA ReleaseMatches ==
  ASSUME NEW ns \in Seq(Node), NEW i \in 1..Len(ns),
         NEW hs \in Seq(Block),
         NEW f \in [1..Len(hs) -> 1..Len(ns)],
         IsMatching(f, ns, hs),
         \A k \in 1..Len(hs) : f[k] # i
  PROVE  \E g \in [1..Len(hs) -> 1..Len(Release(ns, i))] :
           IsMatching(g, Release(ns, i), hs)
<1>. DEFINE g == [k \in 1..Len(hs) |-> AfterRelease(ns, i, f[k])]
            ms == Release(ns, i)
<1>1. ASSUME NEW k \in 1..Len(hs)
      PROVE  /\ f[k] \in 1..Len(ns)
             /\ g[k] = AfterRelease(ns, i, f[k]) /\ g[k] \in 1..Len(ms)
             /\ ~ms[g[k]].free /\ ms[g[k]].begin = hs[k].addr
  <2>1. /\ f[k] \in 1..Len(ns) /\ ~ns[f[k]].free /\ f[k] # i
        /\ ns[f[k]].begin = hs[k].addr
    BY DEF IsMatching
  <2>2. g[k] = AfterRelease(ns, i, f[k])
    OBVIOUS
  <2>3. /\ AfterRelease(ns, i, f[k]) \in 1..Len(ms)
        /\ SameUse(ms[AfterRelease(ns, i, f[k])], ns[f[k]])
    BY <2>1, ReleaseKeeps
  <2>. HIDE DEF g, ms
  <2>. QED  BY <2>1, <2>2, <2>3 DEF SameUse
<1>2. ASSUME NEW k \in 1..Len(hs), NEW l \in 1..Len(hs), k # l
      PROVE  g[k] # g[l]
  <2>1. f[k] # f[l] /\ f[k] # i /\ f[l] # i
    BY <1>2 DEF IsMatching
  <2>. HIDE DEF g
  <2>. QED  BY <2>1, <1>1, ReleaseInjective
<1>3. g \in [1..Len(hs) -> 1..Len(ms)]
  BY <1>1
<1>4. IsMatching(g, ms, hs)
  <2>. HIDE DEF g, ms
  <2>. QED  BY <1>1, <1>2, <1>3 DEF IsMatching
<1>. QED  BY <1>3, <1>4

(* vm_free of the block that the program holds at position k.              *)
LEMMA FreeInv ==
  ASSUME HeapInv, NEW k \in 1..Len(held), Free(k)
  PROVE  HeapInv'
<1>1. nodes \in Seq(Node) /\ held \in Seq(Block) /\ Len(held) \in Nat
  BY DEF HeapInv, TypeOK
<1>. DEFINE a == held[k].addr
            up(l) == IF l < k THEN l ELSE l + 1
<1>2. /\ held' \in Seq(Block) /\ Len(held') = Len(held) - 1
      /\ \A l \in 1..Len(held') : /\ up(l) \in 1..Len(held) /\ up(l) # k
                                  /\ held'[l] = held[up(l)]
  <2>1. held' = RemoveAt(held, k)
    BY DEF Free
  <2>2. /\ held' \in Seq(Block) /\ Len(held') = Len(held) - 1
        /\ \A l \in 1..(Len(held) - 1) :
             held'[l] = IF l < k THEN held[l] ELSE held[l+1]
    BY <2>1, <1>1, RemoveAtProperties
  <2>3. ASSUME NEW l \in 1..Len(held')
        PROVE  /\ up(l) \in 1..Len(held) /\ up(l) # k
               /\ held'[l] = held[up(l)]
    <3>1. l \in 1..(Len(held) - 1)
      BY <2>2
    <3>2. held'[l] = IF l < k THEN held[l] ELSE held[l+1]
      BY <3>1, <2>2
    <3>. QED  BY <3>1, <3>2, <1>1
  <2>. QED  BY <2>2, <2>3
<1>3. \A l, m \in 1..Len(held') : l # m => up(l) # up(m)
  BY <1>1
<1>. HIDE DEF up
<1>4. PICK f \in [1..Len(held) -> 1..Len(nodes)] : IsMatching(f, nodes, held)
  BY DEF HeapInv, Matching
<1>5. f[k] \in 1..Len(nodes) /\ nodes[f[k]].begin = a
  BY <1>4 DEF IsMatching
<1>6. PICK i \in 1..Len(nodes) : /\ IsFirstAt(nodes, i, a)
                                 /\ nodes' = Release(nodes, i)
  BY <1>5 DEF Free, VmFree, NoNodeAt
<1>7. /\ nodes[i].begin = a
      /\ \A j \in 1..(i-1) : nodes[j].begin # a
  BY <1>6 DEF IsFirstAt
<1>8. status' = status
  BY <1>5, <1>6 DEF Free, VmFree, NoNodeAt
<1>9. TypeOK'
  BY <1>1, <1>2, <1>6, <1>8, ReleaseType DEF TypeOK, HeapInv
<1>10. Tiling' /\ Ordered(nodes')
  BY <1>1, <1>6, ReleaseTiles DEF HeapInv, Tiling
<1>11. HeldDistinct'
  <2>. SUFFICES ASSUME NEW l \in 1..Len(held'), NEW m \in 1..Len(held'),
                       l # m, held'[l].size > 0, held'[m].size > 0
                PROVE  held'[l].addr # held'[m].addr
    BY DEF HeldDistinct
  <2>1. /\ up(l) \in 1..Len(held) /\ up(m) \in 1..Len(held)
        /\ up(l) # up(m)
        /\ held'[l] = held[up(l)] /\ held'[m] = held[up(m)]
    BY <1>2, <1>3
  <2>. QED  BY <2>1 DEF HeapInv, HeldDistinct
(* The first node at a is the node of no other block of positive size: if  *)
(* one begins at a too, two nodes in use begin there, and the first of     *)
(* them is empty.                                                          *)
<1>12. ASSUME NEW l \in 1..Len(held), l # k, held[l].size > 0
       PROVE  \E j \in 1..Len(nodes) :
                /\ j # i /\ ~nodes[j].free
                /\ nodes[j].begin = held[l].addr
                /\ nodes[j].size = held[l].size
  <2>1. PICK j \in 1..Len(nodes) : /\ ~nodes[j].free
                                   /\ nodes[j].begin = held[l].addr
                                   /\ nodes[j].size = held[l].size
    BY <1>12 DEF HeapInv, HeldIsReserved, Reserves
  <2>2. CASE held[l].addr # a
    BY <2>1, <2>2, <1>7
  <2>3. CASE held[l].addr = a
    <3>1. /\ f[l] \in 1..Len(nodes) /\ nodes[f[l]].begin = a
          /\ f[l] # f[k]
      BY <2>3, <1>4, <1>12 DEF IsMatching
    <3>2. f[l] >= i /\ f[k] >= i
      BY <3>1, <1>5, <1>7
    <3>3. PICK m \in 1..Len(nodes) : m > i /\ nodes[m].begin = a
      BY <3>1, <3>2, <1>5
    <3>4. nodes[i].begin + nodes[i].size <= nodes[m].begin
      BY <3>3 DEF HeapInv, Ordered, End
    <3>5. nodes[i].begin \in Nat /\ nodes[i].size \in Nat
      BY <1>1, NodeFields
    <3>6. nodes[i].size = 0
      BY <3>3, <3>4, <3>5, <1>7
    <3>. QED  BY <3>6, <2>1, <1>12
  <2>. QED  BY <2>2, <2>3
<1>13. HeldIsReserved'
  <2>. SUFFICES ASSUME NEW l \in 1..Len(held'), held'[l].size > 0
                PROVE  Reserves(nodes', held'[l])
    BY DEF HeldIsReserved
  <2>1. /\ up(l) \in 1..Len(held) /\ up(l) # k /\ held'[l] = held[up(l)]
    BY <1>2
  <2>2. \E j \in 1..Len(nodes) :
          /\ j # i /\ ~nodes[j].free
          /\ nodes[j].begin = held'[l].addr /\ nodes[j].size = held'[l].size
    BY <2>1, <1>12
  <2>. QED  BY <2>2, <1>1, <1>6, ReleaseReserves
(* If the released node was the own node of a block that is still held,    *)
(* that block takes over the node of the block that is freed.              *)
<1>14. Matching'
  <2>. DEFINE h == [l \in 1..Len(held') |->
                      IF f[up(l)] = i THEN f[k] ELSE f[up(l)]]
  <2>1. ASSUME NEW l \in 1..Len(held')
        PROVE  /\ h[l] \in 1..Len(nodes) /\ h[l] # i
               /\ ~nodes[h[l]].free /\ nodes[h[l]].begin = held'[l].addr
    <3>1. /\ up(l) \in 1..Len(held) /\ up(l) # k /\ held'[l] = held[up(l)]
      BY <1>2
    <3>2. /\ f[up(l)] \in 1..Len(nodes) /\ f[up(l)] # f[k]
          /\ ~nodes[f[up(l)]].free
          /\ nodes[f[up(l)]].begin = held[up(l)].addr
          /\ ~nodes[f[k]].free
      BY <3>1, <1>4 DEF IsMatching
    <3>3. h[l] = IF f[up(l)] = i THEN f[k] ELSE f[up(l)]
      OBVIOUS
    <3>. HIDE DEF h
    <3>. QED  BY <3>1, <3>2, <3>3, <1>5, <1>7
  <2>2. ASSUME NEW l \in 1..Len(held'), NEW m \in 1..Len(held'), l # m
        PROVE  h[l] # h[m]
    <3>1. /\ up(l) \in 1..Len(held) /\ up(m) \in 1..Len(held)
          /\ up(l) # up(m) /\ up(l) # k /\ up(m) # k
      BY <2>2, <1>2, <1>3
    <3>2. f[up(l)] # f[up(m)] /\ f[up(l)] # f[k] /\ f[up(m)] # f[k]
      BY <3>1, <1>4 DEF IsMatching
    <3>. QED  BY <3>2
  <2>3. h \in [1..Len(held') -> 1..Len(nodes)]
    BY <2>1
  <2>. HIDE DEF h
  <2>4. IsMatching(h, nodes, held')
    BY <2>1, <2>2, <2>3 DEF IsMatching
  <2>5. \E g \in [1..Len(held') -> 1..Len(Release(nodes, i))] :
          IsMatching(g, Release(nodes, i), held')
    BY <2>1, <2>3, <2>4, <1>1, <1>2, ReleaseMatches
  <2>. QED  BY <2>5, <1>6 DEF Matching
<1>. QED  BY <1>9, <1>10, <1>11, <1>13, <1>14 DEF HeapInv

(* vm_free of an address that the program does not hold.                   *)
LEMMA StrayFreeInv ==
  ASSUME HeapInv, NEW addr, StrayFree(addr)
  PROVE  HeapInv'
<1>1. nodes \in Seq(Node) /\ held \in Seq(Block)
  BY DEF HeapInv, TypeOK
<1>2. held' = held /\ \A k \in 1..Len(held) : held[k].addr # addr
  BY DEF StrayFree, Holds
<1>3. CASE NoNodeAt(nodes, addr) /\ UNCHANGED nodes
           /\ status' = "VM_MEM_ALREADY_FREE"
  BY <1>2, <1>3 DEF HeapInv, TypeOK, Statuses, Tiling, HeldIsReserved,
                    HeldDistinct, Matching
<1>4. ASSUME NEW i \in 1..Len(nodes), IsFirstAt(nodes, i, addr),
             nodes' = Release(nodes, i), status' = status
      PROVE  HeapInv'
  <2>1. nodes[i].begin = addr
    BY <1>4 DEF IsFirstAt
  <2>2. TypeOK'
    BY <1>1, <1>2, <1>4, ReleaseType DEF TypeOK, HeapInv
  <2>3. Tiling' /\ Ordered(nodes')
    BY <1>1, <1>4, ReleaseTiles DEF HeapInv, Tiling
  <2>4. HeldDistinct'
    BY <1>2 DEF HeapInv, HeldDistinct
  <2>5. HeldIsReserved'
    <3>. SUFFICES ASSUME NEW l \in 1..Len(held), held[l].size > 0
                  PROVE  Reserves(nodes', held[l])
      BY <1>2 DEF HeldIsReserved
    <3>1. PICK j \in 1..Len(nodes) : /\ ~nodes[j].free
                                     /\ nodes[j].begin = held[l].addr
                                     /\ nodes[j].size = held[l].size
      BY DEF HeapInv, HeldIsReserved, Reserves
    <3>2. j # i
      BY <3>1, <2>1, <1>2
    <3>. QED  BY <3>1, <3>2, <1>1, <1>4, ReleaseReserves
  <2>6. Matching'
    <3>1. PICK f \in [1..Len(held) -> 1..Len(nodes)] :
            IsMatching(f, nodes, held)
      BY DEF HeapInv, Matching
    <3>2. \A k \in 1..Len(held) : f[k] # i
      BY <3>1, <2>1, <1>2 DEF IsMatching
    <3>3. \E g \in [1..Len(held) -> 1..Len(Release(nodes, i))] :
            IsMatching(g, Release(nodes, i), held)
      BY <3>1, <3>2, <1>1, ReleaseMatches
    <3>. QED  BY <3>3, <1>2, <1>4 DEF Matching
  <2>. QED  BY <2>2, <2>3, <2>4, <2>5, <2>6 DEF HeapInv
<1>. QED  BY <1>3, <1>4 DEF StrayFree, VmFree

(* initVM establishes the invariant (vm.c:22-26).                          *)
LEMMA InitInv == Init => HeapInv
<1>. SUFFICES ASSUME Init PROVE HeapInv
  OBVIOUS
<1>2. nodes = InitialNodes /\ held = << >> /\ status = "VM_OK"
  BY DEF Init
<1>3. Len(nodes) = 1 /\ held \in Seq(Block) /\ Len(held) = 0
  BY <1>2 DEF InitialNodes
<1>4. TypeOK
  BY <1>2, <1>3, InitialList DEF TypeOK, Statuses
<1>5. Tiling /\ Ordered(nodes)
  BY <1>2, InitialList DEF Tiling
<1>6. HeldIsReserved /\ HeldDistinct
  BY <1>3 DEF HeldIsReserved, HeldDistinct
<1>7. Matching
  <2>. DEFINE f == [k \in 1..Len(held) |-> 1]
  <2>1. f \in [1..Len(held) -> 1..Len(nodes)] /\ IsMatching(f, nodes, held)
    BY <1>3 DEF IsMatching
  <2>. QED  BY <2>1 DEF Matching
<1>. QED  BY <1>4, <1>5, <1>6, <1>7 DEF HeapInv

(* Every step of the program and of the allocator keeps the invariant.     *)
LEMMA NextInv == HeapInv /\ [Next]_vars => HeapInv'
<1>. SUFFICES ASSUME HeapInv, [Next]_vars PROVE HeapInv'
  OBVIOUS
<1>1. CASE UNCHANGED vars
  BY <1>1 DEF vars, HeapInv, TypeOK, Tiling, HeldIsReserved, HeldDistinct,
              Reserves, Matching
<1>2. ASSUME UNCHANGED <<nodes, held>>, status' \in Statuses
      PROVE  HeapInv'
  BY <1>2 DEF HeapInv, TypeOK, Tiling, HeldIsReserved, HeldDistinct, Matching
<1>3. ASSUME NEW size \in Sizes, Malloc(size)
      PROVE  HeapInv'
  <2>1. size \in Nat
    BY SizeAssumption DEF Sizes
  <2>. QED  BY <2>1, <1>3, MallocInv
<1>4. ASSUME NEW size \in Sizes, MallocFails(size)
      PROVE  HeapInv'
  BY <1>2, <1>4 DEF MallocFails, Statuses
<1>5. ASSUME NEW k \in 1..Len(held), Free(k)
      PROVE  HeapInv'
  BY <1>5, FreeInv
<1>6. ASSUME NEW k \in 1..Len(held), FreeAtTheEnd(k)
      PROVE  HeapInv'
  BY <1>2, <1>6 DEF FreeAtTheEnd, Statuses
<1>7. ASSUME NEW addr \in Addresses, StrayFree(addr)
      PROVE  HeapInv'
  BY <1>7, StrayFreeInv
<1>8. ASSUME NEW addr \in Addresses, StrayFreeOutOfTheHeap(addr)
      PROVE  HeapInv'
  BY <1>2, <1>8 DEF StrayFreeOutOfTheHeap, Statuses
<1>. QED  BY <1>1, <1>3, <1>4, <1>5, <1>6, <1>7, <1>8 DEF Next

----------------------------------------------------------------------------
(* The inductive invariant holds in every state of the allocator and its   *)
(* program (allocator.c:9-49).                                             *)
THEOREM HeapInvariant == Spec => []HeapInv
BY InitInv, NextInv, PTL DEF Spec

(* Every variable of the heap keeps its type (allocator.c:9-49).           *)
THEOREM HeapTypeCorrect == Spec => []TypeOK
<1>1. HeapInv => TypeOK
  BY DEF HeapInv
<1>. QED  BY <1>1, HeapInvariant, PTL

(* The nodes of vm->memblocks cover the heap without gap or overlap,       *)
(* however vm_alloc and vm_free cut and join them (allocator.c:9-49).      *)
THEOREM HeapTiles == Spec => []Tiling
<1>1. HeapInv => Tiling
  BY DEF HeapInv
<1>. QED  BY <1>1, HeapInvariant, PTL

(* No malloc, free or stray free takes a block from the program that holds *)
(* it, although vm_free releases the first node that begins at the address *)
(* whatever its size (allocator.c:37-40).                                  *)
THEOREM HeapReserves == Spec => []HeldIsReserved
<1>1. HeapInv => HeldIsReserved
  BY DEF HeapInv
<1>. QED  BY <1>1, HeapInvariant, PTL

----------------------------------------------------------------------------
(* The blocks in use of the abstract heap are the blocks held, but those   *)
(* of no byte.                                                             *)
LEMMA BlocksHeldMembers ==
  ASSUME NEW b
  PROVE  b \in BlocksHeld <=>
           \E k \in 1..Len(held) : held[k] = b /\ b.size > 0
BY DEF BlocksHeld, ToSet

(* A malloc is one of the abstract heap, or changes nothing there when it  *)
(* asks for no byte (allocator.c:9-29).                                    *)
LEMMA MallocImplements ==
  ASSUME HeapInv, NEW size \in Nat, Malloc(size)
  PROVE  [Abstract!Next]_Abstract!vars
<1>1. PICK i \in 1..Len(nodes) :
        /\ IsFirstFit(nodes, i, size)
        /\ held' = Append(held, [addr |-> nodes[i].begin, size |-> size])
  BY DEF Malloc
<1>2. nodes \in Seq(Node) /\ held \in Seq(Block) /\ Tiles(nodes)
      /\ Ordered(nodes) /\ Len(held) \in Nat
  BY DEF HeapInv, TypeOK, Tiling
<1>3. nodes[i].begin \in Nat /\ nodes[i].size \in Nat
  BY <1>2, NodeFields
<1>. DEFINE new == [addr |-> nodes[i].begin, size |-> size]
<1>4. new.addr = nodes[i].begin /\ new.size = size
  OBVIOUS
<1>5. /\ Len(held') = Len(held) + 1
      /\ \A k \in 1..Len(held) : held'[k] = held[k]
      /\ held'[Len(held) + 1] = new
  BY <1>1, <1>2, <1>3 DEF Block
<1>6. nodes[i].free /\ size <= nodes[i].size
  BY <1>1 DEF IsFirstFit, Fits
<1>7. HEAP_BASE <= nodes[i].begin /\ nodes[i].begin + size <= STACK_BASE
  BY <1>2, <1>3, <1>6, NodeInHeap, HeapAssumption DEF End
<1>8. status' = status /\ status = "VM_OK"
  BY DEF Malloc
<1>9. CASE size = 0
  <2>1. \A b : b \in BlocksHeld' <=> b \in BlocksHeld
    <3>. TAKE b
    <3>1. b \in BlocksHeld' <=>
            \E k \in 1..Len(held') : held'[k] = b /\ b.size > 0
      BY DEF BlocksHeld, ToSet
    <3>. HIDE DEF new
    <3>. QED  BY <3>1, <1>2, <1>4, <1>5, <1>9, BlocksHeldMembers
  <2>. QED  BY <2>1, <1>8 DEF Abstract!vars
<1>10. CASE size > 0
  <2>1. new \in Abstract!Block /\ Abstract!InHeap(new)
    BY <1>3, <1>7, <1>10, HeapAssumption DEF Abstract!Block, Abstract!InHeap
  <2>2. ASSUME NEW c \in BlocksHeld
        PROVE  Abstract!Disjoint(new, c)
    <3>1. PICK k \in 1..Len(held) : held[k] = c /\ c.size > 0
      BY BlocksHeldMembers
    <3>2. PICK j \in 1..Len(nodes) :
            /\ ~nodes[j].free
            /\ nodes[j].begin = c.addr /\ nodes[j].size = c.size
      BY <3>1 DEF HeapInv, HeldIsReserved, Reserves
    <3>3. nodes[j].begin \in Nat /\ nodes[j].size \in Nat
      BY <1>2, NodeFields
    <3>4. \/ nodes[i].begin + nodes[i].size <= c.addr
          \/ c.addr + c.size <= nodes[i].begin
      BY <3>2, <1>2, <1>6, NodesDisjoint DEF End
    <3>5. nodes[i].begin + size <= c.addr \/ c.addr + c.size <= nodes[i].begin
      BY <3>2, <3>3, <3>4, <1>3, <1>6
    <3>. QED  BY <3>5 DEF Abstract!Disjoint
  <2>3. BlocksHeld' = BlocksHeld \cup {new}
    <3>1. \A b : b \in BlocksHeld' <=> b \in BlocksHeld \/ b = new
      <4>. TAKE b
      <4>1. b \in BlocksHeld' <=>
              \E k \in 1..Len(held') : held'[k] = b /\ b.size > 0
        BY DEF BlocksHeld, ToSet
      <4>. HIDE DEF new
      <4>. QED  BY <4>1, <1>2, <1>4, <1>5, <1>10, BlocksHeldMembers
    <3>. HIDE DEF new
    <3>. QED  BY <3>1
  <2>4. Abstract!Malloc(new)
    <3>. HIDE DEF new
    <3>. QED  BY <2>1, <2>2, <2>3, <1>8 DEF Abstract!Malloc
  <2>. QED  BY <2>1, <2>4 DEF Abstract!Next
<1>. QED  BY <1>9, <1>10

(* A free is one of the abstract heap (allocator.c:31-49).                 *)
LEMMA FreeImplements ==
  ASSUME HeapInv, NEW k \in 1..Len(held), Free(k)
  PROVE  [Abstract!Next]_Abstract!vars
<1>1. held \in Seq(Block) /\ Len(held) \in Nat /\ status = "VM_OK"
  BY DEF HeapInv, TypeOK, Free
<1>. DEFINE block == held[k]
            up(l) == IF l < k THEN l ELSE l + 1
            down(l) == IF l < k THEN l ELSE l - 1
<1>2. block \in Block /\ block.size \in Nat
  <2>1. held[k] \in Block
    BY <1>1
  <2>. QED  BY <2>1 DEF Block
<1>3. /\ Len(held') = Len(held) - 1
      /\ \A l \in 1..(Len(held) - 1) :
           held'[l] = IF l < k THEN held[l] ELSE held[l+1]
  <2>1. held' = RemoveAt(held, k)
    BY DEF Free
  <2>. QED  BY <2>1, <1>1, RemoveAtProperties
<1>4. \A l \in 1..Len(held') : /\ up(l) \in 1..Len(held) /\ up(l) # k
                               /\ held'[l] = held[up(l)]
  <2>. TAKE l \in 1..Len(held')
  <2>1. l \in 1..(Len(held) - 1)
    BY <1>3
  <2>2. held'[l] = IF l < k THEN held[l] ELSE held[l+1]
    BY <2>1, <1>3
  <2>. QED  BY <2>1, <2>2, <1>1
<1>5. \A l \in 1..Len(held) : l # k =>
        down(l) \in 1..Len(held') /\ held'[down(l)] = held[l]
  <2>. TAKE l \in 1..Len(held)
  <2>. HAVE l # k
  <2>1. down(l) \in 1..(Len(held) - 1) /\ down(l) \in 1..Len(held')
    BY <1>1, <1>3
  <2>2. held'[down(l)] =
          IF down(l) < k THEN held[down(l)] ELSE held[down(l) + 1]
    BY <2>1, <1>3
  <2>3. (IF down(l) < k THEN down(l) ELSE down(l) + 1) = l
    BY <1>1
  <2>. QED  BY <2>1, <2>2, <2>3
<1>. HIDE DEF up, down
<1>6. status' = status
  <2>1. PICK f \in [1..Len(held) -> 1..Len(nodes)] :
          IsMatching(f, nodes, held)
    BY DEF HeapInv, Matching
  <2>2. f[k] \in 1..Len(nodes) /\ nodes[f[k]].begin = held[k].addr
    BY <2>1 DEF IsMatching
  <2>. QED  BY <2>2 DEF Free, VmFree, NoNodeAt
<1>7. \A b : b \in BlocksHeld' <=>
        \E l \in 1..Len(held) : l # k /\ held[l] = b /\ b.size > 0
  <2>. TAKE b
  <2>1. b \in BlocksHeld' <=>
          \E l \in 1..Len(held') : held'[l] = b /\ b.size > 0
    BY DEF BlocksHeld, ToSet
  <2>. QED  BY <2>1, <1>4, <1>5
<1>8. CASE block.size = 0
  <2>1. \A b : b \in BlocksHeld' <=> b \in BlocksHeld
    BY <1>7, <1>8, BlocksHeldMembers
  <2>. QED  BY <2>1, <1>6 DEF Abstract!vars
<1>9. CASE block.size > 0
  <2>1. \A b : b \in BlocksHeld' <=> b \in BlocksHeld /\ b # block
    <3>1. \A l \in 1..Len(held) :
            l # k /\ held[l].size > 0 => held[l].addr # block.addr
      BY <1>9 DEF HeapInv, HeldDistinct
    <3>. HIDE DEF block
    <3>2. block = held[k]
      BY DEF block
    <3>. QED  BY <3>1, <3>2, <1>7, BlocksHeldMembers
  <2>2. block \in BlocksHeld
    BY <1>9, BlocksHeldMembers
  <2>3. PICK j \in 1..Len(nodes) : /\ nodes[j].begin = block.addr
                                   /\ nodes[j].size = block.size
    BY <1>9 DEF HeapInv, HeldIsReserved, Reserves
  <2>4. nodes \in Seq(Node) /\ Tiles(nodes) /\ Ordered(nodes)
    BY DEF HeapInv, TypeOK, Tiling
  <2>5. /\ nodes[j].begin \in Nat /\ nodes[j].size \in Nat
        /\ HEAP_BASE <= nodes[j].begin
        /\ nodes[j].begin + nodes[j].size <= STACK_BASE
    BY <2>4, NodeFields, NodeInHeap DEF End
  <2>6. block \in Abstract!Block
    <3>1. /\ block.addr \in HEAP_BASE..STACK_BASE
          /\ block.size \in 1..(STACK_BASE - HEAP_BASE)
      BY <2>3, <2>5, <1>9, HeapAssumption
    <3>. QED  BY <3>1, <1>2 DEF Block, Abstract!Block
  <2>7. BlocksHeld' = BlocksHeld \ {block}
    <3>. HIDE DEF block
    <3>. QED  BY <2>1
  <2>8. Abstract!Free(block)
    <3>. HIDE DEF block
    <3>. QED  BY <2>2, <2>7, <1>1, <1>6 DEF Abstract!Free
  <2>. QED  BY <2>6, <2>8 DEF Abstract!Next
<1>. QED  BY <1>2, <1>8, <1>9

(* The heap implements AbstractHeap: what vm_alloc hands out lies in the   *)
(* heap and is disjoint from every block the program holds, and vm_free    *)
(* ends the use of one block and of no other.                              *)
THEOREM HeapImplementsAbstractHeap == Spec => ImplementsAbstractHeap
<1>1. Init => Abstract!Init
  <2>. SUFFICES ASSUME Init PROVE Abstract!Init
    OBVIOUS
  <2>1. held = << >> /\ status = "VM_OK"
    BY DEF Init
  <2>2. \A b : b \notin BlocksHeld
    BY <2>1, BlocksHeldMembers
  <2>. QED  BY <2>1, <2>2 DEF Abstract!Init
<1>2. HeapInv /\ [Next]_vars => [Abstract!Next]_Abstract!vars
  <2>. SUFFICES ASSUME HeapInv, [Next]_vars
                PROVE  [Abstract!Next]_Abstract!vars
    OBVIOUS
  <2>1. ASSUME held' = held, status' = status
        PROVE  UNCHANGED Abstract!vars
    BY <2>1 DEF Abstract!vars, BlocksHeld
  <2>2. ASSUME held' = held, status = "VM_OK", status' # "VM_OK"
        PROVE  Abstract!Next
    BY <2>2 DEF Abstract!Next, Abstract!Fail, BlocksHeld
  <2>3. CASE UNCHANGED vars
    BY <2>1, <2>3 DEF vars
  <2>4. ASSUME NEW size \in Sizes, Malloc(size)
        PROVE  [Abstract!Next]_Abstract!vars
    <3>1. size \in Nat
      BY SizeAssumption DEF Sizes
    <3>. QED  BY <3>1, <2>4, MallocImplements
  <2>5. ASSUME NEW size \in Sizes, MallocFails(size)
        PROVE  Abstract!Next
    BY <2>2, <2>5 DEF MallocFails
  <2>6. ASSUME NEW k \in 1..Len(held), Free(k)
        PROVE  [Abstract!Next]_Abstract!vars
    BY <2>6, FreeImplements
  <2>7. ASSUME NEW k \in 1..Len(held), FreeAtTheEnd(k)
        PROVE  Abstract!Next
    BY <2>2, <2>7 DEF FreeAtTheEnd
  <2>8. ASSUME NEW addr \in Addresses, StrayFree(addr)
        PROVE  [Abstract!Next]_Abstract!vars
    BY <2>1, <2>2, <2>8 DEF StrayFree, VmFree
  <2>9. ASSUME NEW addr \in Addresses, StrayFreeOutOfTheHeap(addr)
        PROVE  Abstract!Next
    BY <2>2, <2>9 DEF StrayFreeOutOfTheHeap
  <2>. QED  BY <2>3, <2>4, <2>5, <2>6, <2>7, <2>8, <2>9 DEF Next
<1>. QED  BY <1>1, <1>2, HeapInvariant, PTL
          DEF Spec, ImplementsAbstractHeap, Abstract!Spec
----------------------------------------------------------------------------
(* Frees in the reverse order of the mallocs.  The shape of the list alone *)
(* is not inductive: that vm_free finds the last node in use, and not one  *)
(* before it, needs the order of the nodes and that none of them is empty. *)
LifoInv ==
  /\ HeapInv
  /\ LifoShape
  /\ \A k \in 1..Len(held) : held[k].size > 0

(* A malloc takes the one free node, behind all blocks held.               *)
LEMMA LifoMalloc ==
  ASSUME LifoInv, NEW size \in Nat \ {0}, Malloc(size)
  PROVE  LifoInv'
<1>. DEFINE n == Len(held)
<1>1. PICK i \in 1..Len(nodes) :
        /\ IsFirstFit(nodes, i, size)
        /\ nodes' = Carve(nodes, i, size)
        /\ held' = Append(held, [addr |-> nodes[i].begin, size |-> size])
  BY DEF Malloc
<1>2. /\ nodes \in Seq(Node) /\ held \in Seq(Block) /\ n \in Nat
      /\ Len(nodes) = n + 1
      /\ \A k \in 1..n : /\ ~nodes[k].free
                         /\ nodes[k].begin = held[k].addr
                         /\ nodes[k].size = held[k].size
                         /\ held[k].size > 0
  BY DEF LifoInv, LifoShape, HeapInv, TypeOK
<1>3. Fits(nodes, i, size) /\ i = n + 1
  BY <1>1, <1>2 DEF IsFirstFit, Fits
<1>4. HeapInv'
  BY MallocInv DEF LifoInv
<1>5. /\ Len(held') = n + 1 /\ \A k \in 1..n : held'[k] = held[k]
      /\ held'[n + 1] = [addr |-> nodes[i].begin, size |-> size]
  BY <1>1, <1>2
<1>6. /\ Len(nodes') = n + 2
      /\ \A k \in 1..n : nodes'[k] = nodes[k]
      /\ nodes'[n + 1] = [begin |-> nodes[i].begin, size |-> size, free |-> FALSE]
      /\ nodes'[n + 2].free
  <2>1. Len(nodes') = n + 2
    BY <1>1, <1>2, <1>3, CarveType
  <2>2. \A k \in 1..n : nodes'[k] = nodes[k]
    BY <1>1, <1>2, <1>3 DEF Carve
  <2>3. nodes'[n + 1] = [begin |-> nodes[i].begin, size |-> size, free |-> FALSE]
    BY <1>1, <1>2, <1>3 DEF Carve
  <2>4. nodes'[n + 2].free
    BY <1>1, <1>2, <1>3 DEF Carve
  <2>. QED  BY <2>1, <2>2, <2>3, <2>4
<1>7. ASSUME NEW k \in 1..(n + 1)
      PROVE  /\ ~nodes'[k].free
             /\ nodes'[k].begin = held'[k].addr /\ nodes'[k].size = held'[k].size
             /\ held'[k].size > 0
  <2>1. CASE k = n + 1
    BY <1>5, <1>6, <2>1
  <2>2. CASE k \in 1..n
    BY <1>2, <1>5, <1>6, <2>2
  <2>. QED  BY <1>2, <2>1, <2>2
<1>8. Len(nodes') = Len(held') + 1
  BY <1>2, <1>5, <1>6
<1>. QED  BY <1>2, <1>4, <1>5, <1>6, <1>7, <1>8 DEF LifoInv, LifoShape

(* A free of the last block gives its node back to the free one.           *)
LEMMA LifoFree ==
  ASSUME LifoInv, held # <<>>, Free(Len(held))
  PROVE  LifoInv'
<1>. DEFINE n == Len(held)
            a == held[n].addr
<1>1. /\ nodes \in Seq(Node) /\ held \in Seq(Block) /\ n \in Nat \ {0}
      /\ Len(nodes) = n + 1 /\ nodes[n + 1].free
      /\ \A k \in 1..n : /\ ~nodes[k].free
                         /\ nodes[k].begin = held[k].addr
                         /\ nodes[k].size = held[k].size
                         /\ held[k].size > 0
      /\ Ordered(nodes)
  BY DEF LifoInv, LifoShape, HeapInv, TypeOK
<1>2. HeapInv'
  <2>1. n \in 1..Len(held)
    BY <1>1
  <2>. QED  BY <2>1, FreeInv DEF LifoInv
<1>3. nodes[n].begin = a
  BY <1>1
<1>4. \A k \in 1..(n - 1) : nodes[k].begin # a
  <2>. TAKE k \in 1..(n - 1)
  <2>1. k \in 1..Len(nodes) /\ n \in 1..Len(nodes) /\ k < n /\ k \in 1..n
    BY <1>1
  <2>2. nodes[k].begin \in Nat /\ nodes[k].size \in Nat
    BY <1>1, <2>1, NodeFields
  <2>3. nodes[k].begin + nodes[k].size <= nodes[n].begin
    BY <1>1, <2>1 DEF Ordered, End
  <2>4. nodes[k].size > 0
    BY <1>1, <2>1
  <2>. QED  BY <1>1, <1>3, <2>1, <2>2, <2>3, <2>4, NodeFields
<1>5. nodes' = Release(nodes, n)
  <2>1. n \in 1..Len(nodes)
    BY <1>1
  <2>2. ~NoNodeAt(nodes, a)
    BY <1>3, <2>1 DEF NoNodeAt
  <2>3. PICK i \in 1..Len(nodes) : /\ IsFirstAt(nodes, i, a)
                                   /\ nodes' = Release(nodes, i)
    BY <2>2 DEF Free, VmFree
  <2>4. ~(i < n)
    BY <1>1, <1>4, <2>3 DEF IsFirstAt
  <2>5. ~(i > n)
    <3>1. i > n => n \in 1..(i - 1)
      BY <1>1
    <3>. QED  BY <1>3, <2>3, <3>1 DEF IsFirstAt
  <2>6. i = n
    BY <1>1, <2>4, <2>5
  <2>. QED  BY <2>3, <2>6
<1>6. NextIsFree(nodes, n)
  BY <1>1 DEF NextIsFree
<1>7. Len(nodes') = n /\ nodes'[n].free /\ \A k \in 1..(n - 1) : nodes'[k] = nodes[k]
  <2>1. Len(nodes') = n
    BY <1>1, <1>5, <1>6, ReleaseType
  <2>2. nodes'[n].free
    BY <1>1, <1>5, <1>6 DEF Release
  <2>3. \A k \in 1..(n - 1) : nodes'[k] = nodes[k]
    BY <1>1, <1>5, <1>6 DEF Release
  <2>. QED  BY <2>1, <2>2, <2>3
<1>8. Len(held') = n - 1 /\ \A k \in 1..(n - 1) : held'[k] = held[k]
  <2>1. held' = RemoveAt(held, n) /\ n \in 1..Len(held)
    BY <1>1 DEF Free
  <2>2. /\ Len(held') = Len(held) - 1
        /\ \A j \in 1..(Len(held) - 1) :
             held'[j] = IF j < n THEN held[j] ELSE held[j+1]
    <3>1. held \in Seq(Block)
      BY <1>1
    <3>. HIDE DEF n
    <3>. QED  BY <2>1, <3>1, RemoveAtProperties
  <2>. QED  BY <1>1, <2>2
<1>9. ASSUME NEW k \in 1..(n - 1)
      PROVE  /\ ~nodes'[k].free
             /\ nodes'[k].begin = held'[k].addr /\ nodes'[k].size = held'[k].size
             /\ held'[k].size > 0
  <2>1. k \in 1..n
    BY <1>1
  <2>. QED  BY <1>1, <1>7, <1>8, <2>1
<1>10. Len(nodes') = Len(held') + 1
  BY <1>1, <1>7, <1>8
<1>. QED  BY <1>1, <1>2, <1>7, <1>8, <1>9, <1>10 DEF LifoInv, LifoShape

(* A program that frees its blocks in the reverse of the order in which it *)
(* got them, none of them empty, keeps the heap whole for every number of  *)
(* calls, although vm_free joins a node with the one after it only         *)
(* (allocator.c:37-47).                                                    *)
THEOREM LifoKeepsTheHeapWhole ==
  ASSUME MinSize > 0
  PROVE  LifoSpec => []LifoShape
<1>1. Init => LifoInv
  <2>. SUFFICES ASSUME Init PROVE LifoInv
    OBVIOUS
  <2>1. HeapInv
    BY InitInv
  <2>2. Len(held) = 0 /\ Len(nodes) = 1 /\ nodes[1].free
    BY DEF Init, InitialNodes
  <2>. QED  BY <2>1, <2>2 DEF LifoInv, LifoShape
<1>2. LifoInv /\ [LifoNext]_vars => LifoInv'
  <2>. SUFFICES ASSUME LifoInv, [LifoNext]_vars PROVE LifoInv'
    OBVIOUS
  <2>1. ASSUME UNCHANGED <<nodes, held>>, HeapInv' PROVE LifoInv'
    BY <2>1 DEF LifoInv, LifoShape
  <2>2. CASE UNCHANGED vars
    <3>1. HeapInv'
      BY <2>2, NextInv DEF LifoInv
    <3>. QED  BY <2>1, <2>2, <3>1 DEF vars
  <2>3. ASSUME NEW size \in Sizes, Malloc(size) PROVE LifoInv'
    <3>1. size \in Nat \ {0}
      BY SizeAssumption DEF Sizes
    <3>. QED  BY <2>3, <3>1, LifoMalloc
  <2>4. ASSUME NEW size \in Sizes, MallocFails(size) PROVE LifoInv'
    <3>1. HeapInv'
      BY <2>4, NextInv DEF LifoInv, Next
    <3>. QED  BY <2>1, <2>4, <3>1 DEF MallocFails
  <2>5. CASE held # <<>> /\ Free(Len(held))
    BY <2>5, LifoFree
  <2>. QED  BY <2>2, <2>3, <2>4, <2>5 DEF LifoNext
<1>3. LifoInv => LifoShape
  BY DEF LifoInv
<1>. QED  BY <1>1, <1>2, <1>3, PTL DEF LifoSpec
=============================================================================
