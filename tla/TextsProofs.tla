----------------------------- MODULE TextsProofs -----------------------------
(***************************************************************************)
(* Theorems about Texts, for runs of any length and any copy or growth     *)
(* failing.                                                                *)
(*                                                                         *)
(* Every text has one holder: the event or one of the six arrays.  The     *)
(* invariant is about what each of them holds: the holdings are apart from *)
(* each other, none holds a block twice, and together they are the heap.   *)
(* A step then does one of three things to them: it adds blocks that were  *)
(* free, it moves all of one holder's blocks to another, or it gives some  *)
(* of one holder's blocks back.                                            *)
(***************************************************************************)
EXTENDS Texts, FiniteSetTheorems, SequenceTheorems, WellFoundedInduction, TLAPS

Blocks(s) == ToSet(s) \ {0}

\* An array of texts that holds none of them twice.
Clean(s) ==
    /\ s \in Seq(Nat)
    /\ \A i, j \in DOMAIN s : s[i] # 0 /\ s[i] = s[j] => i = j

AllBlocks(rows) == UNION {Blocks(rows[n]) : n \in DOMAIN rows}

CleanAll(rows) ==
    /\ rows \in Seq(Seq(Nat))
    /\ \A n \in DOMAIN rows : Clean(rows[n])
    /\ \A m, n \in DOMAIN rows : m # n => Blocks(rows[m]) \cap Blocks(rows[n]) = {}

Holder == {"event", "sites", "resources", "calls", "allocs", "freed_allocs", "findings"}

Holdings ==
    [h \in Holder |->
       IF h = "event" THEN Blocks(event)
       ELSE IF h = "sites" THEN Blocks(sites)
       ELSE IF h = "resources" THEN Blocks(resources)
       ELSE IF h = "calls" THEN Blocks(calls)
       ELSE IF h = "allocs" THEN Blocks(allocs)
       ELSE IF h = "freed_allocs" THEN Blocks(freed_allocs)
       ELSE AllBlocks(findings)]

Heap(heap) == heap \subseteq Nat \ {0} /\ IsFiniteSet(heap)

\* Nothing is held twice, and what is held is in use.
Apart(held, heap) ==
    /\ Heap(heap)
    /\ held \in [Holder -> SUBSET heap]
    /\ \A h, k \in Holder : h # k => held[h] \cap held[k] = {}

Complete(held, heap) == \A b \in heap : \E h \in Holder : b \in held[h]

Arrays ==
    /\ Clean(event) /\ Clean(sites) /\ Clean(resources) /\ Clean(calls)
    /\ Clean(allocs) /\ Clean(freed_allocs) /\ CleanAll(findings)

Phases ==
    {"resources", "store", "tables", "release", "calls", "add", "release_call", "finalize",
     "free", "done"}

\* Where the run can stand with an event in hand, and after a call was refused.
Control ==
    /\ phase \in Phases /\ kind \in Kind /\ err \in BOOLEAN /\ refused \in BOOLEAN
    /\ phase \in {"resources", "calls", "finalize", "free", "done"} => event = <<>>
    /\ phase \in {"store", "tables", "add"} => ~err
    /\ refused => err /\ phase \in {"release_call", "calls", "free", "done"}

TextsInv ==
    /\ Control /\ Arrays
    /\ Apart(Holdings, live)
    /\ ~refused => Complete(Holdings, live)

-----------------------------------------------------------------------------
(* The heap.                                                               *)

LEMMA LeastExists ==
    ASSUME NEW S, S \subseteq Nat, S # {}
    PROVE  \E i \in S : \A j \in S : i <= j
<1> DEFINE R == {ss \in Nat \X Nat : ss[1] < ss[2]}
<1>1. \E i \in S : \A j \in S : ~(<<j, i>> \in R)
  <2>1. IsWellFoundedOn(R, Nat)
    BY NatLessThanWellFounded DEF OpToRel
  <2> HIDE DEF R
  <2> QED BY <2>1, WFMin
<1>2. PICK i \in S : \A j \in S : ~(<<j, i>> \in R)
  BY <1>1
<1>3. ASSUME NEW j \in S PROVE i <= j
  <2>1. i \in Nat /\ j \in Nat /\ ~(<<j, i>> \in R)
    BY <1>2
  <2> QED BY <2>1
<1> QED BY <1>3

\* The number of free addresses grows by one with each one that is free.
LEMMA FreeStep ==
    ASSUME NEW heap, NEW b \in Nat \ {0}
    PROVE  /\ Cardinality(Free(heap, b)) \in Nat
           /\ b \in heap => Cardinality(Free(heap, b)) = Cardinality(Free(heap, b - 1))
           /\ b \notin heap => Cardinality(Free(heap, b)) = Cardinality(Free(heap, b - 1)) + 1
<1>1. IsFiniteSet(1 .. b) /\ IsFiniteSet(1 .. b - 1)
  BY FS_Interval
<1>2. Free(heap, b) \subseteq 1 .. b /\ Free(heap, b - 1) \subseteq 1 .. b - 1
  BY DEF Free
<1>3. IsFiniteSet(Free(heap, b)) /\ IsFiniteSet(Free(heap, b - 1))
  BY <1>1, <1>2, FS_Subset
<1>4. b \in heap => Free(heap, b) = Free(heap, b - 1)
  BY DEF Free
<1>5. b \notin heap => Free(heap, b) = Free(heap, b - 1) \cup {b} /\ b \notin Free(heap, b - 1)
  BY DEF Free
<1> QED BY <1>3, <1>4, <1>5, FS_CardinalityType, FS_AddElement

\* There is a k-th free address, and it is not far away.
LEMMA FreshIsFree ==
    ASSUME NEW heap, Heap(heap), NEW k \in Nat \ {0}
    PROVE  /\ Fresh(heap, k) \in Nat \ {0} /\ Fresh(heap, k) \notin heap
           /\ Cardinality(Free(heap, Fresh(heap, k))) = k
<1> DEFINE top == Cardinality(heap) + k
<1>1. Cardinality(heap) \in Nat
  BY FS_CardinalityType DEF Heap
<1>2. Cardinality(Free(heap, top)) >= k
  <2>1. IsFiniteSet(1 .. top) /\ Cardinality(1 .. top) = top
    BY <1>1, FS_Interval
  <2>2. (1 .. top) \cap heap \subseteq heap
    OBVIOUS
  <2>3. Cardinality((1 .. top) \cap heap) <= Cardinality(heap) /\ IsFiniteSet((1 .. top) \cap heap)
    BY <2>2, FS_Subset DEF Heap
  <2>4. Free(heap, top) = (1 .. top) \ heap
    BY DEF Free
  <2>5. Cardinality((1 .. top) \ heap) = Cardinality(1 .. top) - Cardinality((1 .. top) \cap heap)
    BY <2>1, FS_Difference
  <2>6. Cardinality((1 .. top) \cap heap) \in Nat
    BY <2>3, FS_CardinalityType
  <2>7. Cardinality(Free(heap, top)) = top - Cardinality((1 .. top) \cap heap)
    BY <2>1, <2>4, <2>5
  <2> QED BY <1>1, <2>3, <2>6, <2>7
<1> DEFINE S == {b \in Nat : Cardinality(Free(heap, b)) >= k}
<1>3. top \in S
  BY <1>1, <1>2
<1>4. PICK b \in S : \A c \in S : b <= c
  BY <1>3, LeastExists
<1>5. Cardinality(Free(heap, 0)) = 0
  <2>1. Free(heap, 0) = {}
    BY DEF Free
  <2> QED BY <2>1, FS_EmptySet
<1>6. b \in 1 .. top
  BY <1>1, <1>3, <1>4, <1>5
<1>7. b - 1 \notin S
  BY <1>4, <1>6
<1>8. Cardinality(Free(heap, b - 1)) \in Nat
  <2>1. Free(heap, b - 1) \subseteq 1 .. b - 1 /\ IsFiniteSet(1 .. b - 1)
    BY <1>6, FS_Interval DEF Free
  <2> QED BY <2>1, FS_Subset, FS_CardinalityType
<1>9. b \notin heap /\ Cardinality(Free(heap, b)) = k
  BY <1>4, <1>6, <1>7, <1>8, FreeStep
<1>10. /\ Fresh(heap, k) \in 1 .. top /\ Fresh(heap, k) \notin heap
       /\ Cardinality(Free(heap, Fresh(heap, k))) = k
  BY <1>6, <1>9 DEF Fresh
<1> QED BY <1>1, <1>10

\* Two addresses handed out for one record are different.
LEMMA FreshDiffers ==
    ASSUME NEW heap, Heap(heap), NEW k \in Nat \ {0}, NEW m \in Nat \ {0},
           Fresh(heap, k) = Fresh(heap, m)
    PROVE  k = m
BY FreshIsFree

-----------------------------------------------------------------------------
(* Sequences of texts.                                                     *)

LEMMA CleanEmpty == Clean(<<>>) /\ Blocks(<<>>) = {} /\ CleanAll(<<>>) /\ AllBlocks(<<>>) = {}
<1>1. <<>> \in Seq(Nat) /\ <<>> \in Seq(Seq(Nat)) /\ DOMAIN <<>> = {}
  OBVIOUS
<1> QED BY <1>1 DEF Clean, Blocks, ToSet, CleanAll, AllBlocks

LEMMA BlocksMeaning ==
    ASSUME NEW s \in Seq(Nat)
    PROVE  /\ \A b : b \in Blocks(s) <=> b # 0 /\ \E i \in 1 .. Len(s) : s[i] = b
           /\ DOMAIN s = 1 .. Len(s) /\ Len(s) \in Nat
           /\ Blocks(s) \subseteq Nat \ {0}
BY DEF Blocks, ToSet

\* Clean, on the indices of a sequence.
LEMMA CleanMeaning ==
    ASSUME NEW s, Clean(s), NEW i \in 1 .. Len(s), NEW j \in 1 .. Len(s), s[i] # 0, s[i] = s[j]
    PROVE  i = j
<1>1. DOMAIN s = 1 .. Len(s)
  BY DEF Clean
<1> QED BY <1>1 DEF Clean

LEMMA CleanConcat ==
    ASSUME NEW s, NEW t, Clean(s), Clean(t), Blocks(s) \cap Blocks(t) = {}
    PROVE  Clean(s \o t) /\ Blocks(s \o t) = Blocks(s) \cup Blocks(t)
<1> DEFINE u == s \o t
<1>1. s \in Seq(Nat) /\ t \in Seq(Nat)
  BY DEF Clean
<1>2. /\ u \in Seq(Nat) /\ Len(u) = Len(s) + Len(t) /\ Len(s) \in Nat /\ Len(t) \in Nat
      /\ \A i \in 1 .. Len(s) : u[i] = s[i]
      /\ \A i \in 1 .. Len(t) : u[Len(s) + i] = t[i]
      /\ \A i \in 1 .. Len(u) : i > Len(s) => i - Len(s) \in 1 .. Len(t) /\ u[i] = t[i - Len(s)]
      /\ DOMAIN u = 1 .. Len(u)
  BY <1>1
<1> HIDE DEF u
<1>3. Blocks(u) = Blocks(s) \cup Blocks(t)
  <2>1. ASSUME NEW b \in Blocks(u) PROVE b \in Blocks(s) \cup Blocks(t)
    <3>1. PICK i \in 1 .. Len(u) : u[i] = b /\ b # 0
      BY <1>2, <2>1, BlocksMeaning
    <3>2. CASE i <= Len(s)
      <4>1. i \in 1 .. Len(s) /\ s[i] = b
        BY <1>2, <3>1, <3>2
      <4> QED BY <1>1, <3>1, <4>1, BlocksMeaning
    <3>3. CASE i > Len(s)
      <4>1. i - Len(s) \in 1 .. Len(t) /\ t[i - Len(s)] = b
        BY <1>2, <3>1, <3>3
      <4> QED BY <1>1, <3>1, <4>1, BlocksMeaning
    <3> QED BY <1>2, <3>2, <3>3
  <2>2. ASSUME NEW b \in Blocks(s) PROVE b \in Blocks(u)
    <3>1. PICK i \in 1 .. Len(s) : s[i] = b /\ b # 0
      BY <1>1, BlocksMeaning
    <3> QED BY <1>2, <3>1, BlocksMeaning
  <2>3. ASSUME NEW b \in Blocks(t) PROVE b \in Blocks(u)
    <3>1. PICK i \in 1 .. Len(t) : t[i] = b /\ b # 0
      BY <1>1, BlocksMeaning
    <3>2. Len(s) + i \in 1 .. Len(u)
      BY <1>2
    <3> QED BY <1>2, <3>1, <3>2, BlocksMeaning
  <2> QED BY <2>1, <2>2, <2>3
<1>4. ASSUME NEW i \in 1 .. Len(u), NEW j \in 1 .. Len(u), u[i] # 0, u[i] = u[j]
      PROVE  i = j
  <2> i \in Nat /\ j \in Nat
    BY <1>2
  <2>1. ASSUME NEW k \in 1 .. Len(s), NEW m \in 1 .. Len(t), s[k] # 0 PROVE s[k] # t[m]
    <3>1. t[m] = s[k] => s[k] \in Blocks(s) /\ t[m] \in Blocks(t)
      BY <1>1, <2>1, BlocksMeaning
    <3> QED BY <3>1
  <2>2. CASE i <= Len(s) /\ j <= Len(s)
    <3>1. i \in 1 .. Len(s) /\ j \in 1 .. Len(s) /\ u[i] = s[i] /\ u[j] = s[j]
      BY <1>2, <2>2
    <3> QED BY <1>4, <3>1, CleanMeaning
  <2>3. CASE i > Len(s) /\ j > Len(s)
    <3>1. /\ i - Len(s) \in 1 .. Len(t) /\ j - Len(s) \in 1 .. Len(t)
          /\ u[i] = t[i - Len(s)] /\ u[j] = t[j - Len(s)]
      BY <1>2, <2>3
    <3>2. i - Len(s) = j - Len(s)
      BY <1>4, <3>1, CleanMeaning
    <3> QED BY <1>2, <3>2
  <2>4. CASE i <= Len(s) /\ j > Len(s)
    <3>1. /\ i \in 1 .. Len(s) /\ u[i] = s[i]
          /\ j - Len(s) \in 1 .. Len(t) /\ u[j] = t[j - Len(s)]
      BY <1>2, <2>4
    <3> QED BY <1>4, <2>1, <3>1
  <2>5. CASE i > Len(s) /\ j <= Len(s)
    <3>1. /\ j \in 1 .. Len(s) /\ u[j] = s[j]
          /\ i - Len(s) \in 1 .. Len(t) /\ u[i] = t[i - Len(s)]
      BY <1>2, <2>5
    <3> QED BY <1>4, <2>1, <3>1
  <2> QED BY <1>2, <2>2, <2>3, <2>4, <2>5
<1>5. Clean(u)
  BY <1>2, <1>4 DEF Clean
<1> QED BY <1>3, <1>5 DEF u

\* Copies are new blocks, some of them missing.
LEMMA CopiesAreFresh ==
    ASSUME NEW heap, Heap(heap), NEW n \in Nat, NEW copy \in Copied(heap, n)
    PROVE  /\ copy.ok \in BOOLEAN
           /\ Clean(copy.texts) /\ Len(copy.texts) = n
           /\ Blocks(copy.texts) \cap heap = {}
           /\ copy.heap = heap \cup Blocks(copy.texts) /\ Heap(copy.heap)
<1>1. PICK failed \in SUBSET (1 .. n) :
        copy = [ok |-> failed = {},
                texts |-> [k \in 1 .. n |-> IF k \in failed THEN 0 ELSE Fresh(heap, k)],
                heap |-> heap \cup (ToSet([k \in 1 .. n |-> IF k \in failed THEN 0
                                                          ELSE Fresh(heap, k)]) \ {0})]
  BY DEF Copied
<1> DEFINE texts == [k \in 1 .. n |-> IF k \in failed THEN 0 ELSE Fresh(heap, k)]
<1>2. copy.ok \in BOOLEAN /\ copy.texts = texts /\ copy.heap = heap \cup Blocks(texts)
  BY <1>1 DEF Blocks
<1>3. \A k \in 1 .. n : k \in Nat \ {0} /\ texts[k] \in Nat /\ (texts[k] # 0 => texts[k] = Fresh(heap, k))
  BY FreshIsFree
<1>4. DOMAIN texts = 1 .. n
  OBVIOUS
<1> HIDE DEF texts
<1>5. texts \in Seq(Nat) /\ Len(texts) = n
  <2>1. texts \in [1 .. n -> Nat]
    <3>1. texts = [k \in 1 .. n |-> texts[k]]
      BY DEF texts
    <3> QED BY <1>3, <3>1
  <2> QED BY <2>1
<1>6. Clean(texts)
  BY <1>3, <1>4, <1>5, FreshDiffers DEF Clean
<1>7. Blocks(texts) \cap heap = {}
  <2>1. \A k \in 1 .. n : texts[k] # 0 => texts[k] \notin heap
    BY <1>3, FreshIsFree
  <2> QED BY <1>5, <2>1, BlocksMeaning
<1>8. IsFiniteSet(Blocks(texts))
  <2>1. IsFiniteSet(1 .. n)
    BY FS_Interval
  <2>2. IsFiniteSet({texts[k] : k \in 1 .. n})
    <3> DEFINE image == {texts[k] : k \in 1 .. n}
    <3>1. texts \in [1 .. n -> image]
      <4>1. texts = [k \in 1 .. n |-> texts[k]]
        BY DEF texts
      <4> QED BY <4>1
    <3>2. texts \in Surjection(1 .. n, image)
      BY <3>1 DEF Surjection
    <3> QED BY <2>1, <3>2, FS_Surjection
  <2>3. Blocks(texts) \subseteq {texts[k] : k \in 1 .. n}
    BY <1>4 DEF Blocks, ToSet
  <2> QED BY <2>2, <2>3, FS_Subset
<1>9. Heap(copy.heap)
  <2>1. IsFiniteSet(heap \cup Blocks(texts))
    BY <1>8, FS_Union DEF Heap
  <2>2. heap \cup Blocks(texts) \subseteq Nat \ {0}
    BY <1>5, BlocksMeaning DEF Heap
  <2> QED BY <1>2, <2>1, <2>2 DEF Heap
<1> QED BY <1>2, <1>5, <1>6, <1>7, <1>9

\* Interning adds nothing or two copies.
LEMMA InternedAreFresh ==
    ASSUME NEW heap, Heap(heap), NEW in \in Interned(heap)
    PROVE  /\ in.ok \in BOOLEAN
           /\ Clean(in.texts)
           /\ Blocks(in.texts) \cap heap = {}
           /\ in.heap = heap \cup Blocks(in.texts) /\ Heap(in.heap)
<1>1. CASE in \in Copied(heap, 2)
  BY <1>1, CopiesAreFresh
<1>2. CASE in \in {[ok |-> TRUE, texts |-> <<>>, heap |-> heap], [ok |-> FALSE, texts |-> <<>>, heap |-> heap]}
  <2>1. in.ok \in BOOLEAN
    <3>1. CASE in = [ok |-> TRUE, texts |-> <<>>, heap |-> heap]
      BY <3>1
    <3>2. CASE in = [ok |-> FALSE, texts |-> <<>>, heap |-> heap]
      BY <3>2
    <3> QED BY <1>2, <3>1, <3>2
  <2>2. in.texts = <<>> /\ in.heap = heap
    BY <1>2
  <2> QED BY <2>1, <2>2, CleanEmpty
<1> QED BY <1>1, <1>2 DEF Interned

\* An array without one of its entries.
LEMMA CleanWithout ==
    ASSUME NEW s, Clean(s), NEW i \in 1 .. Len(s)
    PROVE  Clean(Without(s, i)) /\ Blocks(Without(s, i)) = Blocks(s) \ {s[i]}
<1> DEFINE u == Without(s, i)
<1>1. s \in Seq(Nat) /\ Len(s) \in Nat \ {0} /\ i \in Nat
  BY DEF Clean
<1>2. /\ u \in Seq(Nat) /\ Len(u) = Len(s) - 1
      /\ \A k \in 1 .. Len(u) : u[k] = IF k = i THEN s[Len(s)] ELSE s[k]
  <2> DEFINE v == [s EXCEPT ![i] = s[Len(s)]]
  <2>1. v \in Seq(Nat) /\ Len(v) = Len(s) /\ \A k \in 1 .. Len(s) : v[k] = IF k = i THEN s[Len(s)] ELSE s[k]
    BY <1>1
  <2>2. u = SubSeq(v, 1, Len(v) - 1)
    BY DEF Without, Front, Last
  <2> HIDE DEF v
  <2>3. SubSeq(v, 1, Len(v) - 1) \in Seq(Nat) /\ Len(SubSeq(v, 1, Len(v) - 1)) = Len(v) - 1
    BY <1>1, <2>1
  <2>4. \A k \in 1 .. Len(v) - 1 : SubSeq(v, 1, Len(v) - 1)[k] = v[k]
    BY <1>1, <2>1
  <2> QED BY <1>1, <2>1, <2>2, <2>3, <2>4
<1> HIDE DEF u
<1> DEFINE from(k) == IF k = i THEN Len(s) ELSE k
<1>3. \A k \in 1 .. Len(u) : from(k) \in 1 .. Len(s) /\ from(k) # i /\ u[k] = s[from(k)]
  BY <1>1, <1>2
<1>4. \A k \in 1 .. Len(s) : k # i => \E m \in 1 .. Len(u) : from(m) = k
  <2> SUFFICES ASSUME NEW k \in 1 .. Len(s), k # i
               PROVE  \E m \in 1 .. Len(u) : from(m) = k
    OBVIOUS
  <2>1. CASE k = Len(s)
    <3>1. i \in 1 .. Len(u) /\ from(i) = k
      BY <1>1, <1>2, <2>1
    <3> QED BY <3>1
  <2>2. CASE k # Len(s)
    <3>1. k \in 1 .. Len(u) /\ from(k) = k
      BY <1>1, <1>2, <2>2
    <3> QED BY <3>1
  <2> QED BY <2>1, <2>2
<1>5. \A k, m \in 1 .. Len(u) : from(k) = from(m) => k = m
  BY <1>1, <1>2
<1> HIDE DEF from
<1>6. Clean(u)
  <2>1. ASSUME NEW k \in 1 .. Len(u), NEW m \in 1 .. Len(u), u[k] # 0, u[k] = u[m]
        PROVE  k = m
    <3>1. from(k) = from(m)
      BY <1>3, <2>1, CleanMeaning
    <3> QED BY <1>5, <3>1
  <2>2. DOMAIN u = 1 .. Len(u)
    BY <1>2
  <2> QED BY <1>2, <2>1, <2>2 DEF Clean
<1>7. Blocks(u) = Blocks(s) \ {s[i]}
  <2>1. ASSUME NEW b \in Blocks(u) PROVE b \in Blocks(s) /\ b # s[i]
    <3>1. PICK k \in 1 .. Len(u) : u[k] = b /\ b # 0
      BY <1>2, <2>1, BlocksMeaning
    <3>2. from(k) \in 1 .. Len(s) /\ s[from(k)] = b /\ from(k) # i
      BY <1>3, <3>1
    <3>3. b # s[i]
      BY <3>1, <3>2, CleanMeaning
    <3> QED BY <1>1, <3>1, <3>2, <3>3, BlocksMeaning
  <2>2. ASSUME NEW b \in Blocks(s), b # s[i] PROVE b \in Blocks(u)
    <3>1. PICK k \in 1 .. Len(s) : s[k] = b /\ b # 0
      BY <1>1, <2>2, BlocksMeaning
    <3>2. PICK m \in 1 .. Len(u) : from(m) = k
      BY <1>4, <2>2, <3>1
    <3>3. u[m] = b
      BY <1>3, <3>1, <3>2
    <3> QED BY <1>2, <3>1, <3>2, <3>3, BlocksMeaning
  <2> QED BY <2>1, <2>2
<1> QED BY <1>6, <1>7 DEF u

-----------------------------------------------------------------------------
(* Findings.                                                               *)

LEMMA AllBlocksMeaning ==
    ASSUME NEW rows \in Seq(Seq(Nat))
    PROVE  /\ \A b : b \in AllBlocks(rows) <=> \E n \in 1 .. Len(rows) : b \in Blocks(rows[n])
           /\ AllBlocks(rows) \subseteq Nat \ {0}
           /\ Len(rows) \in Nat /\ DOMAIN rows = 1 .. Len(rows)
<1>1. DOMAIN rows = 1 .. Len(rows) /\ Len(rows) \in Nat
  OBVIOUS
<1>2. \A n \in 1 .. Len(rows) : rows[n] \in Seq(Nat)
  OBVIOUS
<1>3. \A b : b \in AllBlocks(rows) <=> \E n \in 1 .. Len(rows) : b \in Blocks(rows[n])
  BY <1>1 DEF AllBlocks
<1>4. \A n \in 1 .. Len(rows) : Blocks(rows[n]) \subseteq Nat \ {0}
  BY <1>2, BlocksMeaning
<1> QED BY <1>1, <1>3, <1>4

\* A new finding with blocks of its own.
LEMMA CleanAllAppend ==
    ASSUME NEW rows, CleanAll(rows), NEW t, Clean(t), Blocks(t) \cap AllBlocks(rows) = {}
    PROVE  CleanAll(Append(rows, t)) /\ AllBlocks(Append(rows, t)) = AllBlocks(rows) \cup Blocks(t)
<1> DEFINE u == Append(rows, t)
<1>1. rows \in Seq(Seq(Nat)) /\ t \in Seq(Nat) /\ Len(rows) \in Nat
  BY DEF CleanAll, Clean
<1>2. /\ u \in Seq(Seq(Nat)) /\ Len(u) = Len(rows) + 1 /\ DOMAIN u = 1 .. Len(rows) + 1
      /\ \A n \in 1 .. Len(rows) : u[n] = rows[n]
      /\ u[Len(rows) + 1] = t
  BY <1>1
<1> HIDE DEF u
<1>3. \A n \in 1 .. Len(u) : n \in 1 .. Len(rows) \/ n = Len(rows) + 1
  BY <1>1, <1>2
<1>4. DOMAIN rows = 1 .. Len(rows)
  BY <1>1
<1>5. \A n \in DOMAIN u : Clean(u[n])
  BY <1>2, <1>3, <1>4 DEF CleanAll
<1>6. \A n \in 1 .. Len(rows) : Blocks(rows[n]) \cap Blocks(t) = {}
  BY <1>1, AllBlocksMeaning
<1>7. ASSUME NEW m \in DOMAIN u, NEW n \in DOMAIN u, m # n
      PROVE  Blocks(u[m]) \cap Blocks(u[n]) = {}
  <2>1. CASE m \in 1 .. Len(rows) /\ n \in 1 .. Len(rows)
    BY <1>2, <1>4, <1>7, <2>1 DEF CleanAll
  <2>2. CASE m \in 1 .. Len(rows) /\ n = Len(rows) + 1
    BY <1>2, <1>6, <2>2
  <2>3. CASE m = Len(rows) + 1 /\ n \in 1 .. Len(rows)
    BY <1>2, <1>6, <2>3
  <2> QED BY <1>2, <1>3, <1>7, <2>1, <2>2, <2>3
<1>8. AllBlocks(u) = AllBlocks(rows) \cup Blocks(t)
  <2>1. \A b : b \in AllBlocks(u) <=> \E n \in 1 .. Len(u) : b \in Blocks(u[n])
    BY <1>2, AllBlocksMeaning
  <2>2. \A b : b \in AllBlocks(rows) <=> \E n \in 1 .. Len(rows) : b \in Blocks(rows[n])
    BY <1>1, AllBlocksMeaning
  <2>3. Len(rows) + 1 \in 1 .. Len(u) /\ \A n \in 1 .. Len(rows) : n \in 1 .. Len(u)
    BY <1>1, <1>2
  <2> QED BY <1>2, <1>3, <2>1, <2>2, <2>3
<1> QED BY <1>2, <1>5, <1>7, <1>8 DEF CleanAll, u

\* The findings a rollback keeps, and the texts of the others.
Lost(rows, k, kept) ==
    UNION {ToSet(rows[n]) : n \in {d \in DOMAIN rows : \A m \in 1 .. k : d # kept[m]}}

LEMMA CleanAllKept ==
    ASSUME NEW rows, CleanAll(rows), NEW k \in Nat, NEW kept \in [1 .. k -> DOMAIN rows],
           \A m, n \in 1 .. k : m < n => kept[m] < kept[n]
    PROVE  /\ CleanAll([n \in 1 .. k |-> rows[kept[n]]])
           /\ AllBlocks([n \in 1 .. k |-> rows[kept[n]]]) = AllBlocks(rows) \ Lost(rows, k, kept)
<1> DEFINE gone == Lost(rows, k, kept)
           u == [n \in 1 .. k |-> rows[kept[n]]]
           lost == {d \in DOMAIN rows : \A m \in 1 .. k : d # kept[m]}
<1>1. rows \in Seq(Seq(Nat)) /\ DOMAIN rows = 1 .. Len(rows) /\ Len(rows) \in Nat
  BY DEF CleanAll
<1>2. DOMAIN u = 1 .. k /\ \A n \in 1 .. k : kept[n] \in 1 .. Len(rows) /\ u[n] = rows[kept[n]]
  BY <1>1
<1>3. u \in Seq(Seq(Nat)) /\ Len(u) = k
  <2>1. \A n \in 1 .. k : rows[kept[n]] \in Seq(Nat)
    BY <1>1, <1>2
  <2> QED BY <2>1
<1> HIDE DEF u
<1>4. \A m, n \in 1 .. k : m # n => kept[m] # kept[n]
  <2> SUFFICES ASSUME NEW m \in 1 .. k, NEW n \in 1 .. k, m # n
               PROVE  kept[m] # kept[n]
    OBVIOUS
  <2>1. kept[m] \in Nat /\ kept[n] \in Nat /\ (m < n \/ n < m)
    BY <1>2
  <2> QED BY <2>1
<1>5. CleanAll(u)
  <2>1. \A n \in DOMAIN u : Clean(u[n])
    BY <1>2 DEF CleanAll
  <2>2. ASSUME NEW m \in DOMAIN u, NEW n \in DOMAIN u, m # n
        PROVE  Blocks(u[m]) \cap Blocks(u[n]) = {}
    <3>1. /\ kept[m] \in DOMAIN rows /\ kept[n] \in DOMAIN rows /\ kept[m] # kept[n]
          /\ u[m] = rows[kept[m]] /\ u[n] = rows[kept[n]]
      BY <1>1, <1>2, <1>4, <2>2
    <3>2. Blocks(rows[kept[m]]) \cap Blocks(rows[kept[n]]) = {}
      BY <3>1 DEF CleanAll
    <3> QED BY <3>1, <3>2
  <2> QED BY <1>3, <2>1, <2>2 DEF CleanAll
<1>6. \A b : b \in AllBlocks(u) <=> \E n \in 1 .. k : b \in Blocks(rows[kept[n]])
  BY <1>2, <1>3, AllBlocksMeaning
<1>7. \A b : b \in AllBlocks(rows) <=> \E n \in 1 .. Len(rows) : b \in Blocks(rows[n])
  BY <1>1, AllBlocksMeaning
<1>8. \A b : b # 0 => (b \in gone <=> \E d \in lost : b \in Blocks(rows[d]))
  BY DEF Blocks, Lost
<1> HIDE DEF gone
<1>9. ASSUME NEW b \in AllBlocks(u) PROVE b \in AllBlocks(rows) /\ b \notin gone
  <2>1. PICK n \in 1 .. k : b \in Blocks(rows[kept[n]])
    BY <1>6, <1>9
  <2>2. \A d \in lost : b \notin Blocks(rows[d])
    BY <1>1, <1>2, <2>1 DEF CleanAll
  <2>3. b # 0
    BY <2>1 DEF Blocks
  <2> QED BY <1>2, <1>7, <1>8, <2>1, <2>2, <2>3
<1>10. ASSUME NEW b \in AllBlocks(rows), b \notin gone PROVE b \in AllBlocks(u)
  <2>1. PICK n \in 1 .. Len(rows) : b \in Blocks(rows[n])
    BY <1>7, <1>10
  <2>2. n \notin lost
    BY <1>8, <1>10, <2>1 DEF Blocks
  <2> QED BY <1>1, <1>6, <2>1, <2>2
<1> QED BY <1>5, <1>9, <1>10 DEF u, gone

-----------------------------------------------------------------------------
(* What a step does to the holdings.                                       *)

\* A holder takes blocks nobody had.
LEMMA Gains ==
    ASSUME NEW held, NEW heap, Apart(held, heap), NEW h \in Holder, NEW more,
           more \cap heap = {}, Heap(heap \cup more)
    PROVE  /\ Apart([held EXCEPT ![h] = @ \cup more], heap \cup more)
           /\ Complete(held, heap) => Complete([held EXCEPT ![h] = @ \cup more], heap \cup more)
BY DEF Apart, Complete

\* All that one holder has goes to another.
LEMMA Moves ==
    ASSUME NEW held, NEW heap, Apart(held, heap), NEW h \in Holder, NEW k \in Holder, h # k
    PROVE  /\ Apart([held EXCEPT ![h] = {}, ![k] = @ \cup held[h]], heap)
           /\ Complete(held, heap) => Complete([held EXCEPT ![h] = {}, ![k] = @ \cup held[h]], heap)
BY DEF Apart, Complete

\* A holder gives back some of what it has.
LEMMA GivesBack ==
    ASSUME NEW held, NEW heap, Apart(held, heap), NEW h \in Holder, NEW gone,
           gone \cap heap \subseteq held[h]
    PROVE  /\ Apart([held EXCEPT ![h] = @ \ gone], heap \ gone)
           /\ Complete(held, heap) => Complete([held EXCEPT ![h] = @ \ gone], heap \ gone)
<1>1. Heap(heap \ gone)
  <2>1. heap \ gone \in SUBSET heap
    OBVIOUS
  <2> QED BY <2>1, FS_Subset DEF Apart, Heap
<1>2. \A k \in Holder : k # h => held[k] \subseteq heap \ gone
  BY DEF Apart
<1>3. Apart([held EXCEPT ![h] = @ \ gone], heap \ gone)
  BY <1>1, <1>2 DEF Apart
<1>4. Complete(held, heap) => Complete([held EXCEPT ![h] = @ \ gone], heap \ gone)
  BY DEF Apart, Complete
<1> QED BY <1>3, <1>4

\* What each array holds, now and after a step; holdings are told by their parts.
LEMMA HoldingsAre ==
    /\ Holdings.event = Blocks(event) /\ Holdings.sites = Blocks(sites)
    /\ Holdings.resources = Blocks(resources) /\ Holdings.calls = Blocks(calls)
    /\ Holdings.allocs = Blocks(allocs) /\ Holdings.freed_allocs = Blocks(freed_allocs)
    /\ Holdings.findings = AllBlocks(findings)
    /\ DOMAIN Holdings = Holder /\ Holdings = [h \in Holder |-> Holdings[h]]
BY DEF Holdings, Holder

LEMMA HoldingsBecome ==
    ASSUME NEW held, DOMAIN held = Holder, held = [h \in Holder |-> held[h]],
           held.event = Blocks(event)', held.sites = Blocks(sites)',
           held.resources = Blocks(resources)', held.calls = Blocks(calls)',
           held.allocs = Blocks(allocs)', held.freed_allocs = Blocks(freed_allocs)',
           held.findings = AllBlocks(findings)'
    PROVE  held = Holdings'
<1>1. \A h \in Holder : held[h] = Holdings'[h]
  BY DEF Holdings, Holder
<1>2. Holdings' = [h \in Holder |-> Holdings'[h]]
  BY DEF Holdings
<1> QED BY <1>1, <1>2

\* A step that leaves nothing held twice and forgets nothing but a refused call.
Kept ==
    /\ Arrays'
    /\ Apart(Holdings', live')
    /\ Complete(Holdings, live) => refused' \/ Complete(Holdings', live')

LEMMA SameKeeps ==
    ASSUME TextsInv, UNCHANGED <<live, event, tables>>
    PROVE  Kept
<1>1. UNCHANGED <<live, event, sites, resources, calls, allocs, freed_allocs, findings>>
  BY DEF tables
<1>2. Holdings' = Holdings
  BY <1>1 DEF Holdings
<1> QED BY <1>1, <1>2 DEF TextsInv, Kept, Arrays

LEMMA ParseResourceKeeps ==
    ASSUME TextsAssumption, TextsInv, NEW k \in Kinds, ParseResource(k)
    PROVE  Kept
<1>1. TextsOf(k) \in Nat
  BY DEF TextsOf, TextsAssumption, Kind
<1>2. PICK copy \in Copied(live, TextsOf(k)) : \E in \in Interned(copy.heap) :
        /\ event' = copy.texts /\ sites' = sites \o in.texts /\ live' = in.heap
        /\ UNCHANGED <<resources, calls, allocs, freed_allocs, findings>>
  BY DEF ParseResource
<1>3. PICK in \in Interned(copy.heap) :
        /\ event' = copy.texts /\ sites' = sites \o in.texts /\ live' = in.heap
        /\ UNCHANGED <<resources, calls, allocs, freed_allocs, findings>>
  BY <1>2
<1>4. Heap(live) /\ Arrays /\ event = <<>> /\ Apart(Holdings, live)
  BY DEF TextsInv, Apart, ParseResource, Control
<1>5. /\ Clean(copy.texts) /\ Blocks(copy.texts) \cap live = {}
      /\ copy.heap = live \cup Blocks(copy.texts) /\ Heap(copy.heap)
  BY <1>1, <1>4, CopiesAreFresh
<1>6. /\ Clean(in.texts) /\ Blocks(in.texts) \cap copy.heap = {}
      /\ in.heap = copy.heap \cup Blocks(in.texts) /\ Heap(in.heap)
  BY <1>5, InternedAreFresh
<1> DEFINE one == [Holdings EXCEPT !["event"] = @ \cup Blocks(copy.texts)]
           two == [one EXCEPT !["sites"] = @ \cup Blocks(in.texts)]
<1>7. Apart(one, copy.heap) /\ (Complete(Holdings, live) => Complete(one, copy.heap))
  <2>1. "event" \in Holder
    BY DEF Holder
  <2>2. Heap(live \cup Blocks(copy.texts))
    BY <1>5
  <2>3. /\ Apart(one, live \cup Blocks(copy.texts))
        /\ Complete(Holdings, live) => Complete(one, live \cup Blocks(copy.texts))
    BY <1>4, <1>5, <2>1, <2>2, Gains
  <2> HIDE DEF one
  <2> QED BY <1>5, <2>3
<1> HIDE DEF one
<1>8. Apart(two, in.heap) /\ (Complete(one, copy.heap) => Complete(two, in.heap))
  BY <1>6, <1>7, Gains DEF Holder
<1>9. Blocks(sites) \cap Blocks(in.texts) = {}
  <2>1. Blocks(sites) \subseteq live
    BY <1>4, HoldingsAre DEF Apart, Holder
  <2> QED BY <1>5, <1>6, <2>1
<1>10. Clean(sites') /\ Blocks(sites)' = Blocks(sites) \cup Blocks(in.texts)
  BY <1>3, <1>4, <1>6, <1>9, CleanConcat DEF Arrays
<1>11. two = Holdings'
  <2>1. Blocks(event) = {} /\ Blocks(event)' = Blocks(copy.texts)
    BY <1>3, <1>4, CleanEmpty
  <2>2. DOMAIN two = Holder /\ two = [h \in Holder |-> two[h]]
    BY HoldingsAre DEF one
  <2>3. /\ two.event = Blocks(event) \cup Blocks(copy.texts)
        /\ two.sites = Blocks(sites) \cup Blocks(in.texts)
        /\ two.resources = Blocks(resources) /\ two.calls = Blocks(calls)
        /\ two.allocs = Blocks(allocs) /\ two.freed_allocs = Blocks(freed_allocs)
        /\ two.findings = AllBlocks(findings)
    BY HoldingsAre DEF one, Holder
  <2> HIDE DEF two
  <2>4. UNCHANGED <<resources, calls, allocs, freed_allocs, findings>>
    BY <1>3
  <2>5. /\ two.resources = Blocks(resources)' /\ two.calls = Blocks(calls)'
        /\ two.allocs = Blocks(allocs)' /\ two.freed_allocs = Blocks(freed_allocs)'
        /\ two.findings = AllBlocks(findings)'
    BY <2>3, <2>4
  <2> QED BY <1>10, <2>1, <2>2, <2>3, <2>5, HoldingsBecome
<1>12. Arrays'
  BY <1>3, <1>4, <1>5, <1>10 DEF Arrays
<1> QED BY <1>3, <1>7, <1>8, <1>11, <1>12 DEF Kept

\* An array that copies are added to.
LEMMA ArrayGrows ==
    ASSUME NEW held, NEW heap, Apart(held, heap), NEW h \in Holder, NEW s, held[h] = Blocks(s), Clean(s),
           NEW t, Clean(t), Blocks(t) \cap heap = {}
    PROVE  Clean(s \o t) /\ Blocks(s \o t) = Blocks(s) \cup Blocks(t)
<1>1. Blocks(s) \subseteq heap
  BY DEF Apart
<1> QED BY <1>1, CleanConcat

LEMMA StoreResourceKeeps ==
    ASSUME TextsInv, StoreResource
    PROVE  Kept
<1>1. CASE UNCHANGED <<resources, live>>
  BY <1>1, SameKeeps DEF StoreResource, tables
<1>2. CASE \E copy \in Copied(live, Len(event)) :
             /\ resources' = resources \o copy.texts /\ live' = copy.heap
             /\ UNCHANGED <<event, sites, calls, allocs, freed_allocs, findings>>
  <2>1. PICK copy \in Copied(live, Len(event)) :
             /\ resources' = resources \o copy.texts /\ live' = copy.heap
             /\ UNCHANGED <<event, sites, calls, allocs, freed_allocs, findings>>
    BY <1>2
  <2>2. Heap(live) /\ Arrays /\ Apart(Holdings, live)
    BY DEF TextsInv, Apart
  <2>3. Len(event) \in Nat
    BY <2>2, BlocksMeaning DEF Arrays, Clean
  <2>4. /\ Clean(copy.texts) /\ Blocks(copy.texts) \cap live = {}
        /\ copy.heap = live \cup Blocks(copy.texts) /\ Heap(live \cup Blocks(copy.texts))
    <3>1. /\ Clean(copy.texts) /\ Blocks(copy.texts) \cap live = {}
          /\ copy.heap = live \cup Blocks(copy.texts) /\ Heap(copy.heap)
      BY <2>2, <2>3, CopiesAreFresh
    <3> QED BY <3>1
  <2> DEFINE one == [Holdings EXCEPT !["resources"] = @ \cup Blocks(copy.texts)]
  <2>5. "resources" \in Holder
    BY DEF Holder
  <2>6. /\ Apart(one, live \cup Blocks(copy.texts))
        /\ Complete(Holdings, live) => Complete(one, live \cup Blocks(copy.texts))
    BY <2>2, <2>4, <2>5, Gains
  <2>7. Holdings["resources"] = Blocks(resources)
    BY HoldingsAre
  <2>8. Clean(resources') /\ Blocks(resources)' = Blocks(resources) \cup Blocks(copy.texts)
    BY <2>1, <2>2, <2>4, <2>5, <2>7, ArrayGrows DEF Arrays
  <2>9. /\ DOMAIN one = Holder /\ one = [h \in Holder |-> one[h]]
        /\ one.resources = Blocks(resources) \cup Blocks(copy.texts)
        /\ one.event = Blocks(event) /\ one.sites = Blocks(sites) /\ one.calls = Blocks(calls)
        /\ one.allocs = Blocks(allocs) /\ one.freed_allocs = Blocks(freed_allocs)
        /\ one.findings = AllBlocks(findings)
    BY HoldingsAre DEF Holder
  <2> HIDE DEF one
  <2>10. /\ one.event = Blocks(event)' /\ one.sites = Blocks(sites)' /\ one.calls = Blocks(calls)'
         /\ one.allocs = Blocks(allocs)' /\ one.freed_allocs = Blocks(freed_allocs)'
         /\ one.findings = AllBlocks(findings)'
    BY <2>1, <2>9
  <2>11. one = Holdings'
    BY <2>8, <2>9, <2>10, HoldingsBecome
  <2>12. Arrays'
    BY <2>1, <2>2, <2>8 DEF Arrays
  <2>13. live' = live \cup Blocks(copy.texts)
    BY <2>1, <2>4
  <2> QED BY <2>6, <2>11, <2>12, <2>13 DEF Kept
<1> QED BY <1>1, <1>2 DEF StoreResource

LEMMA ReleaseKeeps ==
    ASSUME TextsInv, NEW from, NEW to, Release(from, to)
    PROVE  Kept
<1>1. /\ live' = live \ ToSet(event) /\ event' = <<>>
      /\ UNCHANGED <<sites, resources, calls, allocs, freed_allocs, findings>>
  BY DEF Release, tables
<1>2. Heap(live) /\ Arrays /\ Apart(Holdings, live) /\ "event" \in Holder
  BY DEF TextsInv, Apart, Holder
<1> DEFINE gone == ToSet(event)
           one == [Holdings EXCEPT !["event"] = @ \ gone]
<1>3. gone \cap live \subseteq Holdings["event"]
  BY <1>2, HoldingsAre DEF Heap, Blocks
<1>4. /\ Apart(one, live \ gone)
      /\ Complete(Holdings, live) => Complete(one, live \ gone)
  BY <1>2, <1>3, GivesBack
<1>5. Blocks(event) \ gone = {} /\ Blocks(event)' = {} /\ Clean(event')
  BY <1>1, CleanEmpty DEF Blocks
<1>6. /\ DOMAIN one = Holder /\ one = [h \in Holder |-> one[h]]
      /\ one.event = Blocks(event) \ gone
      /\ one.resources = Blocks(resources) /\ one.sites = Blocks(sites) /\ one.calls = Blocks(calls)
      /\ one.allocs = Blocks(allocs) /\ one.freed_allocs = Blocks(freed_allocs)
      /\ one.findings = AllBlocks(findings)
  BY HoldingsAre DEF Holder
<1> HIDE DEF one
<1>7. /\ one.resources = Blocks(resources)' /\ one.sites = Blocks(sites)' /\ one.calls = Blocks(calls)'
      /\ one.allocs = Blocks(allocs)' /\ one.freed_allocs = Blocks(freed_allocs)'
      /\ one.findings = AllBlocks(findings)'
  BY <1>1, <1>6
<1>8. one = Holdings'
  BY <1>5, <1>6, <1>7, HoldingsBecome
<1>9. Arrays'
  BY <1>1, <1>2, <1>5 DEF Arrays
<1> QED BY <1>1, <1>4, <1>8, <1>9 DEF Kept

LEMMA ParseCallKeeps ==
    ASSUME TextsInv, ParseCall
    PROVE  Kept
<1>1. PICK copy \in Copied(live, 5) :
        /\ event' = copy.texts /\ live' = copy.heap
        /\ UNCHANGED <<sites, resources, calls, allocs, freed_allocs, findings>>
  BY DEF ParseCall, tables
<1>2. Heap(live) /\ Arrays /\ Apart(Holdings, live) /\ event = <<>> /\ "event" \in Holder
  BY DEF TextsInv, Apart, Holder, ParseCall, Control
<1>3. /\ Clean(copy.texts) /\ Blocks(copy.texts) \cap live = {}
      /\ copy.heap = live \cup Blocks(copy.texts) /\ Heap(copy.heap)
  BY <1>2, CopiesAreFresh
<1>4. Heap(live \cup Blocks(copy.texts)) /\ live' = live \cup Blocks(copy.texts)
  BY <1>1, <1>3
<1> DEFINE one == [Holdings EXCEPT !["event"] = @ \cup Blocks(copy.texts)]
<1>5. /\ Apart(one, live \cup Blocks(copy.texts))
      /\ Complete(Holdings, live) => Complete(one, live \cup Blocks(copy.texts))
  BY <1>2, <1>3, <1>4, Gains
<1>6. Blocks(event) = {} /\ Blocks(event)' = Blocks(copy.texts)
  BY <1>1, <1>2, CleanEmpty
<1>7. /\ DOMAIN one = Holder /\ one = [h \in Holder |-> one[h]]
      /\ one.event = Blocks(event) \cup Blocks(copy.texts)
      /\ one.resources = Blocks(resources) /\ one.sites = Blocks(sites) /\ one.calls = Blocks(calls)
      /\ one.allocs = Blocks(allocs) /\ one.freed_allocs = Blocks(freed_allocs)
      /\ one.findings = AllBlocks(findings)
  BY HoldingsAre DEF Holder
<1> HIDE DEF one
<1>8. /\ one.resources = Blocks(resources)' /\ one.sites = Blocks(sites)' /\ one.calls = Blocks(calls)'
      /\ one.allocs = Blocks(allocs)' /\ one.freed_allocs = Blocks(freed_allocs)'
      /\ one.findings = AllBlocks(findings)'
  BY <1>1, <1>7
<1>9. one = Holdings'
  BY <1>6, <1>7, <1>8, HoldingsBecome
<1>10. Arrays'
  BY <1>1, <1>2, <1>3 DEF Arrays
<1> QED BY <1>4, <1>5, <1>9, <1>10 DEF Kept

\* A call that is stored takes the event's texts with it; one that is refused
\* leaves them to nobody.
LEMMA AddCallKeeps ==
    ASSUME TextsInv, AddCall
    PROVE  Kept
<1>1. PICK grown \in BOOLEAN :
        /\ calls' = IF grown THEN calls \o event ELSE calls
        /\ event' = <<>> /\ refused' = ~grown
        /\ UNCHANGED <<live, sites, resources, allocs, freed_allocs, findings>>
  BY DEF AddCall, Zeroed
<1>2. Arrays /\ Apart(Holdings, live) /\ "event" \in Holder /\ "calls" \in Holder
  BY DEF TextsInv, Holder
<1>3. Blocks(event)' = {} /\ Clean(event')
  BY <1>1, CleanEmpty
<1>4. CASE grown
  <2> DEFINE one == [Holdings EXCEPT !["event"] = {}, !["calls"] = @ \cup Holdings["event"]]
  <2>1. Apart(one, live) /\ (Complete(Holdings, live) => Complete(one, live))
    BY <1>2, Moves
  <2>2. Blocks(calls) \cap Blocks(event) = {}
    BY <1>2, HoldingsAre DEF Apart
  <2>3. Clean(calls') /\ Blocks(calls)' = Blocks(calls) \cup Blocks(event)
    BY <1>1, <1>2, <1>4, <2>2, CleanConcat DEF Arrays
  <2>4. /\ DOMAIN one = Holder /\ one = [h \in Holder |-> one[h]]
        /\ one.event = {} /\ one.calls = Blocks(calls) \cup Blocks(event)
        /\ one.resources = Blocks(resources) /\ one.sites = Blocks(sites)
        /\ one.allocs = Blocks(allocs) /\ one.freed_allocs = Blocks(freed_allocs)
        /\ one.findings = AllBlocks(findings)
    BY HoldingsAre DEF Holder
  <2> HIDE DEF one
  <2>5. /\ one.resources = Blocks(resources)' /\ one.sites = Blocks(sites)'
        /\ one.allocs = Blocks(allocs)' /\ one.freed_allocs = Blocks(freed_allocs)'
        /\ one.findings = AllBlocks(findings)'
    BY <1>1, <2>4
  <2>6. one = Holdings'
    BY <1>3, <2>3, <2>4, <2>5, HoldingsBecome
  <2>7. Arrays'
    BY <1>1, <1>2, <1>3, <2>3 DEF Arrays
  <2>8. live' = live
    BY <1>1
  <2> QED BY <2>1, <2>6, <2>7, <2>8 DEF Kept
<1>5. CASE ~grown
  <2> DEFINE one == [Holdings EXCEPT !["event"] = {}]
  <2>1. Apart(one, live)
    BY <1>2 DEF Apart
  <2>2. calls' = calls
    BY <1>1, <1>5
  <2>3. /\ DOMAIN one = Holder /\ one = [h \in Holder |-> one[h]]
        /\ one.event = {} /\ one.calls = Blocks(calls)
        /\ one.resources = Blocks(resources) /\ one.sites = Blocks(sites)
        /\ one.allocs = Blocks(allocs) /\ one.freed_allocs = Blocks(freed_allocs)
        /\ one.findings = AllBlocks(findings)
    BY HoldingsAre DEF Holder
  <2> HIDE DEF one
  <2>4. /\ one.resources = Blocks(resources)' /\ one.sites = Blocks(sites)' /\ one.calls = Blocks(calls)'
        /\ one.allocs = Blocks(allocs)' /\ one.freed_allocs = Blocks(freed_allocs)'
        /\ one.findings = AllBlocks(findings)'
    BY <1>1, <2>2, <2>3
  <2>5. one = Holdings'
    BY <1>3, <2>3, <2>4, HoldingsBecome
  <2>6. Arrays'
    BY <1>1, <1>2, <1>3, <2>2 DEF Arrays
  <2>7. live' = live /\ refused'
    BY <1>1, <1>5
  <2> QED BY <2>1, <2>5, <2>6, <2>7 DEF Kept
<1> QED BY <1>4, <1>5

-----------------------------------------------------------------------------
(* The tables and the findings.                                            *)

\* The text of a dropped entry is freed with it.
Gone(i) == IF i = 0 THEN {} ELSE {allocs[i]}

LEMMA DropGivesBack ==
    ASSUME Clean(allocs), NEW heap, Heap(heap), NEW i \in 0 .. Len(allocs)
    PROVE  /\ Gone(i) \cap heap \subseteq Blocks(allocs)
           /\ Drop(heap, i).heap = heap \ Gone(i)
           /\ Clean(Drop(heap, i).allocs)
           /\ Blocks(Drop(heap, i).allocs) = Blocks(allocs) \ Gone(i)
<1>1. CASE i = 0
  BY <1>1 DEF Drop, Gone
<1>2. CASE i # 0
  <2>1. allocs \in Seq(Nat) /\ i \in 1 .. Len(allocs)
    BY <1>2 DEF Clean
  <2>2. /\ Drop(heap, i).heap = heap \ {allocs[i]} /\ Drop(heap, i).allocs = Without(allocs, i)
        /\ Gone(i) = {allocs[i]}
    BY <1>2 DEF Drop, Gone
  <2>3. {allocs[i]} \cap heap \subseteq Blocks(allocs)
    BY <2>1, BlocksMeaning DEF Heap
  <2> QED BY <2>1, <2>2, <2>3, CleanWithout
<1> QED BY <1>1, <1>2

LEMMA TableOfBlocksKeeps ==
    ASSUME TextsInv, TableOfBlocks, UNCHANGED <<event, sites, resources, calls, findings>>
    PROVE  Kept
<1>1. PICK i \in 0 .. Len(allocs) :
        \/ \E n \in {0, 1} : \E copy \in Copied(live, n) :
             /\ freed_allocs' = freed_allocs \o copy.texts
             /\ live' = Drop(copy.heap, i).heap
             /\ allocs' = Drop(live, i).allocs
        \/ \E n \in {0, 1} : \E copy \in Copied(Drop(live, i).heap, n) :
             /\ allocs' = Drop(live, i).allocs \o copy.texts
             /\ live' = copy.heap
             /\ UNCHANGED freed_allocs
  <2>1. allocs \in Seq(Nat)
    BY DEF TextsInv, Arrays, Clean
  <2>2. 0 \in 0 .. Len(allocs)
    BY <2>1
  <2> QED BY <2>2 DEF TableOfBlocks
<1>2. /\ Heap(live) /\ Arrays /\ Apart(Holdings, live)
      /\ "allocs" \in Holder /\ "freed_allocs" \in Holder
  BY DEF TextsInv, Apart, Holder
<1>3. CASE \E n \in {0, 1} : \E copy \in Copied(live, n) :
             /\ freed_allocs' = freed_allocs \o copy.texts
             /\ live' = Drop(copy.heap, i).heap
             /\ allocs' = Drop(live, i).allocs
  <2>0. PICK n \in {0, 1} : \E copy \in Copied(live, n) :
             /\ freed_allocs' = freed_allocs \o copy.texts
             /\ live' = Drop(copy.heap, i).heap
             /\ allocs' = Drop(live, i).allocs
    BY <1>3
  <2>1. PICK copy \in Copied(live, n) :
             /\ freed_allocs' = freed_allocs \o copy.texts
             /\ live' = Drop(copy.heap, i).heap
             /\ allocs' = Drop(copy.heap, i).allocs
    BY <2>0 DEF Drop
  <2>2. n \in Nat
    OBVIOUS
  <2>3. /\ Clean(copy.texts) /\ Blocks(copy.texts) \cap live = {}
        /\ copy.heap = live \cup Blocks(copy.texts) /\ Heap(copy.heap)
    BY <1>2, <2>2, CopiesAreFresh
  <2> DEFINE grown == live \cup Blocks(copy.texts)
             one == [Holdings EXCEPT !["freed_allocs"] = @ \cup Blocks(copy.texts)]
  <2>4. Heap(grown) /\ copy.heap = grown
    BY <2>3
  <2>5. Apart(one, grown) /\ (Complete(Holdings, live) => Complete(one, grown))
    BY <1>2, <2>3, <2>4, Gains
  <2> HIDE DEF grown
  <2> DEFINE gone == Gone(i)
  <2>6. /\ gone \cap grown \subseteq Blocks(allocs)
        /\ live' = grown \ gone
        /\ Clean(allocs')
        /\ Blocks(allocs)' = Blocks(allocs) \ gone
    <3>1. Clean(allocs)
      BY <1>2 DEF Arrays
    <3>2. /\ gone \cap grown \subseteq Blocks(allocs)
          /\ Drop(grown, i).heap = grown \ gone
          /\ Clean(Drop(grown, i).allocs)
          /\ Blocks(Drop(grown, i).allocs) = Blocks(allocs) \ gone
      BY <2>4, <3>1, DropGivesBack
    <3>3. live' = Drop(grown, i).heap /\ allocs' = Drop(grown, i).allocs
      BY <2>1, <2>4
    <3> QED BY <3>2, <3>3
  <2> HIDE DEF gone
  <2>7. Clean(freed_allocs') /\ Blocks(freed_allocs)' = Blocks(freed_allocs) \cup Blocks(copy.texts)
    <3>1. Holdings["freed_allocs"] = Blocks(freed_allocs)
      BY HoldingsAre
    <3> QED BY <1>2, <2>1, <2>3, <3>1, ArrayGrows DEF Arrays
  <2>8. /\ DOMAIN one = Holder
        /\ one.freed_allocs = Blocks(freed_allocs) \cup Blocks(copy.texts)
        /\ one.event = Blocks(event) /\ one.sites = Blocks(sites) /\ one.resources = Blocks(resources)
        /\ one.calls = Blocks(calls) /\ one.allocs = Blocks(allocs)
        /\ one.findings = AllBlocks(findings)
    BY HoldingsAre DEF Holder
  <2> HIDE DEF one
  <2> DEFINE two == [one EXCEPT !["allocs"] = @ \ gone]
  <2>9. Apart(two, grown \ gone) /\ (Complete(one, grown) => Complete(two, grown \ gone))
    BY <1>2, <2>5, <2>6, <2>8, GivesBack, ZenonT(30)
  <2>10. /\ DOMAIN two = Holder /\ two = [h \in Holder |-> two[h]]
         /\ two.freed_allocs = Blocks(freed_allocs) \cup Blocks(copy.texts)
         /\ two.allocs = Blocks(allocs) \ gone
         /\ two.event = Blocks(event) /\ two.sites = Blocks(sites) /\ two.resources = Blocks(resources)
         /\ two.calls = Blocks(calls) /\ two.findings = AllBlocks(findings)
    BY <2>8 DEF Holder
  <2> HIDE DEF two
  <2>11. /\ two.event = Blocks(event)' /\ two.sites = Blocks(sites)'
         /\ two.resources = Blocks(resources)' /\ two.calls = Blocks(calls)'
         /\ two.findings = AllBlocks(findings)'
    BY <2>10
  <2>12. two = Holdings'
    BY <2>6, <2>7, <2>10, <2>11, HoldingsBecome
  <2>13. Arrays'
    BY <1>2, <2>6, <2>7 DEF Arrays
  <2> QED BY <2>5, <2>6, <2>9, <2>12, <2>13 DEF Kept
<1>4. CASE \E n \in {0, 1} : \E copy \in Copied(Drop(live, i).heap, n) :
             /\ allocs' = Drop(live, i).allocs \o copy.texts
             /\ live' = copy.heap
             /\ UNCHANGED freed_allocs
  <2>0. PICK n \in {0, 1} : \E copy \in Copied(Drop(live, i).heap, n) :
             /\ allocs' = Drop(live, i).allocs \o copy.texts
             /\ live' = copy.heap
             /\ UNCHANGED freed_allocs
    BY <1>4
  <2>1. PICK copy \in Copied(Drop(live, i).heap, n) :
             /\ allocs' = Drop(live, i).allocs \o copy.texts
             /\ live' = copy.heap
             /\ UNCHANGED freed_allocs
    BY <2>0
  <2> DEFINE gone == Gone(i)
  <2>2. /\ gone \cap live \subseteq Blocks(allocs)
        /\ Drop(live, i).heap = live \ gone
        /\ Clean(Drop(live, i).allocs)
        /\ Blocks(Drop(live, i).allocs) = Blocks(allocs) \ gone
    <3>1. Clean(allocs)
      BY <1>2 DEF Arrays
    <3> QED BY <1>2, <3>1, DropGivesBack
  <2> HIDE DEF gone
  <2> DEFINE one == [Holdings EXCEPT !["allocs"] = @ \ gone]
             less == live \ gone
  <2>3. Apart(one, less) /\ (Complete(Holdings, live) => Complete(one, less))
    <3>1. gone \cap live \subseteq Holdings["allocs"]
      BY <2>2, HoldingsAre
    <3> QED BY <1>2, <3>1, GivesBack
  <2>4. less = Drop(live, i).heap
    BY <2>2
  <2>5. /\ DOMAIN one = Holder
        /\ one.allocs = Blocks(allocs) \ gone
        /\ one.event = Blocks(event) /\ one.sites = Blocks(sites) /\ one.resources = Blocks(resources)
        /\ one.calls = Blocks(calls) /\ one.freed_allocs = Blocks(freed_allocs)
        /\ one.findings = AllBlocks(findings)
    BY HoldingsAre DEF Holder
  <2> HIDE DEF one, less
  <2>6. n \in Nat /\ Heap(less)
    BY <2>3 DEF Apart
  <2>7. /\ Clean(copy.texts) /\ Blocks(copy.texts) \cap less = {}
        /\ copy.heap = less \cup Blocks(copy.texts) /\ Heap(copy.heap)
    BY <2>4, <2>6, CopiesAreFresh
  <2> DEFINE grown == less \cup Blocks(copy.texts)
             two == [one EXCEPT !["allocs"] = @ \cup Blocks(copy.texts)]
  <2>8. Heap(grown) /\ live' = grown
    BY <2>1, <2>7
  <2>9. Apart(two, grown) /\ (Complete(one, less) => Complete(two, grown))
    BY <1>2, <2>3, <2>7, <2>8, Gains
  <2>10. Clean(allocs') /\ Blocks(allocs)' = (Blocks(allocs) \ gone) \cup Blocks(copy.texts)
    <3> DEFINE left == Drop(live, i).allocs
    <3>1. one["allocs"] = Blocks(left) /\ Clean(left) /\ Blocks(left) = Blocks(allocs) \ gone
      BY <2>2, <2>5
    <3>2. allocs' = left \o copy.texts
      BY <2>1
    <3> HIDE DEF left
    <3>3. Clean(left \o copy.texts) /\ Blocks(left \o copy.texts) = Blocks(left) \cup Blocks(copy.texts)
      <4>1. Blocks(left) \subseteq less
        BY <1>2, <2>3, <3>1 DEF Apart
      <4> QED BY <2>7, <3>1, <4>1, CleanConcat
    <3> QED BY <3>1, <3>2, <3>3
  <2>11. /\ DOMAIN two = Holder /\ two = [h \in Holder |-> two[h]]
         /\ two.allocs = (Blocks(allocs) \ gone) \cup Blocks(copy.texts)
         /\ two.freed_allocs = Blocks(freed_allocs)
         /\ two.event = Blocks(event) /\ two.sites = Blocks(sites) /\ two.resources = Blocks(resources)
         /\ two.calls = Blocks(calls) /\ two.findings = AllBlocks(findings)
    BY <2>5 DEF Holder
  <2> HIDE DEF two, grown
  <2>12. /\ two.event = Blocks(event)' /\ two.sites = Blocks(sites)'
         /\ two.resources = Blocks(resources)' /\ two.calls = Blocks(calls)'
         /\ two.freed_allocs = Blocks(freed_allocs)'
         /\ two.findings = AllBlocks(findings)'
    BY <2>1, <2>11
  <2>13. two = Holdings'
    BY <2>10, <2>11, <2>12, HoldingsBecome
  <2>14. Arrays'
    BY <1>2, <2>1, <2>10 DEF Arrays
  <2> QED BY <2>3, <2>8, <2>9, <2>13, <2>14 DEF Kept
<1> QED BY <1>1, <1>3, <1>4

\* A finding that is stored owns what was copied for it; a failed one leaves nothing.
LEMMA AddFindingKeeps ==
    ASSUME NEW held, NEW heap, Apart(held, heap), DOMAIN held = Holder,
           CleanAll(findings), held["findings"] = AllBlocks(findings),
           NEW n \in Nat, NEW failed, AddFinding(heap, n, failed)
    PROVE  \E more :
             /\ Apart([held EXCEPT !["findings"] = @ \cup more], live')
             /\ Complete(held, heap) => Complete([held EXCEPT !["findings"] = @ \cup more], live')
             /\ CleanAll(findings')
             /\ AllBlocks(findings)' = AllBlocks(findings) \cup more
<1>0. "findings" \in Holder /\ Heap(heap)
  BY DEF Holder, Apart
<1>1. PICK copy \in Copied(heap, n) :
        \/ findings' = Append(findings, copy.texts) /\ live' = copy.heap
        \/ live' = heap /\ UNCHANGED findings
  BY DEF AddFinding
<1>2. CASE findings' = Append(findings, copy.texts) /\ live' = copy.heap
  <2>1. /\ Clean(copy.texts) /\ Blocks(copy.texts) \cap heap = {}
        /\ copy.heap = heap \cup Blocks(copy.texts) /\ Heap(copy.heap)
    BY <1>0, CopiesAreFresh
  <2> DEFINE more == Blocks(copy.texts)
  <2>2. live' = heap \cup more /\ Heap(heap \cup more)
    BY <1>2, <2>1
  <2>3. /\ Apart([held EXCEPT !["findings"] = @ \cup more], heap \cup more)
        /\ Complete(held, heap) => Complete([held EXCEPT !["findings"] = @ \cup more], heap \cup more)
    BY <1>0, <2>1, <2>2, Gains
  <2>4. more \cap AllBlocks(findings) = {}
    BY <1>0, <2>1 DEF Apart
  <2>5. CleanAll(findings') /\ AllBlocks(findings)' = AllBlocks(findings) \cup more
    BY <1>2, <2>1, <2>4, CleanAllAppend
  <2> QED BY <2>2, <2>3, <2>5
<1>3. CASE live' = heap /\ UNCHANGED findings
  <2>1. [held EXCEPT !["findings"] = @ \cup {}] = held
    BY DEF Apart
  <2>2. AllBlocks(findings)' = AllBlocks(findings) \cup {}
    BY <1>3
  <2> QED BY <1>3, <2>1, <2>2
<1> QED BY <1>1, <1>2, <1>3

LEMMA FindingKeeps ==
    ASSUME TextsInv, NEW failed, AddFinding(live, 1, failed),
           UNCHANGED <<event, sites, resources, calls, allocs, freed_allocs>>
    PROVE  Kept
<1>1. /\ Arrays /\ Apart(Holdings, live) /\ DOMAIN Holdings = Holder /\ CleanAll(findings)
      /\ Holdings["findings"] = AllBlocks(findings)
  BY HoldingsAre DEF TextsInv, Arrays
<1>2. PICK more :
        /\ Apart([Holdings EXCEPT !["findings"] = @ \cup more], live')
        /\ Complete(Holdings, live) => Complete([Holdings EXCEPT !["findings"] = @ \cup more], live')
        /\ CleanAll(findings')
        /\ AllBlocks(findings)' = AllBlocks(findings) \cup more
  BY <1>1, AddFindingKeeps
<1> DEFINE one == [Holdings EXCEPT !["findings"] = @ \cup more]
<1>3. /\ DOMAIN one = Holder /\ one = [h \in Holder |-> one[h]]
      /\ one.event = Blocks(event)
      /\ one.resources = Blocks(resources) /\ one.sites = Blocks(sites) /\ one.calls = Blocks(calls)
      /\ one.allocs = Blocks(allocs) /\ one.freed_allocs = Blocks(freed_allocs)
      /\ one.findings = AllBlocks(findings) \cup more
  BY HoldingsAre DEF Holder
<1> HIDE DEF one
<1>4. /\ one.event = Blocks(event)'
      /\ one.resources = Blocks(resources)' /\ one.sites = Blocks(sites)' /\ one.calls = Blocks(calls)'
      /\ one.allocs = Blocks(allocs)' /\ one.freed_allocs = Blocks(freed_allocs)'
  BY <1>3
<1>5. one = Holdings'
  BY <1>2, <1>3, <1>4, HoldingsBecome
<1>6. Arrays'
  BY <1>1, <1>2 DEF Arrays
<1>7. Apart(one, live') /\ (Complete(Holdings, live) => Complete(one, live'))
  BY <1>2 DEF one
<1> QED BY <1>5, <1>6, <1>7 DEF Kept

LEMMA RollbackKeeps ==
    ASSUME TextsInv, NEW k \in Nat, NEW kept \in [1 .. k -> DOMAIN findings],
           \A m, n \in 1 .. k : m < n => kept[m] < kept[n],
           findings' = [n \in 1 .. k |-> findings[kept[n]]],
           live' = live \ UNION {ToSet(findings[n]) :
                                   n \in {d \in DOMAIN findings : \A m \in 1 .. k : d # kept[m]}},
           UNCHANGED <<event, sites, resources, calls, allocs, freed_allocs>>
    PROVE  Kept
<1> DEFINE gone == Lost(findings, k, kept)
           one == [Holdings EXCEPT !["findings"] = @ \ gone]
<1>1. /\ Heap(live) /\ Arrays /\ Apart(Holdings, live) /\ CleanAll(findings)
      /\ "findings" \in Holder /\ Holdings["findings"] = AllBlocks(findings)
  BY HoldingsAre DEF TextsInv, Apart, Arrays, Holder
<1>2. CleanAll(findings') /\ AllBlocks(findings)' = AllBlocks(findings) \ gone
  BY <1>1, CleanAllKept
<1>3. gone \cap live \subseteq AllBlocks(findings)
  BY <1>1 DEF AllBlocks, Blocks, Heap, Lost
<1>4. live' = live \ gone
  BY DEF Lost
<1> HIDE DEF gone
<1>5. Apart(one, live \ gone) /\ (Complete(Holdings, live) => Complete(one, live \ gone))
  BY <1>1, <1>3, GivesBack
<1>6. /\ DOMAIN one = Holder /\ one = [h \in Holder |-> one[h]]
      /\ one.event = Blocks(event)
      /\ one.resources = Blocks(resources) /\ one.sites = Blocks(sites) /\ one.calls = Blocks(calls)
      /\ one.allocs = Blocks(allocs) /\ one.freed_allocs = Blocks(freed_allocs)
      /\ one.findings = AllBlocks(findings) \ gone
  BY HoldingsAre DEF Holder
<1> HIDE DEF one
<1>7. /\ one.event = Blocks(event)'
      /\ one.resources = Blocks(resources)' /\ one.sites = Blocks(sites)' /\ one.calls = Blocks(calls)'
      /\ one.allocs = Blocks(allocs)' /\ one.freed_allocs = Blocks(freed_allocs)'
  BY <1>6
<1>8. one = Holdings'
  BY <1>2, <1>6, <1>7, HoldingsBecome
<1>9. Arrays'
  BY <1>1, <1>2 DEF Arrays
<1> QED BY <1>4, <1>5, <1>8, <1>9 DEF Kept

LEMMA TablesKeeps ==
    ASSUME TextsInv, Tables
    PROVE  Kept
<1>1. UNCHANGED <<event, sites, resources, calls>>
  BY DEF Tables
<1>2. CASE kind \in {"ALLOC", "FREE", "REALLOC"} /\ TableOfBlocks /\ UNCHANGED findings
  BY <1>1, <1>2, TableOfBlocksKeeps
<1>3. CASE /\ kind = "EXEC" /\ \E handed \in BOOLEAN : AddFinding(live, 1, ~handed)
           /\ UNCHANGED <<allocs, freed_allocs>>
  <2>1. PICK handed \in BOOLEAN : AddFinding(live, 1, ~handed)
    BY <1>3
  <2> QED BY <1>1, <1>3, <2>1, FindingKeeps
<1>4. CASE \E k \in 0 .. Len(findings) : \E kept \in [1 .. k -> DOMAIN findings] :
             /\ \A m, n \in 1 .. k : m < n => kept[m] < kept[n]
             /\ findings' = [n \in 1 .. k |-> findings[kept[n]]]
             /\ live' = live \ UNION {ToSet(findings[n]) :
                                        n \in {d \in DOMAIN findings : \A m \in 1 .. k : d # kept[m]}}
             /\ UNCHANGED <<allocs, freed_allocs>>
  <2>1. PICK k \in 0 .. Len(findings) : \E kept \in [1 .. k -> DOMAIN findings] :
             /\ \A m, n \in 1 .. k : m < n => kept[m] < kept[n]
             /\ findings' = [n \in 1 .. k |-> findings[kept[n]]]
             /\ live' = live \ UNION {ToSet(findings[n]) :
                                        n \in {d \in DOMAIN findings : \A m \in 1 .. k : d # kept[m]}}
             /\ UNCHANGED <<allocs, freed_allocs>>
    BY <1>4
  <2>2. PICK kept \in [1 .. k -> DOMAIN findings] :
             /\ \A m, n \in 1 .. k : m < n => kept[m] < kept[n]
             /\ findings' = [n \in 1 .. k |-> findings[kept[n]]]
             /\ live' = live \ UNION {ToSet(findings[n]) :
                                        n \in {d \in DOMAIN findings : \A m \in 1 .. k : d # kept[m]}}
             /\ UNCHANGED <<allocs, freed_allocs>>
    BY <2>1
  <2>3. k \in Nat
    OBVIOUS
  <2> QED BY <1>1, <2>2, <2>3, RollbackKeeps
<1>5. CASE UNCHANGED <<allocs, freed_allocs, findings, live>>
  BY <1>1, <1>5, SameKeeps DEF tables
<1> QED BY <1>2, <1>3, <1>4, <1>5 DEF Tables

LEMMA FinalizeOneKeeps ==
    ASSUME TextsInv, FinalizeOne
    PROVE  Kept
<1>1. PICK n \in 2 .. 3, one \in Interned(live) : \E two \in Interned(one.heap) :
        /\ sites' = sites \o one.texts \o two.texts
        /\ AddFinding(two.heap, n, ~(one.ok /\ two.ok))
        /\ UNCHANGED <<event, resources, calls, allocs, freed_allocs>>
  BY DEF FinalizeOne
<1>2. PICK two \in Interned(one.heap) :
        /\ sites' = sites \o one.texts \o two.texts
        /\ AddFinding(two.heap, n, ~(one.ok /\ two.ok))
        /\ UNCHANGED <<event, resources, calls, allocs, freed_allocs>>
  BY <1>1
<1>3. Heap(live) /\ Arrays /\ Apart(Holdings, live) /\ "sites" \in Holder /\ "findings" \in Holder
  BY DEF TextsInv, Apart, Holder
<1>4. /\ Clean(one.texts) /\ Blocks(one.texts) \cap live = {}
      /\ one.heap = live \cup Blocks(one.texts) /\ Heap(one.heap)
  BY <1>3, InternedAreFresh
<1>5. /\ Clean(two.texts) /\ Blocks(two.texts) \cap one.heap = {}
      /\ two.heap = one.heap \cup Blocks(two.texts) /\ Heap(two.heap)
  BY <1>4, InternedAreFresh
<1> DEFINE more == Blocks(one.texts) \cup Blocks(two.texts)
           held == [Holdings EXCEPT !["sites"] = @ \cup more]
<1>6. more \cap live = {} /\ two.heap = live \cup more
  BY <1>4, <1>5
<1>7. Clean(sites') /\ Blocks(sites)' = Blocks(sites) \cup more
  <2>1. Blocks(sites) \subseteq live
    BY <1>3, HoldingsAre DEF Apart
  <2>2. Clean(sites \o one.texts) /\ Blocks(sites \o one.texts) = Blocks(sites) \cup Blocks(one.texts)
    BY <1>3, <1>4, <2>1, CleanConcat DEF Arrays
  <2> DEFINE first == sites \o one.texts
  <2>3. Clean(first) /\ Blocks(first) \cap Blocks(two.texts) = {}
    BY <1>4, <1>5, <2>1, <2>2
  <2>4. sites' = first \o two.texts
    BY <1>2
  <2>5. Blocks(first) = Blocks(sites) \cup Blocks(one.texts)
    BY <2>2
  <2> HIDE DEF first
  <2>6. Clean(first \o two.texts) /\ Blocks(first \o two.texts) = Blocks(first) \cup Blocks(two.texts)
    BY <1>5, <2>3, CleanConcat
  <2> QED BY <2>4, <2>5, <2>6
<1> HIDE DEF more
<1>8. Heap(live \cup more)
  BY <1>5, <1>6
<1>9. Apart(held, live \cup more) /\ (Complete(Holdings, live) => Complete(held, live \cup more))
  BY <1>3, <1>6, <1>8, Gains
<1>10. /\ DOMAIN held = Holder
       /\ held.sites = Blocks(sites) \cup more
       /\ held.event = Blocks(event) /\ held.resources = Blocks(resources) /\ held.calls = Blocks(calls)
       /\ held.allocs = Blocks(allocs) /\ held.freed_allocs = Blocks(freed_allocs)
       /\ held.findings = AllBlocks(findings)
  BY HoldingsAre DEF Holder
<1> HIDE DEF held
<1>11. PICK found :
         /\ Apart([held EXCEPT !["findings"] = @ \cup found], live')
         /\ Complete(held, live \cup more) => Complete([held EXCEPT !["findings"] = @ \cup found], live')
         /\ CleanAll(findings')
         /\ AllBlocks(findings)' = AllBlocks(findings) \cup found
  <2>1. n \in Nat /\ CleanAll(findings) /\ AddFinding(live \cup more, n, ~(one.ok /\ two.ok))
    BY <1>2, <1>3, <1>6 DEF Arrays
  <2> QED BY <1>9, <1>10, <2>1, AddFindingKeeps
<1> DEFINE last == [held EXCEPT !["findings"] = @ \cup found]
<1>12. /\ DOMAIN last = Holder /\ last = [h \in Holder |-> last[h]]
       /\ last.sites = Blocks(sites) \cup more
       /\ last.event = Blocks(event) /\ last.resources = Blocks(resources) /\ last.calls = Blocks(calls)
       /\ last.allocs = Blocks(allocs) /\ last.freed_allocs = Blocks(freed_allocs)
       /\ last.findings = AllBlocks(findings) \cup found
  BY <1>10 DEF Holder
<1>13. Apart(last, live') /\ (Complete(held, live \cup more) => Complete(last, live'))
  BY <1>11
<1> HIDE DEF last
<1>14. /\ last.event = Blocks(event)' /\ last.resources = Blocks(resources)' /\ last.calls = Blocks(calls)'
       /\ last.allocs = Blocks(allocs)' /\ last.freed_allocs = Blocks(freed_allocs)'
  BY <1>2, <1>12
<1>15. last = Holdings'
  BY <1>7, <1>11, <1>12, <1>14, HoldingsBecome
<1>16. Arrays'
  BY <1>2, <1>3, <1>7, <1>11 DEF Arrays
<1> QED BY <1>9, <1>13, <1>15, <1>16 DEF Kept

-----------------------------------------------------------------------------
(* The rows of the model.                                                  *)

LEMMA FiveAndMore ==
    ASSUME NEW S, NEW five \in Seq(S), NEW more \in Seq(S), Len(five) = 5
    PROVE  /\ five \o more \in Seq(S) /\ Len(five \o more) = 5 + Len(more)
           /\ DOMAIN (five \o more) = 1 .. 5 + Len(more) /\ Len(more) \in Nat
           /\ DOMAIN more = 1 .. Len(more)
           /\ \A r \in 1 .. 5 : (five \o more)[r] = five[r]
           /\ \A n \in 1 .. Len(more) : (five \o more)[5 + n] = more[n]
<1> DEFINE rows == five \o more
<1>1. /\ rows \in Seq(S) /\ Len(rows) = Len(five) + Len(more)
      /\ \A i \in 1 .. Len(five) + Len(more) : rows[i] = IF i <= Len(five) THEN five[i] ELSE more[i - Len(five)]
  BY ConcatProperties
<1> HIDE DEF rows
<1>2. DOMAIN rows = 1 .. Len(rows) /\ DOMAIN more = 1 .. Len(more) /\ Len(more) \in Nat
  BY <1>1
<1>3. \A r \in 1 .. 5 : rows[r] = five[r]
  BY <1>1, <1>2
<1>4. ASSUME NEW n \in 1 .. Len(more) PROVE rows[5 + n] = more[n]
  <2>1. 5 + n \in 1 .. 5 + Len(more) /\ ~(5 + n <= 5) /\ (5 + n) - 5 = n
    BY <1>2
  <2> QED BY <1>1, <2>1
<1> QED BY <1>1, <1>2, <1>3, <1>4 DEF rows

LEMMA ModelMeaning ==
    ASSUME Arrays
    PROVE  /\ DOMAIN Model = 1 .. 5 + Len(findings) /\ Len(findings) \in Nat
           /\ Model[1] = sites /\ Model[2] = resources /\ Model[3] = calls
           /\ Model[4] = allocs /\ Model[5] = freed_allocs
           /\ \A n \in 1 .. Len(findings) : Model[5 + n] = findings[n]
           /\ \A r \in 1 .. 5 + Len(findings) :
                r \in 1 .. 5 \/ \E n \in 1 .. Len(findings) : r = 5 + n
           /\ DOMAIN findings = 1 .. Len(findings)
<1> DEFINE five == <<sites, resources, calls, allocs, freed_allocs>>
<1>1. /\ findings \in Seq(Seq(Nat)) /\ sites \in Seq(Nat) /\ resources \in Seq(Nat)
      /\ calls \in Seq(Nat) /\ allocs \in Seq(Nat) /\ freed_allocs \in Seq(Nat)
  BY DEF Arrays, CleanAll, Clean
<1>2. /\ five \in Seq(Seq(Nat)) /\ Len(five) = 5
      /\ five[1] = sites /\ five[2] = resources /\ five[3] = calls
      /\ five[4] = allocs /\ five[5] = freed_allocs
  BY <1>1
<1> HIDE DEF five
<1>3. Model = five \o findings
  BY DEF Model, five
<1>4. /\ DOMAIN Model = 1 .. 5 + Len(findings) /\ Len(findings) \in Nat
      /\ DOMAIN findings = 1 .. Len(findings)
      /\ \A r \in 1 .. 5 : Model[r] = five[r]
      /\ \A n \in 1 .. Len(findings) : Model[5 + n] = findings[n]
  <2> DEFINE S == Seq(Nat)
  <2>1. five \in Seq(S) /\ findings \in Seq(S) /\ Len(five) = 5
    BY <1>1, <1>2
  <2> HIDE DEF S
  <2> QED BY <1>3, <2>1, FiveAndMore
<1>6. ASSUME NEW r \in 1 .. 5 + Len(findings), ~(r \in 1 .. 5)
      PROVE  \E n \in 1 .. Len(findings) : r = 5 + n
  <2>1. r - 5 \in 1 .. Len(findings) /\ r = 5 + (r - 5)
    BY <1>4, <1>6
  <2> QED BY <2>1
<1> QED BY <1>2, <1>4, <1>6

\* A block of the model is held by one of its arrays.
LEMMA ModelBlocks ==
    ASSUME Arrays, NEW b, b # 0
    PROVE  b \in TextsIn(Model) <=>
             \/ b \in Blocks(sites) \/ b \in Blocks(resources) \/ b \in Blocks(calls)
             \/ b \in Blocks(allocs) \/ b \in Blocks(freed_allocs) \/ b \in AllBlocks(findings)
<1>1. b \in TextsIn(Model) <=> \E r \in 1 .. 5 + Len(findings) : b \in ToSet(Model[r])
  BY ModelMeaning DEF TextsIn
<1>2. b \in AllBlocks(findings) <=> \E n \in 1 .. Len(findings) : b \in ToSet(findings[n])
  <2>1. b \in AllBlocks(findings) <=> \E n \in 1 .. Len(findings) : b \in Blocks(findings[n])
    BY AllBlocksMeaning DEF Arrays, CleanAll
  <2> QED BY <2>1 DEF Blocks
<1>3. /\ 1 \in 1 .. 5 + Len(findings) /\ 2 \in 1 .. 5 + Len(findings) /\ 3 \in 1 .. 5 + Len(findings)
      /\ 4 \in 1 .. 5 + Len(findings) /\ 5 \in 1 .. 5 + Len(findings)
      /\ \A n \in 1 .. Len(findings) : 5 + n \in 1 .. 5 + Len(findings)
  BY ModelMeaning
<1>4. \A r \in 1 .. 5 : r = 1 \/ r = 2 \/ r = 3 \/ r = 4 \/ r = 5
  OBVIOUS
<1>5. ASSUME NEW r \in 1 .. 5 + Len(findings), b \in ToSet(Model[r])
      PROVE  \/ b \in ToSet(sites) \/ b \in ToSet(resources) \/ b \in ToSet(calls)
             \/ b \in ToSet(allocs) \/ b \in ToSet(freed_allocs)
             \/ \E n \in 1 .. Len(findings) : b \in ToSet(findings[n])
  <2>1. CASE r \in 1 .. 5
    BY <1>4, <1>5, <2>1, ModelMeaning
  <2>2. CASE \E n \in 1 .. Len(findings) : r = 5 + n
    BY <1>5, <2>2, ModelMeaning
  <2> QED BY <2>1, <2>2, ModelMeaning
<1>6. ASSUME NEW n \in 1 .. Len(findings), b \in ToSet(findings[n])
      PROVE  \E r \in 1 .. 5 + Len(findings) : b \in ToSet(Model[r])
  BY <1>3, <1>6, ModelMeaning
<1>7. b \in ToSet(sites) \/ b \in ToSet(resources) \/ b \in ToSet(calls)
        \/ b \in ToSet(allocs) \/ b \in ToSet(freed_allocs)
      => \E r \in 1 .. 5 + Len(findings) : b \in ToSet(Model[r])
  BY <1>3, ModelMeaning
<1>8. \A s : b \in Blocks(s) <=> b \in ToSet(s)
  BY DEF Blocks
<1> QED BY <1>1, <1>2, <1>5, <1>6, <1>7, <1>8

LEMMA FreeModelKeeps ==
    ASSUME TextsInv, FreeModel
    PROVE  Kept
<1>1. /\ live' = live \ TextsIn(Model) /\ event' = event
      /\ sites' = <<>> /\ resources' = <<>> /\ calls' = <<>>
      /\ allocs' = <<>> /\ freed_allocs' = <<>> /\ findings' = <<>>
  BY DEF FreeModel
<1>2. Arrays /\ Apart(Holdings, live) /\ event = <<>> /\ Heap(live)
  BY DEF TextsInv, Control, FreeModel, Apart
<1>3. Arrays'
  BY <1>1, <1>2, CleanEmpty DEF Arrays
<1>4. \A h \in Holder : Holdings'[h] = {}
  BY <1>1, <1>2, CleanEmpty DEF Holdings
<1>5. Heap(live')
  <2>1. live' \in SUBSET live
    BY <1>1
  <2> QED BY <1>2, <2>1, FS_Subset DEF Heap
<1>6. Apart(Holdings', live')
  <2>1. Holdings' \in [Holder -> SUBSET live']
    <3>1. Holdings' = [h \in Holder |-> Holdings'[h]]
      BY DEF Holdings
    <3> HIDE DEF Holdings
    <3> QED BY <1>4, <3>1
  <2> QED BY <1>4, <1>5, <2>1 DEF Apart
<1>7. ASSUME Complete(Holdings, live) PROVE Complete(Holdings', live')
  <2>1. ASSUME NEW b \in live' PROVE FALSE
    <3>1. b \in live /\ b \notin TextsIn(Model) /\ b # 0
      BY <1>1, <1>2, <2>1 DEF Heap
    <3>2. PICK h \in Holder : b \in Holdings[h]
      BY <1>7, <3>1 DEF Complete
    <3>3. Blocks(event) = {}
      BY <1>2, CleanEmpty
    <3>4. \/ b \in Blocks(sites) \/ b \in Blocks(resources) \/ b \in Blocks(calls)
          \/ b \in Blocks(allocs) \/ b \in Blocks(freed_allocs) \/ b \in AllBlocks(findings)
      BY <3>2, <3>3 DEF Holdings
    <3> QED BY <1>2, <3>1, <3>4, ModelBlocks
  <2> QED BY <2>1 DEF Complete
<1> QED BY <1>3, <1>6, <1>7 DEF Kept

-----------------------------------------------------------------------------
(* The invariant.                                                          *)

LEMMA StepKeeps ==
    ASSUME TextsAssumption, TextsInv, [Next]_vars
    PROVE  Kept
<1>1. ASSUME NEW k \in Kinds, ParseResource(k) PROVE Kept
  BY <1>1, ParseResourceKeeps
<1>2. CASE StoreResource
  BY <1>2, StoreResourceKeeps
<1>3. CASE Tables
  BY <1>3, TablesKeeps
<1>4. ASSUME NEW from, NEW to, Release(from, to) PROVE Kept
  BY <1>4, ReleaseKeeps
<1>5. ASSUME NEW from, NEW to, Turn(from, to) PROVE Kept
  BY <1>5, SameKeeps DEF Turn
<1>6. CASE ParseCall
  BY <1>6, ParseCallKeeps
<1>7. CASE AddCall
  BY <1>7, AddCallKeeps
<1>8. CASE FinalizeOne
  BY <1>8, FinalizeOneKeeps
<1>9. CASE FreeModel
  BY <1>9, FreeModelKeeps
<1>10. CASE UNCHANGED vars
  BY <1>10, SameKeeps DEF vars, tables
<1> QED BY <1>1, <1>2, <1>3, <1>4, <1>5, <1>6, <1>7, <1>8, <1>9, <1>10 DEF Next

LEMMA StepKeepsControl ==
    ASSUME TextsAssumption, TextsInv, [Next]_vars
    PROVE  Control' /\ (refused => refused')
<1>0. Control
  BY DEF TextsInv
<1>1. ASSUME NEW k \in Kinds, ParseResource(k) PROVE Control' /\ (refused => refused')
  BY <1>0, <1>1 DEF Control, ParseResource, Phases, TextsAssumption
<1>2. CASE StoreResource
  <2>1. /\ phase = "store" /\ UNCHANGED <<event, kind, refused>>
        /\ (phase' = "tables" /\ err' = err) \/ (phase' = "release" /\ err' = TRUE)
    BY <1>2 DEF StoreResource
  <2>2. ~refused /\ ~err
    BY <1>0, <2>1 DEF Control
  <2>3. CASE phase' = "tables" /\ err' = err
    BY <1>0, <2>1, <2>2, <2>3 DEF Control, Phases
  <2>4. CASE phase' = "release" /\ err' = TRUE
    BY <1>0, <2>1, <2>2, <2>4 DEF Control, Phases
  <2> QED BY <2>1, <2>3, <2>4
<1>3. CASE Tables
  <2>1. /\ phase = "tables" /\ phase' = "release" /\ UNCHANGED <<event, kind, refused>>
    BY <1>3 DEF Tables
  <2>2. err' \in BOOLEAN
    BY <1>3 DEF Tables, TableOfBlocks, AddFinding
  <2>3. ~refused
    BY <1>0, <2>1 DEF Control
  <2> QED BY <1>0, <2>1, <2>2, <2>3 DEF Control, Phases
<1>4. CASE Release("release", "resources") \/ Release("release_call", "calls")
  BY <1>0, <1>4 DEF Control, Release, Phases
<1>5. CASE \/ Turn("resources", "calls") \/ Turn("calls", IF err THEN "free" ELSE "finalize")
           \/ Turn("finalize", "free")
  BY <1>0, <1>5 DEF Control, Turn, Phases
<1>6. CASE ParseCall
  BY <1>0, <1>6 DEF Control, ParseCall, Phases, tables
<1>7. CASE AddCall
  BY <1>0, <1>7 DEF Control, AddCall, Phases
<1>8. CASE FinalizeOne
  <2>1. /\ phase = "finalize" /\ ~err /\ UNCHANGED <<event, kind, phase, refused>>
    BY <1>8 DEF FinalizeOne
  <2>2. err' \in BOOLEAN
    BY <1>8 DEF FinalizeOne, AddFinding
  <2>3. ~refused
    BY <1>0, <2>1 DEF Control
  <2> QED BY <1>0, <2>1, <2>2, <2>3 DEF Control, Phases
<1>9. CASE FreeModel
  BY <1>0, <1>9 DEF Control, FreeModel, Phases
<1>10. CASE UNCHANGED vars
  BY <1>0, <1>10 DEF Control, vars
<1> QED BY <1>1, <1>2, <1>3, <1>4, <1>5, <1>6, <1>7, <1>8, <1>9, <1>10 DEF Next

LEMMA InitHolds ==
    ASSUME Init
    PROVE  TextsInv
<1>1. Control
  BY DEF Init, Control, Phases, Kind
<1>2. Arrays
  BY CleanEmpty DEF Init, Arrays
<1>3. \A h \in Holder : Holdings[h] = {}
  BY CleanEmpty DEF Init, Holdings
<1>4. Heap(live) /\ live = {}
  BY FS_EmptySet DEF Init, Heap
<1>5. Holdings \in [Holder -> SUBSET live]
  <2>1. Holdings = [h \in Holder |-> Holdings[h]]
    BY DEF Holdings
  <2> QED BY <1>3, <2>1
<1>6. Apart(Holdings, live)
  BY <1>3, <1>4, <1>5 DEF Apart
<1>7. Complete(Holdings, live)
  BY <1>4 DEF Complete
<1> QED BY <1>1, <1>2, <1>6, <1>7 DEF TextsInv

LEMMA InvHolds == Spec => []TextsInv
<1>1. ASSUME Init PROVE TextsInv
  BY <1>1, InitHolds
<1>2. ASSUME TextsInv, [Next]_vars PROVE TextsInv'
  <2>1. Kept /\ Control' /\ (refused => refused')
    BY <1>2, StepKeeps, StepKeepsControl, TextsAssumption
  <2> QED BY <1>2, <2>1 DEF TextsInv, Kept
<1> QED BY <1>1, <1>2, PTL DEF Spec

\* The rows of the whole program are the event and the model's.
LEMMA RowsMeaning ==
    ASSUME Arrays
    PROVE  /\ DOMAIN Rows = 1 .. 6 + Len(findings) /\ Len(findings) \in Nat
           /\ Rows[1] = event
           /\ \A r \in 1 .. 5 + Len(findings) : Rows[1 + r] = Model[r]
           /\ \A r \in 1 .. 6 + Len(findings) :
                r = 1 \/ \E m \in 1 .. 5 + Len(findings) : r = 1 + m
<1> DEFINE S == Seq(Nat)
           five == <<sites, resources, calls, allocs, freed_allocs>>
<1>1. five \in Seq(S) /\ findings \in Seq(S) /\ event \in S /\ Len(findings) \in Nat
  BY DEF Arrays, CleanAll, Clean
<1>2. Len(five) = 5
  OBVIOUS
<1> HIDE DEF S, five
<1>3. Model \in Seq(S) /\ Len(Model) = 5 + Len(findings)
  <2>1. Model = five \o findings
    BY DEF Model, five
  <2> QED BY <1>1, <1>2, <2>1, FiveAndMore
<1>4. <<event>> \in Seq(S) /\ Len(<<event>>) = 1 /\ <<event>>[1] = event
  BY <1>1
<1>5. /\ Rows \in Seq(S) /\ Len(Rows) = 1 + Len(Model)
      /\ \A i \in 1 .. 1 + Len(Model) : Rows[i] = IF i <= 1 THEN <<event>>[i] ELSE Model[i - 1]
  BY <1>3, <1>4, ConcatProperties DEF Rows
<1>6. DOMAIN Rows = 1 .. 6 + Len(findings)
  BY <1>1, <1>3, <1>5
<1>7. Rows[1] = event
  BY <1>1, <1>3, <1>4, <1>5
<1>8. ASSUME NEW r \in 1 .. 5 + Len(findings) PROVE Rows[1 + r] = Model[r]
  <2>1. 1 + r \in 1 .. 1 + Len(Model) /\ ~(1 + r <= 1) /\ (1 + r) - 1 = r
    BY <1>1, <1>3
  <2> QED BY <1>5, <2>1
<1>9. ASSUME NEW r \in 1 .. 6 + Len(findings), r # 1
      PROVE  \E m \in 1 .. 5 + Len(findings) : r = 1 + m
  <2>1. r - 1 \in 1 .. 5 + Len(findings) /\ r = 1 + (r - 1)
    BY <1>1, <1>9
  <2> QED BY <2>1
<1> QED BY <1>1, <1>6, <1>7, <1>8, <1>9

\* Who holds a row: the event, one of the five arrays, or the findings together.
Owner(r) ==
    IF r = 1 THEN "event" ELSE IF r = 2 THEN "sites" ELSE IF r = 3 THEN "resources"
    ELSE IF r = 4 THEN "calls" ELSE IF r = 5 THEN "allocs" ELSE IF r = 6 THEN "freed_allocs"
    ELSE "findings"

LEMMA RowOwner ==
    ASSUME Arrays, NEW r \in DOMAIN Rows
    PROVE  /\ Clean(Rows[r]) /\ Owner(r) \in Holder
           /\ Blocks(Rows[r]) \subseteq Holdings[Owner(r)]
           /\ Owner(r) = "findings" =>
                r \in Int /\ r - 6 \in DOMAIN findings /\ Rows[r] = findings[r - 6]
           /\ \A s \in DOMAIN Rows : Owner(s) = Owner(r) => s = r \/ Owner(r) = "findings"
<1>1. r \in 1 .. 6 + Len(findings) /\ Len(findings) \in Nat /\ DOMAIN findings = 1 .. Len(findings)
  BY RowsMeaning, ModelMeaning
<1>2. Owner(r) \in Holder
  BY DEF Owner, Holder
<1>3. \A s \in DOMAIN Rows : Owner(s) = Owner(r) => s = r \/ Owner(r) = "findings"
  BY <1>1, RowsMeaning DEF Owner
<1>4. CASE r \in 1 .. 6
  <2>1. /\ Owner(r) # "findings"
        /\ \/ Rows[r] = event /\ Owner(r) = "event"
           \/ Rows[r] = sites /\ Owner(r) = "sites"
           \/ Rows[r] = resources /\ Owner(r) = "resources"
           \/ Rows[r] = calls /\ Owner(r) = "calls"
           \/ Rows[r] = allocs /\ Owner(r) = "allocs"
           \/ Rows[r] = freed_allocs /\ Owner(r) = "freed_allocs"
    <3>1. /\ Rows[1] = event /\ Rows[2] = sites /\ Rows[3] = resources /\ Rows[4] = calls
          /\ Rows[5] = allocs /\ Rows[6] = freed_allocs
      <4>1. \A m \in 1 .. 5 : Rows[1 + m] = Model[m]
        BY <1>1, RowsMeaning
      <4>2. /\ Rows[1 + 1] = Model[1] /\ Rows[1 + 2] = Model[2] /\ Rows[1 + 3] = Model[3]
            /\ Rows[1 + 4] = Model[4] /\ Rows[1 + 5] = Model[5]
        BY <4>1
      <4> QED BY <4>2, RowsMeaning, ModelMeaning
    <3>2. r = 1 \/ r = 2 \/ r = 3 \/ r = 4 \/ r = 5 \/ r = 6
      BY <1>4
    <3> QED BY <3>1, <3>2 DEF Owner
  <2>2. Clean(Rows[r])
    BY <2>1 DEF Arrays
  <2>3. Blocks(Rows[r]) \subseteq Holdings[Owner(r)]
    BY <2>1, HoldingsAre
  <2> QED BY <1>2, <1>3, <2>1, <2>2, <2>3
<1>5. CASE r \notin 1 .. 6
  <2>1. r - 6 \in 1 .. Len(findings) /\ r - 1 \in 1 .. 5 + Len(findings)
        /\ r = 1 + (r - 1) /\ r - 1 = 5 + (r - 6) /\ Owner(r) = "findings" /\ r \in Int
    BY <1>1, <1>5 DEF Owner
  <2>2. Rows[r] = findings[r - 6]
    <3>1. Rows[r] = Model[r - 1]
      BY <2>1, RowsMeaning
    <3>2. Model[r - 1] = findings[r - 6]
      BY <2>1, ModelMeaning
    <3> QED BY <3>1, <3>2
  <2>3. Clean(findings[r - 6]) /\ Blocks(findings[r - 6]) \subseteq AllBlocks(findings)
    BY <1>1, <2>1 DEF Arrays, CleanAll, AllBlocks
  <2> QED BY <1>1, <1>2, <1>3, <2>1, <2>2, <2>3, HoldingsAre
<1> QED BY <1>4, <1>5

-----------------------------------------------------------------------------
(* Theorems.                                                               *)

\* Each text is held in one place and is in use as long as it is held, whatever
\* copy or growth fails and however long the logs are: nothing is freed twice or
\* read after it was freed (memory.c:11-87, parse.c:55-161, model.c:84-151,
\* 374-391, 434-479, reader.c:92, 149, 178).
THEOREM TextsHaveOneOwner == Spec => []OneOwner
<1>1. TextsInv => OneOwner
  <2> SUFFICES ASSUME TextsInv, NEW r \in DOMAIN Rows, NEW s \in DOMAIN Rows,
                      NEW i \in DOMAIN Rows[r], NEW j \in DOMAIN Rows[s], Rows[r][i] # 0
               PROVE  Rows[r][i] \in live /\ (Rows[r][i] = Rows[s][j] => r = s /\ i = j)
    BY DEF OneOwner
  <2>1. Arrays /\ Apart(Holdings, live)
    BY DEF TextsInv
  <2>2. /\ Clean(Rows[r]) /\ Owner(r) \in Holder /\ Blocks(Rows[r]) \subseteq Holdings[Owner(r)]
        /\ Clean(Rows[s]) /\ Owner(s) \in Holder /\ Blocks(Rows[s]) \subseteq Holdings[Owner(s)]
    BY <2>1, RowOwner
  <2>3. Rows[r][i] \in Blocks(Rows[r])
    BY DEF Blocks, ToSet
  <2>4. Rows[r][i] \in live
    BY <2>1, <2>2, <2>3 DEF Apart
  <2>5. ASSUME Rows[r][i] = Rows[s][j] PROVE r = s /\ i = j
    <3>1. Rows[r][i] \in Blocks(Rows[s])
      BY <2>5 DEF Blocks, ToSet
    <3>2. Owner(r) = Owner(s)
      BY <2>1, <2>2, <2>3, <3>1 DEF Apart
    <3>3. r = s
      <4>1. CASE Owner(r) # "findings"
        BY <2>1, <3>2, <4>1, RowOwner
      <4>2. CASE Owner(r) = "findings"
        <5>1. /\ r - 6 \in DOMAIN findings /\ Rows[r] = findings[r - 6] /\ r \in Int
              /\ s - 6 \in DOMAIN findings /\ Rows[s] = findings[s - 6] /\ s \in Int
          BY <2>1, <3>2, <4>2, RowOwner
        <5>2. r - 6 = s - 6
          BY <2>1, <2>3, <3>1, <5>1 DEF Arrays, CleanAll
        <5> QED BY <5>1, <5>2
      <4> QED BY <4>1, <4>2
    <3>4. i = j
      BY <2>2, <2>5, <3>3 DEF Clean
    <3> QED BY <3>3, <3>4
  <2> QED BY <2>4, <2>5
<1> QED BY <1>1, InvHolds, PTL

\* No text is forgotten, whatever fails, except those of a call that found no room;
\* after the model was freed nothing is left in use (memory.c:58-87,
\* reader.c:92, 148-149, 178).
THEOREM NoTextIsForgotten == Spec => []NothingIsForgotten
<1>1. TextsInv => NothingIsForgotten
  <2> SUFFICES ASSUME TextsInv, ~refused, NEW b \in live
               PROVE  b \in TextsIn(Rows)
    BY DEF NothingIsForgotten
  <2>1. Arrays /\ Complete(Holdings, live) /\ b # 0
    BY DEF TextsInv, Apart, Heap
  <2>2. PICK h \in Holder : b \in Holdings[h]
    BY <2>1 DEF Complete
  <2>3. b \in Blocks(event) \/ b \in TextsIn(Model)
    <3>1. \/ b \in Blocks(event)
          \/ b \in Blocks(sites) \/ b \in Blocks(resources) \/ b \in Blocks(calls)
          \/ b \in Blocks(allocs) \/ b \in Blocks(freed_allocs) \/ b \in AllBlocks(findings)
      BY <2>2 DEF Holdings
    <3> QED BY <2>1, <3>1, ModelBlocks
  <2>4. CASE b \in Blocks(event)
    <3>1. 1 \in DOMAIN Rows /\ b \in ToSet(Rows[1])
      BY <2>1, <2>4, RowsMeaning DEF Blocks
    <3> QED BY <3>1 DEF TextsIn
  <2>5. CASE b \in TextsIn(Model)
    <3>1. PICK r \in DOMAIN Model : b \in ToSet(Model[r])
      BY <2>5 DEF TextsIn
    <3>2. r \in 1 .. 5 + Len(findings) /\ 1 + r \in DOMAIN Rows /\ Rows[1 + r] = Model[r]
      BY <2>1, ModelMeaning, RowsMeaning
    <3> QED BY <3>1, <3>2 DEF TextsIn
  <2> QED BY <2>3, <2>4, <2>5
<1> QED BY <1>1, InvHolds, PTL
=============================================================================
