--------------------------- MODULE SupportProofs ---------------------------
(***************************************************************************)
(* The arrays of Support never hold more than they have room for, for      *)
(* every width of size_t and every size of an item.  The doubling is what  *)
(* needs an argument: that the new capacity is larger than the old one     *)
(* follows from the two tests only because a capacity that is not zero     *)
(* never equals its double, and that the bytes asked for are the items'    *)
(* only because the second test excludes that the product wraps around.    *)
(***************************************************************************)
EXTENDS Support, WellFoundedInduction, TLAPS

\* What the proofs use of Support's assumptions.
LEMMA Sizes ==
    /\ SizeMax \in Nat /\ FirstCapacity \in Nat \ {0} /\ FirstCapacity <= SizeMax
    /\ SiteSize \in Nat \ {0} /\ FindingSize \in Nat \ {0}
  BY SupportAssumption

\* An item of a sequence is of the sequence's kind, and the items tell its kind.
LEMMA ItemIsOfItsKind ==
    ASSUME NEW S, NEW s \in Seq(S), NEW n \in 1 .. Len(s)
    PROVE  s[n] \in S
  OBVIOUS

LEMMA ItemsTellTheKind ==
    ASSUME NEW S, NEW R, NEW s \in Seq(R), \A n \in 1 .. Len(s) : s[n] \in S
    PROVE  s \in Seq(S)
  OBVIOUS

\* A block whose bytes are those of its items, and whose items can be counted.
Sound(block, size) ==
    /\ block \in [capacity : Nat, bytes : Nat]
    /\ block.capacity \in 0 .. SizeMax
    /\ block.bytes = block.capacity * size

\* A larger factor makes a larger product.
LEMMA ProductsOrdered ==
    ASSUME NEW m \in Nat, NEW n \in Nat, NEW size \in Nat, n <= m
    PROVE  n * size \in Nat /\ n * size <= m * size
<1>1. (m - n) * size \in Nat /\ n * size \in Nat
  BY SMT
<1>2. (m - n) * size = m * size - n * size
  BY SMT
<1>3. m * size \in Nat
  BY SMT
<1> QED BY <1>1, <1>2, <1>3, SMT

\* A capacity that passes the test of the division makes a product in range.
LEMMA ProductFits ==
    ASSUME NEW n \in Nat, NEW size \in Nat \ {0}, NEW max \in Nat, n <= max \div size
    PROVE  n * size \in 0 .. max
<1> DEFINE q == max \div size
<1>1. q \in Nat /\ q * size <= max
  BY SMT
<1>2. n <= q
  OBVIOUS
<1> HIDE DEF q
<1>3. n * size \in Nat /\ n * size <= q * size
  BY <1>1, <1>2, ProductsOrdered
<1>4. q * size \in Nat
  BY <1>1, SMT
<1> QED BY <1>1, <1>3, <1>4, SMT

\* Where the two tests pass the array has grown, and nothing wrapped around.
LEMMA GrowthIsReal ==
    ASSUME NEW capacity \in 0 .. SizeMax, NEW size \in Nat \ {0}, Fits(capacity, size)
    PROVE  /\ NewCapacity(capacity) \in 0 .. SizeMax
           /\ NewCapacity(capacity) > capacity
           /\ Wrapped(NewCapacity(capacity) * size) = NewCapacity(capacity) * size
           /\ NewCapacity(capacity) * size \in Nat
<1> DEFINE new == NewCapacity(capacity)
<1>1. new \in 0 .. SizeMax /\ new > capacity
  <2>1. CASE capacity = 0
    BY <2>1, Sizes, SMT DEF NewCapacity
  <2>2. CASE capacity # 0
    <3>1. new = (capacity * 2) % (SizeMax + 1) /\ new >= capacity
      BY <2>2 DEF NewCapacity, Wrapped, Fits
    <3>2. \/ new = capacity * 2
          \/ new = capacity * 2 - (SizeMax + 1)
      BY <3>1, Sizes, SMT
    <3>3. new \in 0 .. SizeMax
      BY <3>1, Sizes, SMT
    <3> QED BY <2>2, <3>1, <3>2, <3>3, Sizes, SMT
  <2> QED BY <2>1, <2>2
<1>2. new <= SizeMax \div size
  BY DEF Fits
<1>3. new * size \in 0 .. SizeMax
  <2> HIDE DEF new
  <2> QED BY <1>1, <1>2, Sizes, ProductFits, SMT
<1>4. Wrapped(new * size) = new * size
  <2> DEFINE bytes == new * size
  <2>1. bytes \in 0 .. SizeMax
    BY <1>3
  <2> HIDE DEF bytes
  <2>2. Wrapped(bytes) = bytes
    BY <2>1, Sizes, SMT DEF Wrapped
  <2> QED BY <2>2 DEF bytes
<1> QED BY <1>1, <1>3, <1>4

\* Whatever becomes of an array, its block stays sound, and where growing it went
\* well there is room for one more item.
LEMMA GrownIsSound ==
    ASSUME NEW block, NEW count \in Nat, NEW size \in Nat \ {0},
           Sound(block, size), count <= block.capacity,
           NEW g \in Grown(block, count, size)
    PROVE  /\ Sound(g.block, size)
           /\ count <= g.block.capacity
           /\ g.ok => count + 1 <= g.block.capacity
<1>0. block.capacity \in 0 .. SizeMax /\ SizeMax \in Nat
  BY Sizes DEF Sound
<1>1. CASE count < block.capacity
  <2>1. g = [ok |-> TRUE, block |-> block]
    BY <1>1 DEF Grown
  <2> QED BY <2>1, <1>0, <1>1, SMT
<1>2. CASE ~(count < block.capacity)
  <2> DEFINE new == [capacity |-> NewCapacity(block.capacity),
                     bytes    |-> Wrapped(NewCapacity(block.capacity) * size)]
  <2>1. \/ g = [ok |-> FALSE, block |-> block]
        \/ g = [ok |-> TRUE, block |-> new] /\ Fits(block.capacity, size)
    BY <1>2, Zenon DEF Grown
  <2>2. CASE g = [ok |-> FALSE, block |-> block]
    BY <2>2
  <2>3. CASE g = [ok |-> TRUE, block |-> new] /\ Fits(block.capacity, size)
    <3>1. /\ NewCapacity(block.capacity) \in 0 .. SizeMax
          /\ NewCapacity(block.capacity) > block.capacity
          /\ Wrapped(NewCapacity(block.capacity) * size) = NewCapacity(block.capacity) * size
          /\ NewCapacity(block.capacity) * size \in Nat
      BY <1>0, <2>3, GrowthIsReal
    <3>2. g.block = new /\ new.capacity = NewCapacity(block.capacity)
      BY <2>3
    <3>3. Sound(g.block, size)
      BY <3>1, <3>2 DEF Sound
    <3>4. count + 1 <= g.block.capacity
      BY <3>1, <3>2, <1>0, <1>2, SMT
    <3> QED BY <3>3, <3>4, <3>2, <3>1, <1>0, SMT
  <2> QED BY <2>1, <2>2, <2>3
<1> QED BY <1>1, <1>2

-----------------------------------------------------------------------------
(* Interning.                                                              *)

\* The search for a site stops at the first of its places.
LEMMA FirstIsSmallest ==
    ASSUME NEW S \in SUBSET Nat, S # {}
    PROVE  First(S) \in S
<1>1. PICK i \in S : \A j \in S : ~(<<j, i>> \in OpToRel(<, Nat))
  BY NatLessThanWellFounded, WFMin
<1>2. \A j \in S : ~(j < i)
  BY <1>1 DEF OpToRel
<1>3. \A j \in S : i <= j
  BY <1>2, SMT
<1> QED BY <1>1, <1>3 DEF First

\* A table all of whose sites are whole and listed once.
Distinct(table) ==
    /\ \A i \in 1 .. Len(table) : table[i] \in Site
    /\ \A i, j \in 1 .. Len(table) : table[i] = table[j] => i = j

\* Every index into the one table means the same in the other.
Extends(table, longer) ==
    /\ Len(table) <= Len(longer)
    /\ \A i \in 1 .. Len(table) : longer[i] = table[i]

\* However interning ends, the table keeps its entries and its room, and the index
\* is the site's own if all went well.
LEMMA InternedIsSound ==
    ASSUME NEW table \in Seq(NullableSite), NEW block, NEW site \in Site,
           Sound(block, SiteSize), Len(table) <= block.capacity,
           NEW in \in Interned(table, block, site)
    PROVE  /\ in.sites \in Seq(NullableSite)
           /\ Sound(in.block, SiteSize) /\ Len(in.sites) <= in.block.capacity
           /\ Extends(table, in.sites)
           /\ in.ok \in BOOLEAN
           /\ in.index \in Nat
           /\ in.ok => in.index + 1 \in 1 .. Len(in.sites) /\ in.sites[in.index + 1] = site
           /\ in.ok /\ Distinct(table) => Distinct(in.sites)
<1>1. CASE Known(table, site) # {}
  <2>1. in = [ok |-> TRUE, sites |-> table, block |-> block,
              index |-> First(Known(table, site)) - 1]
    <3> DEFINE known == [ok |-> TRUE, sites |-> table, block |-> block,
                         index |-> First(Known(table, site)) - 1]
    <3>1. Interned(table, block, site) = {known}
      BY <1>1 DEF Interned
    <3> QED BY <3>1
  <2>2. Known(table, site) \in SUBSET Nat
    BY DEF Known
  <2>3. First(Known(table, site)) \in Known(table, site)
    BY <1>1, <2>2, FirstIsSmallest
  <2>4. /\ First(Known(table, site)) \in 1 .. Len(table)
        /\ table[First(Known(table, site))] = site
    BY <2>3 DEF Known
  <2> QED BY <2>1, <2>4, SMT DEF Extends
<1>2. CASE Known(table, site) = {}
  <2> DEFINE refused(g) == [ok |-> FALSE, sites |-> table, block |-> g.block, index |-> 0]
             added(g, file, function) ==
               [ok |-> Null \notin {file, function}, block |-> g.block, index |-> Len(table),
                sites |-> Append(table, [file |-> file, function |-> function,
                                         line |-> site.line])]
             outcomes(g) ==
               IF ~g.ok THEN {refused(g)}
               ELSE {added(g, file, function)
                       : file \in Copied(site.file), function \in Copied(site.function)}
  <2>1. PICK g \in Grown(block, Len(table), SiteSize) : in \in outcomes(g)
    <3>1. Interned(table, block, site) =
            UNION {outcomes(g) : g \in Grown(block, Len(table), SiteSize)}
      BY <1>2 DEF Interned
    <3> HIDE DEF outcomes
    <3> QED BY <3>1
  <2>2. /\ Sound(g.block, SiteSize) /\ Len(table) <= g.block.capacity
        /\ g.ok => Len(table) + 1 <= g.block.capacity
    <3>1. Len(table) \in Nat
      OBVIOUS
    <3> QED BY <3>1, GrownIsSound, Sizes
  <2>3. CASE ~g.ok
    <3>1. in = refused(g)
      BY <2>1, <2>3
    <3> QED BY <3>1, <2>2 DEF Extends
  <2>4. CASE g.ok
    <3>1. PICK file \in Copied(site.file), function \in Copied(site.function) :
            in = added(g, file, function)
      <4> HIDE DEF added, refused
      <4>1. in \in {added(g, file, function)
                     : file \in Copied(site.file), function \in Copied(site.function)}
        BY <2>1, <2>4
      <4> QED BY <4>1
    <3> DEFINE new == [file |-> file, function |-> function, line |-> site.line]
    <3>2. /\ file \in {site.file, Null} /\ function \in {site.function, Null}
          /\ site \in [file : Text, function : Text, line : Line]
      BY DEF Copied, Site
    <3>3. new \in NullableSite
      BY <3>2 DEF NullableSite
    <3>4. in.sites = Append(table, new) /\ in.index = Len(table) /\ in.block = g.block
      BY <3>1
    <3>5. in.ok \in BOOLEAN /\ (in.ok => file # Null /\ function # Null)
      BY <3>1
    <3>6. in.ok => new = site
      BY <3>2, <3>5
    <3> HIDE DEF new
    <3>7. in.sites \in Seq(NullableSite) /\ Len(in.sites) = Len(table) + 1
      BY <3>3, <3>4
    <3>8. Extends(table, in.sites) /\ in.sites[Len(table) + 1] = new
      BY <3>3, <3>4 DEF Extends
    <3>9. in.ok /\ Distinct(table) => Distinct(in.sites)
      <4>1. SUFFICES ASSUME in.ok, Distinct(table) PROVE Distinct(in.sites)
        OBVIOUS
      <4>2. \A i \in 1 .. Len(table) : table[i] # site
        BY <1>2 DEF Known
      <4> QED BY <3>6, <3>7, <3>8, <4>1, <4>2 DEF Distinct, Extends
    <3> QED BY <2>2, <2>4, <3>4, <3>5, <3>6, <3>7, <3>8, <3>9
  <2> QED BY <2>3, <2>4
<1> QED BY <1>1, <1>2

-----------------------------------------------------------------------------
(* The invariant.                                                          *)

\* What one finding says of its two sites.
Points(table, f, r) ==
    /\ f.site + 1 \in 1 .. Len(table) /\ table[f.site + 1] = r.site
    /\ r.previous # Null =>
         f.previous + 1 \in 1 .. Len(table) /\ table[f.previous + 1] = r.previous
    /\ r.previous = Null => f.previous = 0

\* The room of each array with the shape of what it holds; with it every property of
\* Support is inductive.
SupportInv ==
    /\ sites \in Seq(NullableSite)
    /\ findings \in Seq([site : Nat, previous : Nat])
    /\ reported \in Seq([site : Site, previous : Site \cup {Null}])
    /\ Sound(site_block, SiteSize) /\ Len(sites) <= site_block.capacity
    /\ Sound(finding_block, FindingSize) /\ Len(findings) <= finding_block.capacity
    /\ err \in BOOLEAN
    /\ ~err => Distinct(sites)
    /\ Len(reported) = Len(findings)
    /\ \A n \in 1 .. Len(findings) : Points(sites, findings[n], reported[n])

LEMMA InitSound == Init => SupportInv
<1> SUFFICES ASSUME Init PROVE SupportInv
  OBVIOUS
<1>1. /\ sites = <<>> /\ findings = <<>> /\ reported = <<>> /\ err = FALSE
      /\ site_block = [capacity |-> 0, bytes |-> 0]
      /\ finding_block = [capacity |-> 0, bytes |-> 0]
  BY DEF Init, Empty
<1>2. \A size \in Nat : Sound([capacity |-> 0, bytes |-> 0], size)
  BY Sizes, SMT DEF Sound
<1>3. Distinct(<<>>)
  BY DEF Distinct
<1>4. /\ sites \in Seq(NullableSite) /\ Len(sites) = 0
      /\ findings \in Seq([site : Nat, previous : Nat]) /\ Len(findings) = 0
      /\ reported \in Seq([site : Site, previous : Site \cup {Null}]) /\ Len(reported) = 0
  BY <1>1
<1>5. /\ Sound(site_block, SiteSize) /\ Len(sites) <= site_block.capacity
      /\ Sound(finding_block, FindingSize) /\ Len(findings) <= finding_block.capacity
  BY <1>1, <1>2, <1>4, Sizes
<1>6. \A n \in 1 .. Len(findings) : Points(sites, findings[n], reported[n])
  BY <1>4
<1>7. err \in BOOLEAN /\ (~err => Distinct(sites))
  BY <1>1, <1>3
<1> QED BY <1>4, <1>5, <1>6, <1>7, Zenon DEF SupportInv

\* Findings keep pointing at their sites while the table grows.
LEMMA PointsExtend ==
    ASSUME NEW table \in Seq(NullableSite), NEW longer \in Seq(NullableSite),
           Extends(table, longer), NEW f \in [site : Nat, previous : Nat], NEW r,
           Points(table, f, r)
    PROVE  Points(longer, f, r)
  BY DEF Points, Extends

LEMMA ExtendsTransitive ==
    ASSUME NEW a \in Seq(NullableSite), NEW b \in Seq(NullableSite),
           NEW c \in Seq(NullableSite), Extends(a, b), Extends(b, c)
    PROVE  Extends(a, c)
  BY DEF Extends

LEMMA InternKeeps ==
    ASSUME SupportInv, NEW site \in Site, Intern(site)
    PROVE  SupportInv'
<1>1. PICK in \in Interned(sites, site_block, site) :
        sites' = in.sites /\ site_block' = in.block /\ err' = ~in.ok
  BY DEF Intern
<1>2. /\ in.sites \in Seq(NullableSite)
      /\ Sound(in.block, SiteSize) /\ Len(in.sites) <= in.block.capacity
      /\ Extends(sites, in.sites)
      /\ in.ok \in BOOLEAN
      /\ in.ok /\ Distinct(sites) => Distinct(in.sites)
  BY InternedIsSound DEF SupportInv
<1>3. ~err /\ UNCHANGED <<findings, finding_block, reported>>
  BY DEF Intern
<1>4. \A n \in 1 .. Len(findings) : Points(in.sites, findings[n], reported[n])
  <2> SUFFICES ASSUME NEW n \in 1 .. Len(findings)
               PROVE  Points(in.sites, findings[n], reported[n])
    OBVIOUS
  <2>1. findings[n] \in [site : Nat, previous : Nat] /\ sites \in Seq(NullableSite)
    BY ItemIsOfItsKind, Zenon DEF SupportInv
  <2>2. Points(sites, findings[n], reported[n])
    BY DEF SupportInv
  <2>3. \A f \in [site : Nat, previous : Nat] :
          Points(sites, f, reported[n]) => Points(in.sites, f, reported[n])
    BY <1>2, <2>1, PointsExtend
  <2> QED BY <2>1, <2>2, <2>3
<1>5. Sound(site_block', SiteSize) /\ Len(sites') <= site_block'.capacity
  BY <1>1, <1>2
<1>6. err' \in BOOLEAN /\ (~err' => Distinct(sites'))
  BY <1>1, <1>2, <1>3 DEF SupportInv
<1> QED BY <1>1, <1>2, <1>3, <1>4, <1>5, <1>6 DEF SupportInv

LEMMA ReportKeeps ==
    ASSUME SupportInv, NEW site \in Site, NEW previous \in Site \cup {Null},
           Report(site, previous)
    PROVE  SupportInv'
<1> DEFINE Second(one) ==
      IF previous = Null
      THEN {[ok |-> TRUE, sites |-> one.sites, block |-> one.block, index |-> 0]}
      ELSE Interned(one.sites, one.block, previous)
<1> DEFINE Stored(one, two, g, copied) ==
      LET counted == g.ok /\ Counted(one.ok /\ two.ok, copied)
      IN  /\ sites' = two.sites /\ site_block' = two.block
          /\ finding_block' = g.block
          /\ findings' = IF counted
                           THEN Append(findings, [site |-> one.index, previous |-> two.index])
                           ELSE findings
          /\ reported' = IF counted
                           THEN Append(reported, [site |-> site, previous |-> previous])
                           ELSE reported
          /\ err' = ~(one.ok /\ two.ok /\ g.ok /\ copied)
<1>0. PICK one \in Interned(sites, site_block, site) : \E two \in Second(one) :
        \E g \in Grown(finding_block, Len(findings), FindingSize), copied \in {TRUE} \cup Outcomes :
          Stored(one, two, g, copied)
  BY DEF Report
<1>1. PICK two \in Second(one), g \in Grown(finding_block, Len(findings), FindingSize),
           copied \in {TRUE} \cup Outcomes : Stored(one, two, g, copied)
  BY <1>0
<1>2. /\ one.sites \in Seq(NullableSite)
      /\ Sound(one.block, SiteSize) /\ Len(one.sites) <= one.block.capacity
      /\ Extends(sites, one.sites)
      /\ one.ok \in BOOLEAN
      /\ one.index \in Nat
      /\ one.ok => one.index + 1 \in 1 .. Len(one.sites) /\ one.sites[one.index + 1] = site
      /\ one.ok /\ Distinct(sites) => Distinct(one.sites)
  BY InternedIsSound DEF SupportInv
<1>3. /\ two.sites \in Seq(NullableSite)
      /\ Sound(two.block, SiteSize) /\ Len(two.sites) <= two.block.capacity
      /\ Extends(one.sites, two.sites)
      /\ two.ok \in BOOLEAN
      /\ two.index \in Nat
      /\ two.ok /\ previous # Null =>
           two.index + 1 \in 1 .. Len(two.sites) /\ two.sites[two.index + 1] = previous
      /\ previous = Null => two.index = 0
      /\ two.ok /\ Distinct(one.sites) => Distinct(two.sites)
  <2>1. CASE previous = Null
    <3>1. two = [ok |-> TRUE, sites |-> one.sites, block |-> one.block, index |-> 0]
      BY <2>1
    <3> QED BY <1>2, <2>1, <3>1 DEF Extends
  <2>2. CASE previous # Null
    <3>1. two \in Interned(one.sites, one.block, previous) /\ previous \in Site
      BY <2>2
    <3> QED BY <1>2, <3>1, InternedIsSound
  <2> QED BY <2>1, <2>2
<1> HIDE DEF Second
<1>4. Extends(sites, two.sites)
  BY <1>2, <1>3, ExtendsTransitive DEF SupportInv
<1>5. \A n \in 1 .. Len(findings) : Points(two.sites, findings[n], reported[n])
  <2> SUFFICES ASSUME NEW n \in 1 .. Len(findings)
               PROVE  Points(two.sites, findings[n], reported[n])
    OBVIOUS
  <2>1. findings[n] \in [site : Nat, previous : Nat] /\ sites \in Seq(NullableSite)
    BY ItemIsOfItsKind, Zenon DEF SupportInv
  <2>2. Points(sites, findings[n], reported[n])
    BY DEF SupportInv
  <2>3. \A f \in [site : Nat, previous : Nat] :
          Points(sites, f, reported[n]) => Points(two.sites, f, reported[n])
    BY <1>3, <1>4, <2>1, PointsExtend
  <2> QED BY <2>1, <2>2, <2>3
<1>6. /\ Sound(g.block, FindingSize)
      /\ Len(findings) <= g.block.capacity
      /\ g.ok => Len(findings) + 1 <= g.block.capacity
  <2>1. Len(findings) \in Nat
    BY DEF SupportInv
  <2> QED BY <2>1, GrownIsSound, Sizes DEF SupportInv
<1>7. err' \in BOOLEAN /\ (~err' => Distinct(sites'))
  BY <1>1, <1>2, <1>3 DEF SupportInv, Report
<1>8. CASE g.ok /\ Counted(one.ok /\ two.ok, copied)
  <2> DEFINE f == [site |-> one.index, previous |-> two.index]
             r == [site |-> site, previous |-> previous]
  <2>1. findings' = Append(findings, f) /\ reported' = Append(reported, r)
    BY <1>1, <1>8
  <2>2. one.ok /\ two.ok
    BY <1>8 DEF Counted
  <2>3. f \in [site : Nat, previous : Nat] /\ r \in [site : Site, previous : Site \cup {Null}]
    BY <1>2, <1>3
  <2>4. Points(two.sites, f, r)
    <3>1. /\ one.index + 1 \in 1 .. Len(two.sites)
          /\ two.sites[one.index + 1] = site
      BY <1>2, <1>3, <2>2 DEF Extends
    <3> QED BY <1>3, <2>2, <3>1 DEF Points
  <2> HIDE DEF f, r
  <2>5. /\ findings' \in Seq([site : Nat, previous : Nat])
        /\ reported' \in Seq([site : Site, previous : Site \cup {Null}])
        /\ Len(findings') = Len(findings) + 1 /\ Len(reported') = Len(reported) + 1
    BY <2>1, <2>3 DEF SupportInv
  <2>6. \A n \in 1 .. Len(findings') : Points(sites', findings'[n], reported'[n])
    <3> SUFFICES ASSUME NEW n \in 1 .. Len(findings')
                 PROVE  Points(two.sites, findings'[n], reported'[n])
      BY <1>1
    <3>1. CASE n \in 1 .. Len(findings)
      <4>1. findings'[n] = findings[n] /\ reported'[n] = reported[n]
        BY <2>1, <2>3, <3>1 DEF SupportInv
      <4> QED BY <1>5, <3>1, <4>1
    <3>2. CASE n = Len(findings) + 1
      <4>1. findings'[n] = f /\ reported'[n] = r
        BY <2>1, <2>3, <3>2 DEF SupportInv
      <4> QED BY <2>4, <4>1
    <3> QED BY <2>5, <3>1, <3>2 DEF SupportInv
  <2> QED BY <1>1, <1>3, <1>6, <1>7, <1>8, <2>5, <2>6 DEF SupportInv
<1>9. CASE ~(g.ok /\ Counted(one.ok /\ two.ok, copied))
  <2>1. UNCHANGED <<findings, reported>>
    BY <1>1, <1>9
  <2> QED BY <1>1, <1>3, <1>5, <1>6, <1>7, <2>1 DEF SupportInv
<1> QED BY <1>8, <1>9

LEMMA NextKeeps == SupportInv /\ [Next]_vars => SupportInv'
<1> SUFFICES ASSUME SupportInv, [Next]_vars PROVE SupportInv'
  OBVIOUS
<1>1. CASE UNCHANGED vars
  BY <1>1 DEF vars, SupportInv
<1>2. ASSUME NEW site \in Site, Intern(site) PROVE SupportInv'
  BY <1>2, InternKeeps
<1>3. ASSUME NEW site \in Site, NEW previous \in Site \cup {Null}, Report(site, previous)
      PROVE  SupportInv'
  BY <1>3, ReportKeeps
<1> QED BY <1>1, <1>2, <1>3 DEF Next

LEMMA SupportIsSound == Spec => []SupportInv
  BY InitSound, NextKeeps, PTL DEF Spec

-----------------------------------------------------------------------------
(* The properties.                                                         *)

\* Every finding points into the table of sites, and the rest is of its kind
\* (model_support.c:18-82).
THEOREM SupportTypes == Spec => []TypeOK
<1>1. SupportInv => TypeOK
  <2> SUFFICES ASSUME SupportInv PROVE TypeOK
    OBVIOUS
  <2>1. ASSUME NEW n \in 1 .. Len(findings)
        PROVE  findings[n] \in [site : 0 .. Len(sites) - 1, previous : 0 .. Len(sites) - 1]
    <3>0. findings \in Seq([site : Nat, previous : Nat]) /\ sites \in Seq(NullableSite)
      BY DEF SupportInv
    <3>1. findings[n] \in [site : Nat, previous : Nat] /\ Len(sites) \in Nat
      <4>1. findings[n] \in [site : Nat, previous : Nat]
        BY <3>0, ItemIsOfItsKind, Zenon
      <4> QED BY <3>0, <4>1
    <3>2. Points(sites, findings[n], reported[n])
      BY DEF SupportInv
    <3>3. findings[n].site \in 0 .. Len(sites) - 1
      BY <3>1, <3>2, SMT DEF Points
    <3>4. findings[n].previous \in 0 .. Len(sites) - 1
      BY <3>1, <3>2, <3>3, SMT DEF Points
    <3> QED BY <3>1, <3>3, <3>4
  <2>2. findings \in Seq([site : 0 .. Len(sites) - 1, previous : 0 .. Len(sites) - 1])
    <3> DEFINE F == [site : 0 .. Len(sites) - 1, previous : 0 .. Len(sites) - 1]
    <3>1. \A n \in 1 .. Len(findings) : findings[n] \in F
      BY <2>1
    <3> HIDE DEF F
    <3>2. findings \in Seq([site : Nat, previous : Nat])
      BY DEF SupportInv
    <3>3. findings \in Seq(F)
      BY <3>1, <3>2, ItemsTellTheKind, Zenon
    <3> QED BY <3>3 DEF F
  <2> QED BY <2>2, Zenon DEF SupportInv, TypeOK, Sound
<1> QED BY <1>1, SupportIsSound, PTL

\* No array is written past its block and no size of a block wraps around, whatever
\* SIZE_MAX and the sizes of the items are (model_support.c:112-133).
THEOREM RoomIsAlwaysReal == Spec => []RoomIsReal
<1>1. SupportInv => RoomIsReal
  BY DEF SupportInv, RoomIsReal, Sound
<1> QED BY <1>1, SupportIsSound, PTL

\* Until a request for memory fails the table of sites has no site twice
\* (model_support.c:22-36).
THEOREM SitesStayDistinct == Spec => []SitesAreDistinct
<1>1. SupportInv => SitesAreDistinct
  BY DEF SupportInv, SitesAreDistinct, Distinct
<1> QED BY <1>1, SupportIsSound, PTL

\* A finding that is counted points at its own sites through every failure
\* (model_support.c:18-82, model_generic.c:151-165).
THEOREM FindingsPointHome == Spec => []FindingsKeepTheirSite
<1>1. SupportInv => FindingsKeepTheirSite
  BY DEF SupportInv, FindingsKeepTheirSite, Points
<1> QED BY <1>1, SupportIsSound, PTL
=============================================================================
