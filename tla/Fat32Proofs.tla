---------------------------- MODULE Fat32Proofs -----------------------------
(***************************************************************************)
(* The FAT32 driver, for every geometry of the disk, every set of names    *)
(* and every number of files.                                              *)
(***************************************************************************)
EXTENDS Fat32Props, Least, SequenceTheorems, FiniteSetTheorems

Fats == [Clusters -> Clusters \cup {FREE, EOC}]

(***************************************************************************)
(* s is the chain that begins with h: it follows the links, visits no      *)
(* cluster twice and ends at EOC.                                          *)
(***************************************************************************)
IsChain(f, h, s) ==
  /\ s \in Seq(Clusters) /\ Len(s) \in 1..NClusters /\ s[1] = h
  /\ \A k \in 1 .. Len(s) - 1 : f[s[k]] = s[k + 1]
  /\ f[s[Len(s)]] = EOC
  /\ \A j, k \in 1..Len(s) : s[j] = s[k] => j = k

Links(f) ==
  CHOOSE links : links = [n \in 0..NClusters |-> [c \in Clusters |->
                           IF n = 0 THEN <<>>
                           ELSE <<c>> \o (IF f[c] \in Clusters THEN links[n - 1][f[c]] ELSE <<>>)]]

LEMMA ChainIsLinks ==
  ASSUME NEW f, NEW h \in Clusters
  PROVE  ClusterChain(f, h) = Links(f)[NClusters][h]
BY DEF ClusterChain, Links

(***************************************************************************)
(* The recursive function of cluster_chain exists: up to n links for every *)
(* n.                                                                      *)
(***************************************************************************)
LEMMA LinksUnfold ==
  ASSUME NEW f \in Fats, NEW c \in Clusters, NEW n \in 0..NClusters
  PROVE  Links(f)[n][c] = IF n = 0 THEN <<>>
                          ELSE <<c>> \o (IF f[c] \in Clusters THEN Links(f)[n - 1][f[c]] ELSE <<>>)
<1> DEFINE Body(g, i) == [d \in Clusters |->
                            IF i = 0 THEN <<>>
                            ELSE <<d>> \o (IF f[d] \in Clusters THEN g[i - 1][f[d]] ELSE <<>>)]
           IsLinks(g, m) == g = [i \in 0..m |-> Body(g, i)]
           Done == [m \in 0..NClusters |-> {1}]
           ok == [m \in 0..NClusters |-> IF \E g : IsLinks(g, m) THEN 1 ELSE 0]
<1>0. NClusters \in Nat
  BY GeometryAssumption
<1>1. ok[0] \in Done[0]
  <2> DEFINE g == [i \in 0..0 |-> [d \in Clusters |-> <<>>]]
  <2>1. IsLinks(g, 0)
    <3>1. \A i \in 0..0 : Body(g, i) = [d \in Clusters |-> <<>>]
      OBVIOUS
    <3> HIDE DEF Body
    <3> QED BY <3>1
  <2> HIDE DEF IsLinks
  <2> QED BY <1>0, <2>1
<1>2. ASSUME NEW k \in 0 .. NClusters - 1, ok[k] \in Done[k]
      PROVE  ok[k + 1] \in Done[k + 1]
  <2>1. k \in 0..NClusters /\ k + 1 \in 0..NClusters
    BY <1>0
  <2>2. \E g : IsLinks(g, k)
    <3> HIDE DEF IsLinks
    <3> QED BY <1>2, <2>1
  <2>3. PICK g : IsLinks(g, k)
    BY <2>2
  <2> DEFINE h == [i \in 0 .. k + 1 |-> Body(g, i)]
  <2>4. \A i \in 0..k : g[i] = Body(g, i)
    <3> HIDE DEF Body
    <3> QED BY <2>3
  <2>5. ASSUME NEW i \in 0 .. k + 1
        PROVE  Body(g, i) = Body(h, i)
    <3>1. CASE i = 0
      BY <3>1
    <3>2. CASE i # 0
      <4>1. i - 1 \in 0..k /\ i - 1 \in 0 .. k + 1
        BY <1>0, <3>2
      <4>2. h[i - 1] = g[i - 1]
        <5> HIDE DEF Body
        <5> QED BY <2>4, <4>1
      <4> HIDE DEF h
      <4> QED BY <4>2
    <3> QED BY <3>1, <3>2
  <2>6. IsLinks(h, k + 1)
    <3>1. h = [i \in 0 .. k + 1 |-> Body(g, i)]
      OBVIOUS
    <3> HIDE DEF h, Body
    <3> QED BY <2>5, <3>1
  <2> HIDE DEF IsLinks
  <2> QED BY <2>1, <2>6
<1>3. ok[NClusters] \in Done[NClusters]
  <2> HIDE DEF ok, Done
  <2> QED BY <1>0, <1>1, <1>2, Rounds
<1>4. \E g : IsLinks(g, NClusters)
  <2> HIDE DEF IsLinks
  <2> QED BY <1>0, <1>3
<1>5. IsLinks(Links(f), NClusters)
  <2>1. Links(f) = CHOOSE g : IsLinks(g, NClusters)
    BY DEF Links
  <2> HIDE DEF IsLinks
  <2> QED BY <1>4, <2>1
<1>6. Links(f)[n] = Body(Links(f), n)
  <2> HIDE DEF Body
  <2> QED BY <1>5
<1> QED BY <1>6

LEMMA Numbers ==
  /\ NClusters \in Nat /\ NClusters >= 3 /\ SlotsPerCluster \in Nat /\ SlotsPerCluster >= 2
  /\ BytesPerCluster \in Nat /\ BytesPerCluster >= 1
  /\ Clusters \subseteq Nat /\ RootCluster \in Clusters /\ EOC \notin Clusters /\ FREE \notin Clusters
  /\ EOC # FREE /\ 0 \notin Clusters /\ \A c \in Clusters : c >= 2
BY GeometryAssumption DEF Clusters, RootCluster, EOC, FREE

LEMMA ChainIs ==
  ASSUME NEW f \in Fats, NEW h, NEW s, IsChain(f, h, s)
  PROVE  ClusterChain(f, h) = s
<1> DEFINE L == Len(s)
           Rest(i) == [k \in 1 .. L - i + 1 |-> s[k + i - 1]]
           Done == [j \in 0 .. L - 1 |-> {1}]
           P(j) == \A n \in j + 1 .. NClusters : Links(f)[n][s[L - j]] = Rest(L - j)
           ok == [j \in 0 .. L - 1 |-> IF P(j) THEN 1 ELSE 0]
<1>1. /\ s \in Seq(Clusters) /\ L \in Nat /\ L >= 1 /\ L <= NClusters /\ NClusters \in Nat
      /\ s[1] = h /\ DOMAIN s = 1..L /\ \A k \in 1..L : s[k] \in Clusters
  BY Numbers DEF IsChain
<1>2. \A k \in 1 .. L - 1 : f[s[k]] = s[k + 1]
  BY DEF IsChain
<1>3. P(0)
  <2> SUFFICES ASSUME NEW n \in 1..NClusters
               PROVE  Links(f)[n][s[L]] = Rest(L)
    BY <1>1
  <2>1. f[s[L]] \notin Clusters /\ n \in 0..NClusters /\ n # 0 /\ s[L] \in Clusters
    BY <1>1, Numbers DEF IsChain
  <2>2. Links(f)[n][s[L]] = <<s[L]>> \o <<>>
    BY <2>1, LinksUnfold, ZenonT(30)
  <2>3. Rest(L) = <<s[L]>>
    BY <1>1
  <2> QED BY <2>2, <2>3
<1>4. ASSUME NEW j \in 0 .. L - 2, P(j)
      PROVE  P(j + 1)
  <2> SUFFICES ASSUME NEW n \in (j + 1) + 1 .. NClusters
               PROVE  Links(f)[n][s[L - (j + 1)]] = Rest(L - (j + 1))
    OBVIOUS
  <2> DEFINE i == L - (j + 1)
  <2>1. i \in 1 .. L - 1 /\ n \in 0..NClusters /\ n # 0 /\ n - 1 \in j + 1 .. NClusters /\ L - j = i + 1
    BY <1>1
  <2> HIDE DEF i
  <2>2. s[i] \in Clusters /\ f[s[i]] = s[i + 1] /\ s[i + 1] \in Clusters
    BY <1>1, <1>2, <2>1
  <2>3. Links(f)[n][s[i]] = <<s[i]>> \o Links(f)[n - 1][s[i + 1]]
    <3>1. Links(f)[n][s[i]] = IF n = 0 THEN <<>>
                              ELSE <<s[i]>> \o (IF f[s[i]] \in Clusters THEN Links(f)[n - 1][f[s[i]]] ELSE <<>>)
      BY <2>1, <2>2, LinksUnfold
    <3> QED BY <2>1, <2>2, <3>1
  <2>4. Links(f)[n - 1][s[i + 1]] = Rest(i + 1)
    <3> HIDE DEF Rest
    <3> QED BY <1>4, <2>1
  <2>5. <<s[i]>> \o Rest(i + 1) = Rest(i)
    <3> DEFINE r == Rest(i + 1)
    <3>1. r \in Seq(Clusters) /\ Len(r) = L - i
      BY <1>1, <2>1
    <3>2. \A k \in 1 .. L - i : r[k] = s[k + i]
      BY <1>1, <2>1
    <3> HIDE DEF r
    <3>3. <<s[i]>> \o r \in Seq(Clusters) /\ Len(<<s[i]>> \o r) = L - i + 1
      BY <1>1, <2>1, <2>2, <3>1
    <3>4. ASSUME NEW k \in 1 .. L - i + 1
          PROVE  (<<s[i]>> \o r)[k] = s[k + i - 1]
      <4>1. CASE k = 1
        BY <1>1, <2>1, <2>2, <3>1, <4>1
      <4>2. CASE k # 1
        BY <1>1, <2>1, <2>2, <3>1, <3>2, <4>2
      <4> QED BY <4>1, <4>2
    <3>5. Rest(i) \in Seq(Clusters) /\ Len(Rest(i)) = L - i + 1
      BY <1>1, <2>1
    <3> QED BY <1>1, <2>1, <3>3, <3>4, <3>5, SeqEqual
  <2> HIDE DEF Rest
  <2> QED BY <2>3, <2>4, <2>5 DEF i
<1>5. ok[L - 1] \in Done[L - 1]
  <2>1. ok[0] \in Done[0]
    <3> HIDE DEF P
    <3> QED BY <1>1, <1>3
  <2>2. ASSUME NEW j \in 0 .. (L - 1) - 1, ok[j] \in Done[j]
        PROVE  ok[j + 1] \in Done[j + 1]
    <3>1. j \in 0 .. L - 1 /\ j + 1 \in 0 .. L - 1 /\ j \in 0 .. L - 2
      BY <1>1
    <3> HIDE DEF P
    <3> QED BY <1>4, <2>2, <3>1
  <2>3. L - 1 \in Nat
    BY <1>1
  <2> HIDE DEF ok, Done
  <2> QED BY <2>1, <2>2, <2>3, Rounds
<1>6. P(L - 1)
  <2> HIDE DEF P
  <2> QED BY <1>1, <1>5
<1>7. Links(f)[NClusters][s[1]] = Rest(1)
  <2>1. NClusters \in (L - 1) + 1 .. NClusters /\ L - (L - 1) = 1
    BY <1>1
  <2> HIDE DEF Rest
  <2> QED BY <1>6, <2>1
<1>8. Rest(1) = s
  BY <1>1
<1>9. h \in Clusters
  BY <1>1
<1> QED BY <1>1, <1>7, <1>8, <1>9, ChainIsLinks

-----------------------------------------------------------------------------
(***************************************************************************)
(* The heads H of a FAT: every one begins a chain, and the chains are      *)
(* apart.  What is changed in the FAT outside a chain leaves it alone.     *)
(***************************************************************************)
On(f, h) == ToSet(ClusterChain(f, h))

HasChain(f, h) == IsChain(f, h, ClusterChain(f, h))

ChainsOK(f, H) ==
  /\ H \subseteq Clusters
  /\ \A h \in H : HasChain(f, h)
  /\ \A g, h \in H : g # h => On(f, g) \cap On(f, h) = {}

LEMMA OnChain ==
  ASSUME NEW f \in Fats, NEW h, HasChain(f, h)
  PROVE  /\ ClusterChain(f, h) \in Seq(Clusters) /\ Len(ClusterChain(f, h)) \in 1..NClusters
         /\ DOMAIN ClusterChain(f, h) = 1..Len(ClusterChain(f, h))
         /\ On(f, h) \subseteq Clusters /\ h \in On(f, h) /\ h \in Clusters
         /\ \A k \in 1..Len(ClusterChain(f, h)) : ClusterChain(f, h)[k] \in On(f, h)
         /\ \A c \in On(f, h) : f[c] # FREE
         /\ Last(ClusterChain(f, h)) \in On(f, h) /\ f[Last(ClusterChain(f, h))] = EOC
<1> DEFINE s == ClusterChain(f, h)
<1>1. /\ s \in Seq(Clusters) /\ Len(s) \in 1..NClusters /\ s[1] = h
      /\ \A k \in 1 .. Len(s) - 1 : f[s[k]] = s[k + 1]
      /\ f[s[Len(s)]] = EOC
  BY DEF HasChain, IsChain
<1>2. On(f, h) = {s[k] : k \in DOMAIN s}
  BY DEF On, ToSet
<1> HIDE DEF s
<1>3. Len(s) \in Nat /\ Len(s) >= 1 /\ DOMAIN s = 1..Len(s) /\ \A k \in 1..Len(s) : s[k] \in Clusters
  BY <1>1, Numbers
<1>4. \A k \in 1..Len(s) : s[k] \in On(f, h)
  BY <1>2, <1>3
<1>5. ASSUME NEW k \in 1..Len(s)
      PROVE  f[s[k]] # FREE
  <2>1. CASE k = Len(s)
    BY <1>1, <2>1, Numbers
  <2>2. CASE k # Len(s)
    <3>1. k \in 1 .. Len(s) - 1 /\ k + 1 \in 1..Len(s)
      <4>1. Len(s) \in Nat
        BY <1>3
      <4> QED BY <2>2, <4>1
    <3> QED BY <1>1, <1>3, <3>1, Numbers
  <2> QED BY <2>1, <2>2
<1>6. On(f, h) \subseteq Clusters /\ \A c \in On(f, h) : f[c] # FREE
  BY <1>2, <1>3, <1>5
<1>7. 1 \in 1..Len(s) /\ Len(s) \in 1..Len(s)
  BY <1>3
<1>8. h \in On(f, h) /\ s[Len(s)] \in On(f, h)
  BY <1>1, <1>4, <1>7
<1> QED BY <1>1, <1>3, <1>4, <1>6, <1>8 DEF s, Last

LEMMA SameChain ==
  ASSUME NEW f \in Fats, NEW h, HasChain(f, h), NEW g \in Fats, \A c \in On(f, h) : g[c] = f[c]
  PROVE  ClusterChain(g, h) = ClusterChain(f, h) /\ HasChain(g, h) /\ On(g, h) = On(f, h)
<1> DEFINE s == ClusterChain(f, h)
<1>1. /\ s \in Seq(Clusters) /\ Len(s) \in 1..NClusters /\ s[1] = h
      /\ \A k \in 1 .. Len(s) - 1 : f[s[k]] = s[k + 1]
      /\ f[s[Len(s)]] = EOC
      /\ \A j, k \in 1..Len(s) : s[j] = s[k] => j = k
  BY DEF HasChain, IsChain
<1>2. \A k \in 1..Len(s) : s[k] \in On(f, h)
  BY OnChain
<1> HIDE DEF s
<1>3. \A k \in 1..Len(s) : g[s[k]] = f[s[k]]
  BY <1>2
<1>4. Len(s) \in 1..Len(s) /\ \A k \in 1 .. Len(s) - 1 : k \in 1..Len(s)
  BY <1>1, Numbers
<1>5. IsChain(g, h, s)
  BY <1>1, <1>3, <1>4 DEF IsChain
<1>6. ClusterChain(g, h) = s
  BY <1>5, ChainIs
<1> QED BY <1>5, <1>6 DEF s, On, HasChain

LEMMA SameChains ==
  ASSUME NEW f \in Fats, NEW H, ChainsOK(f, H), NEW g \in Fats, NEW K \in SUBSET H,
         \A h \in K : \A c \in On(f, h) : g[c] = f[c]
  PROVE  /\ ChainsOK(g, K)
         /\ \A h \in K : ClusterChain(g, h) = ClusterChain(f, h) /\ On(g, h) = On(f, h)
<1>1. \A h \in K : /\ ClusterChain(g, h) = ClusterChain(f, h)
                   /\ HasChain(g, h) /\ On(g, h) = On(f, h)
  BY SameChain DEF ChainsOK
<1> QED BY <1>1 DEF ChainsOK

LEMMA ChainElements ==
  ASSUME NEW f \in Fats, NEW H, ChainsOK(f, H), NEW h \in H
  PROVE  /\ HasChain(f, h) /\ h \in Clusters /\ h \in On(f, h) /\ On(f, h) \subseteq Clusters
         /\ \A c \in On(f, h) : f[c] # FREE
         /\ Last(ClusterChain(f, h)) \in On(f, h) /\ f[Last(ClusterChain(f, h))] = EOC
         /\ ClusterChain(f, h) \in Seq(Clusters) /\ Len(ClusterChain(f, h)) \in 1..NClusters
         /\ \A g \in H : \A c \in On(f, g) : c \in On(f, h) => g = h
<1>1. HasChain(f, h)
  BY DEF ChainsOK
<1>2. \A g \in H : \A c \in On(f, g) : c \in On(f, h) => g = h
  BY DEF ChainsOK
<1> QED BY <1>1, <1>2, OnChain

(***************************************************************************)
(* A cluster that is allocated is a chain of its own.                      *)
(***************************************************************************)
Allocated(f, g, new) ==
  /\ new \in Clusters /\ f[new] = FREE
  /\ g \in Fats /\ g[new] = EOC /\ \A c \in Clusters \ {new} : g[c] = f[c]

LEMMA NewChain ==
  ASSUME NEW f \in Fats, NEW H, ChainsOK(f, H), NEW g, NEW new, Allocated(f, g, new),
         NEW J, J = H \cup {new}
  PROVE  /\ new \notin H /\ ChainsOK(g, J)
         /\ ClusterChain(g, new) = <<new>> /\ On(g, new) = {new}
         /\ \A h \in H : /\ ClusterChain(g, h) = ClusterChain(f, h) /\ On(g, h) = On(f, h)
                         /\ new \notin On(f, h)
<1>1. /\ new \in Clusters /\ f[new] = FREE
      /\ g \in Fats /\ g[new] = EOC /\ \A c \in Clusters : c # new => g[c] = f[c]
  BY DEF Allocated
<1>2. \A h \in H : new \notin On(f, h)
  BY <1>1, ChainElements
<1>3. \A h \in H : \A c \in On(f, h) : g[c] = f[c]
  BY <1>1, <1>2, ChainElements
<1>4. ChainsOK(g, H) /\ \A h \in H : ClusterChain(g, h) = ClusterChain(f, h) /\ On(g, h) = On(f, h)
  <2>1. H \in SUBSET H
    OBVIOUS
  <2> QED BY <1>1, <1>3, <2>1, SameChains
<1>5. IsChain(g, new, <<new>>)
  BY <1>1, Numbers DEF IsChain
<1>6. ClusterChain(g, new) = <<new>>
  BY <1>1, <1>5, ChainIs
<1>7. On(g, new) = {new}
  BY <1>6 DEF On, ToSet
<1>8. new \notin H
  BY <1>2, ChainElements
<1>9. HasChain(g, new)
  BY <1>5, <1>6 DEF HasChain
<1>10. ChainsOK(g, H \cup {new})
  <2>1. H \cup {new} \subseteq Clusters /\ \A h \in H \cup {new} : HasChain(g, h)
    BY <1>1, <1>4, <1>9 DEF ChainsOK
  <2>2. ASSUME NEW a \in H \cup {new}, NEW b \in H \cup {new}, a # b
        PROVE  On(g, a) \cap On(g, b) = {}
    <3>1. CASE a = new
      BY <1>2, <1>4, <1>7, <2>2, <3>1
    <3>2. CASE b = new
      BY <1>2, <1>4, <1>7, <2>2, <3>2
    <3>3. CASE a # new /\ b # new
      BY <1>4, <2>2, <3>3 DEF ChainsOK
    <3> QED BY <3>1, <3>2, <3>3
  <2> QED BY <2>1, <2>2 DEF ChainsOK
<1> QED BY <1>1, <1>2, <1>4, <1>6, <1>7, <1>8, <1>10

(***************************************************************************)
(* A chain cannot hold all clusters as long as one is free.                *)
(***************************************************************************)
LEMMA RoomForOne ==
  ASSUME NEW f \in Fats, NEW h, HasChain(f, h), NEW new \in Clusters, f[new] = FREE
  PROVE  Len(ClusterChain(f, h)) < NClusters
<1> DEFINE s == ClusterChain(f, h)
           T == Clusters \ {new}
<1>1. /\ s \in Seq(Clusters) /\ Len(s) \in 1..NClusters
      /\ \A j, k \in 1..Len(s) : s[j] = s[k] => j = k
  BY DEF HasChain, IsChain
<1>2. \A k \in 1..Len(s) : s[k] \in T
  BY OnChain
<1> HIDE DEF s
<1>3. DOMAIN s = 1..Len(s) /\ Len(s) \in Nat /\ NClusters \in Nat /\ Len(s) <= NClusters
  BY <1>1, Numbers
<1>4. s \in [1..Len(s) -> T]
  BY <1>1, <1>2, <1>3
<1>5. IsFiniteSet(Clusters) /\ Cardinality(Clusters) = NClusters
  <2>1. 2 \in Int /\ NClusters + 1 \in Int /\ ~(2 > NClusters + 1) /\ (NClusters + 1) - 2 + 1 = NClusters
    BY Numbers
  <2> QED BY <2>1, FS_Interval DEF Clusters
<1>6. IsFiniteSet(T) /\ Cardinality(T) = NClusters - 1
  BY <1>5, FS_RemoveElement
<1>7. IsFiniteSet(1..Len(s)) /\ Cardinality(1..Len(s)) = Len(s)
  <2>1. 1 \in Int /\ Len(s) \in Int /\ (IF 1 > Len(s) THEN 0 ELSE Len(s) - 1 + 1) = Len(s)
    BY <1>1, <1>3
  <2> QED BY <2>1, FS_Interval
<1>8. ~(NClusters - 1 < Len(s))
  <2> SUFFICES ASSUME NClusters - 1 < Len(s)
               PROVE  FALSE
    OBVIOUS
  <2> HIDE DEF T
  <2>1. \E x, y \in 1..Len(s) : x # y /\ s[x] = s[y]
    BY <1>4, <1>6, <1>7, FS_PigeonHole
  <2> QED BY <1>1, <2>1
<1> QED BY <1>3, <1>8 DEF s

(***************************************************************************)
(* A free cluster is linked to the end of a chain.                         *)
(***************************************************************************)
LEMMA LongerChain ==
  ASSUME NEW f \in Fats, NEW H, ChainsOK(f, H), NEW new \in Clusters, f[new] = FREE, NEW d \in H,
         NEW g \in Fats, g[new] = EOC, g[Last(ClusterChain(f, d))] = new,
         \A c \in Clusters \ {new, Last(ClusterChain(f, d))} : g[c] = f[c]
  PROVE  /\ ChainsOK(g, H)
         /\ ClusterChain(g, d) = Append(ClusterChain(f, d), new) /\ On(g, d) = On(f, d) \cup {new}
         /\ \A h \in H : /\ new \notin On(f, h)
                         /\ h # d => ClusterChain(g, h) = ClusterChain(f, h) /\ On(g, h) = On(f, h)
<1> DEFINE s == ClusterChain(f, d)
           n == Append(s, new)
<1>0. /\ s \in Seq(Clusters) /\ Len(s) \in 1..NClusters /\ s[1] = d
      /\ \A k \in 1 .. Len(s) - 1 : f[s[k]] = s[k + 1]
      /\ \A j, k \in 1..Len(s) : s[j] = s[k] => j = k
      /\ HasChain(f, d)
  BY DEF ChainsOK, HasChain, IsChain
<1>1. \A k \in 1..Len(s) : s[k] \in On(f, d) /\ s[k] \in Clusters
  BY <1>0, OnChain
<1>2. \A h \in H : new \notin On(f, h)
  BY ChainElements
<1>3. Len(s) < NClusters
  BY <1>0, RoomForOne
<1>4. On(f, d) = {s[k] : k \in DOMAIN s} /\ Last(ClusterChain(f, d)) = s[Len(s)]
  BY DEF On, ToSet, Last
<1>5. g[s[Len(s)]] = new /\ \A c \in Clusters \ {new, s[Len(s)]} : g[c] = f[c]
  BY <1>4
<1>6. ASSUME NEW h \in H, h # d
      PROVE  \A c \in On(f, h) : g[c] = f[c]
  <2>1. s[Len(s)] \in On(f, d)
    BY <1>0, <1>4, ChainElements
  <2> QED BY <1>2, <1>5, <1>6, <2>1, ChainElements
<1> HIDE DEF s
<1>7. /\ n \in Seq(Clusters) /\ Len(n) = Len(s) + 1 /\ DOMAIN n = 1 .. Len(s) + 1
      /\ \A k \in 1..Len(s) : n[k] = s[k]
      /\ n[Len(s) + 1] = new
  BY <1>0
<1>8. /\ Len(s) \in Nat /\ Len(s) >= 1 /\ NClusters \in Nat /\ Len(s) + 1 <= NClusters
      /\ DOMAIN s = 1..Len(s)
  BY <1>0, <1>3, Numbers
<1> HIDE DEF n
<1>9. IsChain(g, d, n)
  <2>1. n[1] = d /\ Len(n) \in 1..NClusters
    BY <1>0, <1>7, <1>8
  <2>2. ASSUME NEW k \in 1..Len(s)
        PROVE  g[n[k]] = n[k + 1]
    <3>1. CASE k = Len(s)
      BY <1>5, <1>7, <3>1
    <3>2. CASE k # Len(s)
      <4>1. k \in 1 .. Len(s) - 1 /\ k + 1 \in 1..Len(s) /\ Len(s) \in 1..Len(s)
        <5>1. Len(s) \in Nat
          BY <1>8
        <5> QED BY <3>2, <5>1
      <4>2. s[k] # s[Len(s)] /\ s[k] # new /\ s[k] \in Clusters
        BY <1>0, <1>1, <1>2, <3>2, <4>1
      <4>3. g[s[k]] = s[k + 1]
        BY <1>0, <1>5, <4>1, <4>2
      <4> QED BY <1>7, <4>1, <4>3
    <3> QED BY <3>1, <3>2
  <2>3. g[n[Len(n)]] = EOC
    BY <1>7
  <2>4. ASSUME NEW j \in 1..Len(n), NEW k \in 1..Len(n), n[j] = n[k]
        PROVE  j = k
    <3>1. \A i \in 1..Len(s) : n[i] = s[i] /\ s[i] # new
      BY <1>1, <1>2, <1>7
    <3>2. \A i \in 1..Len(n) : i \in 1..Len(s) \/ i = Len(s) + 1
      BY <1>7, <1>8
    <3> QED BY <1>0, <1>7, <2>4, <3>1, <3>2
  <2>5. Len(n) - 1 = Len(s)
    BY <1>7, <1>8
  <2> QED BY <1>7, <2>1, <2>2, <2>3, <2>4, <2>5 DEF IsChain
<1>10. ClusterChain(g, d) = n
  BY <1>9, ChainIs
<1>11. On(g, d) = On(f, d) \cup {new}
  <2>1. On(g, d) = {n[k] : k \in 1 .. Len(s) + 1}
    BY <1>7, <1>10 DEF On, ToSet
  <2>2. \A k \in 1 .. Len(s) + 1 : k \in 1..Len(s) \/ k = Len(s) + 1
    BY <1>8
  <2>3. Len(s) + 1 \in 1 .. Len(s) + 1 /\ \A k \in 1..Len(s) : k \in 1 .. Len(s) + 1
    BY <1>8
  <2>4. On(f, d) = {s[k] : k \in 1..Len(s)}
    BY <1>4, <1>8
  <2> QED BY <1>7, <2>1, <2>2, <2>3, <2>4
<1>12. \A h \in H \ {d} : ClusterChain(g, h) = ClusterChain(f, h) /\ On(g, h) = On(f, h) /\ HasChain(g, h)
  BY <1>6, SameChain DEF ChainsOK
<1>13. ChainsOK(g, H)
  <2>1. HasChain(g, d)
    BY <1>9, <1>10 DEF HasChain
  <2>2. ASSUME NEW a \in H, NEW b \in H, a # b
        PROVE  On(g, a) \cap On(g, b) = {}
    <3>1. On(f, a) \cap On(f, b) = {}
      BY <2>2 DEF ChainsOK
    <3>2. CASE a = d
      BY <1>2, <1>11, <1>12, <2>2, <3>1, <3>2
    <3>3. CASE b = d
      BY <1>2, <1>11, <1>12, <2>2, <3>1, <3>3
    <3>4. CASE a # d /\ b # d
      BY <1>12, <3>1, <3>4
    <3> QED BY <3>2, <3>3, <3>4
  <2>3. H \subseteq Clusters
    BY DEF ChainsOK
  <2>4. \A h \in H : HasChain(g, h)
    BY <1>12, <2>1
  <2> QED BY <2>2, <2>3, <2>4 DEF ChainsOK
<1> QED BY <1>2, <1>10, <1>11, <1>12, <1>13 DEF s, n

-----------------------------------------------------------------------------
(***************************************************************************)
(* The slots of a directory.  Position n of a scan is slot Col(n) of       *)
(* cluster Row(n) of the chain.                                            *)
(***************************************************************************)
Slots(f, d) == On(f, d) \X (1..SlotsPerCluster)

Row(n) == (n - 1) \div SlotsPerCluster + 1
Col(n) == ((n - 1) % SlotsPerCluster) + 1

LEMMA RowCol ==
  ASSUME NEW L \in Nat
  PROVE  /\ \A n \in 1 .. L * SlotsPerCluster :
              /\ n \in Nat /\ n # 0 /\ Row(n) \in 1..L /\ Col(n) \in 1..SlotsPerCluster
              /\ n = SlotsPerCluster * (Row(n) - 1) + Col(n)
         /\ \A k \in 1..L, r \in 1..SlotsPerCluster :
              \E n \in 1 .. L * SlotsPerCluster : Row(n) = k /\ Col(n) = r
<1> DEFINE S == SlotsPerCluster
<1>0. S \in Nat \ {0} /\ S \in Nat /\ L * S \in Nat
  BY Numbers
<1>1. ASSUME NEW n \in 1 .. L * S
      PROVE  /\ n \in Nat /\ n # 0 /\ Row(n) \in 1..L /\ Col(n) \in 1..S
             /\ n = S * (Row(n) - 1) + Col(n)
  <2> DEFINE a == n - 1
             x == a \div S
             y == a % S
  <2>1. a \in 0 .. L * S - 1 /\ a \in Nat /\ n = a + 1 /\ n \in Nat /\ n # 0
    BY <1>0
  <2>2. x \in 0 .. L - 1
    <3> HIDE DEF a
    <3> QED BY <1>0, <2>1, DivBelow
  <2>3. y \in 0 .. S - 1 /\ a = S * x + y
    <3> HIDE DEF a
    <3> QED BY <1>0, <2>1
  <2>4. Row(n) = x + 1 /\ Col(n) = y + 1
    BY DEF Row, Col
  <2> HIDE DEF a, x, y
  <2>5. x \in Nat /\ Row(n) - 1 = x
    BY <1>0, <2>2, <2>4
  <2>6. Row(n) \in 1..L /\ Col(n) \in 1..S
    BY <1>0, <2>2, <2>3, <2>4
  <2>7. S * x \in Nat
    BY <1>0, <2>5
  <2>8. n = S * x + (y + 1)
    <3> DEFINE sx == S * x
    <3> HIDE DEF sx
    <3>1. sx \in Nat /\ a = sx + y
      BY <2>3, <2>7 DEF sx
    <3>2. n = sx + (y + 1)
      BY <1>0, <2>1, <2>3, <3>1
    <3> QED BY <3>2 DEF sx
  <2> QED BY <2>1, <2>4, <2>5, <2>6, <2>8
<1>2. ASSUME NEW k \in 1..L, NEW r \in 1..S
      PROVE  \E n \in 1 .. L * S : Row(n) = k /\ Col(n) = r
  <2> DEFINE p == S * (k - 1)
             n == p + r
  <2>1. k - 1 \in Nat /\ r - 1 \in 0 .. S - 1 /\ p \in Nat
    BY <1>0
  <2>2. p + S <= L * S
    <3>1. k <= L => S * k <= S * L
      BY <1>0
    <3>2. S * k = S * (k - 1) + S
      BY <1>0
    <3>3. S * L = L * S
      BY <1>0
    <3> QED BY <3>1, <3>2, <3>3
  <2>3. (S * (k - 1) + (r - 1)) \div S = k - 1 /\ (S * (k - 1) + (r - 1)) % S = r - 1
    BY <1>0, <2>1, DivMod
  <2>4. (p + (r - 1)) \div S = k - 1 /\ (p + (r - 1)) % S = r - 1
    BY <2>3
  <2> HIDE DEF p
  <2>5. n \in 1 .. L * S /\ n - 1 = p + (r - 1)
    <3> DEFINE ls == L * S
    <3> HIDE DEF ls
    <3>1. ls \in Nat /\ p + S <= ls
      BY <1>0, <2>2 DEF ls
    <3>2. n \in 1..ls /\ n - 1 = p + (r - 1)
      BY <1>0, <2>1, <3>1
    <3> QED BY <3>2 DEF ls
  <2> HIDE DEF n
  <2>6. Row(n) = k /\ Col(n) = r
    BY <1>0, <2>1, <2>4, <2>5 DEF Row, Col
  <2> QED BY <2>5, <2>6
<1> QED BY <1>1, <1>2

LEMMA RowColOrder ==
  ASSUME NEW L \in Nat, NEW a \in 1 .. L * SlotsPerCluster, NEW b \in 1 .. L * SlotsPerCluster, a < b
  PROVE  Row(a) < Row(b) \/ (Row(a) = Row(b) /\ Col(a) < Col(b))
<1> DEFINE S == SlotsPerCluster
           x == Row(a) - 1
           y == Row(b) - 1
           sx == S * x
           sy == S * y
<1>0. S \in Nat \ {0} /\ S \in Nat
  BY Numbers
<1>1. /\ a \in Nat /\ b \in Nat /\ x \in Nat /\ y \in Nat /\ Col(a) \in 1..S /\ Col(b) \in 1..S
      /\ a = sx + Col(a) /\ b = sy + Col(b)
  <2>1. \A n \in 1 .. L * S : /\ n \in Nat /\ Row(n) \in 1..L /\ Col(n) \in 1..S
                              /\ n = S * (Row(n) - 1) + Col(n)
    BY RowCol
  <2>2. \A k \in 1..L : k - 1 \in Nat
    OBVIOUS
  <2> QED BY <2>1, <2>2
<1>2. Row(a) = x + 1 /\ Row(b) = y + 1
  <2>1. Row(a) \in 1..L /\ Row(b) \in 1..L
    BY RowCol
  <2> QED BY <2>1
<1> HIDE DEF x, y
<1>3. sx \in Nat /\ sy \in Nat
  BY <1>0, <1>1
<1>4. x >= y + 1 => sx >= sy + S
  <2>1. x >= y + 1 => S * x >= S * (y + 1)
    BY <1>0, <1>1
  <2>2. S * (y + 1) = S * y + S
    BY <1>0, <1>1
  <2> QED BY <2>1, <2>2
<1>5. x = y => sx = sy
  OBVIOUS
<1> HIDE DEF sx, sy
<1> QED BY <1>0, <1>1, <1>2, <1>3, <1>4, <1>5

LEMMA PlacesAre ==
  ASSUME NEW m, m.fat \in Fats, NEW d, HasChain(m.fat, d)
  PROVE  /\ Places(m, d) \in Seq(Slots(m.fat, d))
         /\ Len(Places(m, d)) = Len(ClusterChain(m.fat, d)) * SlotsPerCluster
         /\ Len(ClusterChain(m.fat, d)) \in Nat /\ Len(Places(m, d)) \in Nat
         /\ DOMAIN Places(m, d) = 1..Len(Places(m, d))
         /\ \A n \in 1..Len(Places(m, d)) :
              /\ Places(m, d)[n] = <<ClusterChain(m.fat, d)[Row(n)], Col(n)>>
              /\ Places(m, d)[n] \in Slots(m.fat, d)
         /\ \A p \in Slots(m.fat, d) : \E n \in 1..Len(Places(m, d)) : Places(m, d)[n] = p
<1> DEFINE s == ClusterChain(m.fat, d)
           L == Len(s)
           N == L * SlotsPerCluster
           P == Places(m, d)
<1>1. s \in Seq(Clusters) /\ L \in Nat /\ DOMAIN s = 1..L /\ N \in Nat
  BY OnChain, Numbers
<1>2. \A k \in 1..L : s[k] \in On(m.fat, d)
  BY OnChain
<1>3. On(m.fat, d) = {s[k] : k \in 1..L}
  BY <1>1 DEF On, ToSet
<1>4. P = [n \in 1..N |-> <<s[Row(n)], Col(n)>>]
  BY DEF Places, Row, Col
<1> HIDE DEF s, P
<1>5. ASSUME NEW n \in 1..N
      PROVE  P[n] = <<s[Row(n)], Col(n)>> /\ P[n] \in Slots(m.fat, d)
  <2>1. Row(n) \in 1..L /\ Col(n) \in 1..SlotsPerCluster
    BY <1>1, RowCol
  <2>2. P[n] = <<s[Row(n)], Col(n)>>
    BY <1>4
  <2> QED BY <1>2, <2>1, <2>2 DEF Slots
<1>6. ASSUME NEW p \in Slots(m.fat, d)
      PROVE  \E n \in 1..N : P[n] = p
  <2>1. PICK k \in 1..L, r \in 1..SlotsPerCluster : p = <<s[k], r>>
    BY <1>3 DEF Slots
  <2>2. PICK n \in 1..N : Row(n) = k /\ Col(n) = r
    BY <1>1, RowCol
  <2> QED BY <1>5, <2>1, <2>2
<1> HIDE DEF N, L
<1>7. DOMAIN P = 1..N /\ P \in [1..N -> Slots(m.fat, d)]
  BY <1>4, <1>5
<1>8. P \in Seq(Slots(m.fat, d)) /\ Len(P) = N
  BY <1>1, <1>7
<1> QED BY <1>1, <1>5, <1>6, <1>7, <1>8 DEF s, L, N, P

LEMMA FindIs ==
  ASSUME NEW m, m.fat \in Fats, NEW d, HasChain(m.fat, d), NEW name
  PROVE  /\ Find(m, d, name) \in Nat
         /\ Find(m, d, name) = 0 => \A p \in Slots(m.fat, d) : At(m, p).name # name
         /\ Find(m, d, name) # 0 =>
              /\ Find(m, d, name) \in 1..Len(Places(m, d))
              /\ Places(m, d)[Find(m, d, name)] \in Slots(m.fat, d)
              /\ At(m, Places(m, d)[Find(m, d, name)]).name = name
              /\ \A j \in 1..Len(Places(m, d)) : At(m, Places(m, d)[j]).name = name => Find(m, d, name) <= j
<1> DEFINE P == Places(m, d)
           I == {i \in 1..Len(P) : At(m, P[i]).name = name}
<1>1. Len(P) \in Nat
      /\ (\A n \in 1..Len(P) : P[n] \in Slots(m.fat, d))
      /\ (\A p \in Slots(m.fat, d) : \E n \in 1..Len(P) : P[n] = p)
  BY PlacesAre
<1>2. Find(m, d, name) = IF I # {} THEN Min(I) ELSE 0
  BY DEF Find, SelectInSeq
<1> HIDE DEF P
<1>3. I \in SUBSET Nat
  BY <1>1
<1>4. I # {} => Min(I) \in I /\ \A x \in I : Min(I) <= x
  <2> HIDE DEF I
  <2> QED BY <1>3, MinOfNat
<1>5. CASE I = {}
  BY <1>1, <1>2, <1>5 DEF P
<1>6. CASE I # {}
  <2>1. Find(m, d, name) \in I /\ \A x \in I : Find(m, d, name) <= x
    <3> HIDE DEF I
    <3> QED BY <1>2, <1>4, <1>6
  <2>2. Find(m, d, name) \in 1..Len(P) /\ At(m, P[Find(m, d, name)]).name = name
    BY <2>1
  <2>3. \A j \in 1..Len(P) : At(m, P[j]).name = name => Find(m, d, name) <= j
    BY <1>1, <2>1
  <2> HIDE DEF I
  <2> QED BY <1>1, <2>2, <2>3 DEF P
<1> QED BY <1>5, <1>6

FreeSlot(m, d) == SelectInSeq(Places(m, d), LAMBDA p : IsFree(At(m, p)))

LEMMA FreeSlotIs ==
  ASSUME NEW m, m.fat \in Fats, NEW d, HasChain(m.fat, d)
  PROVE  /\ FreeSlot(m, d) \in Nat
         /\ FreeSlot(m, d) = 0 => \A p \in Slots(m.fat, d) : ~IsFree(At(m, p))
         /\ FreeSlot(m, d) # 0 =>
              /\ FreeSlot(m, d) \in 1..Len(Places(m, d))
              /\ Places(m, d)[FreeSlot(m, d)] \in Slots(m.fat, d)
              /\ IsFree(At(m, Places(m, d)[FreeSlot(m, d)]))
              /\ \A j \in 1..Len(Places(m, d)) : IsFree(At(m, Places(m, d)[j])) => FreeSlot(m, d) <= j
<1> DEFINE P == Places(m, d)
           I == {i \in 1..Len(P) : IsFree(At(m, P[i]))}
<1>1. Len(P) \in Nat
      /\ (\A n \in 1..Len(P) : P[n] \in Slots(m.fat, d))
      /\ (\A p \in Slots(m.fat, d) : \E n \in 1..Len(P) : P[n] = p)
  BY PlacesAre
<1>2. FreeSlot(m, d) = IF I # {} THEN Min(I) ELSE 0
  BY DEF FreeSlot, SelectInSeq
<1> HIDE DEF P
<1>3. I \in SUBSET Nat
  BY <1>1
<1>4. I # {} => Min(I) \in I /\ \A x \in I : Min(I) <= x
  <2> HIDE DEF I
  <2> QED BY <1>3, MinOfNat
<1>5. CASE I = {}
  BY <1>1, <1>2, <1>5 DEF P
<1>6. CASE I # {}
  <2>1. FreeSlot(m, d) \in I /\ \A x \in I : FreeSlot(m, d) <= x
    <3> HIDE DEF I
    <3> QED BY <1>2, <1>4, <1>6
  <2>2. FreeSlot(m, d) \in 1..Len(P) /\ IsFree(At(m, P[FreeSlot(m, d)]))
    BY <2>1
  <2>3. \A j \in 1..Len(P) : IsFree(At(m, P[j])) => FreeSlot(m, d) <= j
    BY <1>1, <2>1
  <2> HIDE DEF I
  <2> QED BY <1>1, <2>2, <2>3 DEF P
<1> QED BY <1>5, <1>6

-----------------------------------------------------------------------------
(***************************************************************************)
(* What holds of the disk, of the memory, and between them.                *)
(*                                                                         *)
(* H are the heads of the FAT in memory, K those of the FAT on the disk,   *)
(* and D the heads that are directories.  Of a directory that was removed  *)
(* the subdirectories stay in D: they are out of the tree, but nothing has *)
(* freed them.                                                             *)
(***************************************************************************)
RawEntries == [name : Names \cup {END, DELETED, LABEL, DOT, DOTDOT}, is_dir : BOOLEAN,
               cluster : Clusters \cup {0}, size : 0 .. MaxSize]
DirTabs == [Clusters -> [1..SlotsPerCluster -> RawEntries]]
DataTabs == [Clusters -> [0 .. BytesPerCluster - 1 -> Bytes]]
Inodes == [first_cluster : Clusters \cup {0}, size : 0..MaxSize, is_dir : BOOLEAN]

Ent(dr, p) == dr[p[1]][p[2]]

Covered(f, h, size) == size <= BytesPerCluster * Len(ClusterChain(f, h))

EntryOK(f, H, D, e) ==
  \/ e.cluster = 0 /\ ~e.is_dir /\ e.size = 0
  \/ /\ e.cluster \in H \ {RootCluster} /\ (e.is_dir <=> e.cluster \in D)
     /\ ~e.is_dir => Covered(f, e.cluster, e.size)

\* The slots of a chain s: behind the end there is nothing, and a name is
\* there once.
Earlier(j, a, k, b) == j < k \/ (j = k /\ a < b)

CleanDir(dr, s) ==
  \A j, k \in 1..Len(s), a, b \in 1..SlotsPerCluster : Earlier(j, a, k, b) =>
    /\ dr[s[j]][a].name = END => IsFree(dr[s[k]][b])
    /\ ~IsFree(dr[s[k]][b]) => dr[s[j]][a].name # dr[s[k]][b].name

AllEntriesOK(f, dr, H, D) ==
  \A d \in D : \A p \in Slots(f, d) :
    Listed(Ent(dr, p)) => EntryOK(f, H, D, Ent(dr, p)) /\ Ent(dr, p).cluster # d

ListedOnce(f, dr, D) ==
  \A d, e \in D : \A p \in Slots(f, d), q \in Slots(f, e) :
    /\ Listed(Ent(dr, p)) /\ Listed(Ent(dr, q))
    /\ Ent(dr, p).cluster = Ent(dr, q).cluster /\ Ent(dr, p).cluster # 0
    => p = q

DiskOK(f, dr, H, D) ==
  /\ f \in Fats /\ dr \in DirTabs /\ ChainsOK(f, H)
  /\ RootCluster \in D /\ D \subseteq H
  /\ AllEntriesOK(f, dr, H, D) /\ ListedOnce(f, dr, D)
  /\ \A d \in D : CleanDir(dr, ClusterChain(f, d))

TableOK(t) ==
  /\ t = [inodes |-> t.inodes, next_inode |-> t.next_inode]
  /\ t.next_inode \in Nat /\ t.next_inode >= 2
  /\ DOMAIN t.inodes \subseteq 1 .. t.next_inode - 1 /\ t.inodes \in [DOMAIN t.inodes -> Inodes]
  /\ 1 \in DOMAIN t.inodes /\ t.inodes[1].first_cluster = RootCluster

InodeOK(f, H, D, ino) ==
  \/ ino.first_cluster = 0 /\ ~ino.is_dir /\ ino.size = 0
  \/ /\ ino.first_cluster \in H /\ (ino.is_dir <=> ino.first_cluster \in D)
     /\ ~ino.is_dir => Covered(f, ino.first_cluster, ino.size)

InodesOK(f, t, H, D) ==
  /\ \A i \in DOMAIN t.inodes : InodeOK(f, H, D, t.inodes[i])
  /\ \A i, j \in DOMAIN t.inodes : t.inodes[i].first_cluster = t.inodes[j].first_cluster => i = j

\* No entry of the disk claims more than the inode of its file.
Agree(df, dr, t, D) ==
  \A i \in DOMAIN t.inodes : \A d \in D : \A p \in Slots(df, d) :
    /\ Listed(Ent(dr, p)) /\ Ent(dr, p).cluster # 0 /\ ~t.inodes[i].is_dir
    /\ Ent(dr, p).cluster = t.inodes[i].first_cluster
    => Ent(dr, p).size <= t.inodes[i].size

\* The FAT in memory is ahead of the one on the disk, but not for directories.
Ahead(f, df, H, K, D) ==
  /\ K \subseteq H
  /\ \A h \in K : Len(ClusterChain(df, h)) <= Len(ClusterChain(f, h))
  /\ \A d \in D : ClusterChain(df, d) = ClusterChain(f, d)

Good(f, df, dr, t, H, K, D) ==
  /\ f \in Fats /\ ChainsOK(f, H)
  /\ DiskOK(df, dr, K, D) /\ Ahead(f, df, H, K, D)
  /\ TableOK(t) /\ InodesOK(f, t, H, D) /\ Agree(df, dr, t, D)

LEMMA SlotFacts ==
  ASSUME NEW f, NEW dr, NEW H, NEW D, DiskOK(f, dr, H, D), NEW d \in D, NEW p \in Slots(f, d)
  PROVE  /\ d \in H /\ HasChain(f, d) /\ p[1] \in On(f, d) /\ p[1] \in Clusters
         /\ p[2] \in 1..SlotsPerCluster /\ p = <<p[1], p[2]>>
         /\ Ent(dr, p) \in RawEntries /\ dr[p[1]] \in [1..SlotsPerCluster -> RawEntries]
         /\ \A e \in D : \A q \in Slots(f, e) : q[1] = p[1] => e = d
<1>1. f \in Fats /\ ChainsOK(f, H) /\ d \in H /\ D \subseteq H /\ dr \in DirTabs
  BY DEF DiskOK
<1>2. HasChain(f, d) /\ On(f, d) \subseteq Clusters
  BY <1>1, ChainElements
<1>3. p[1] \in On(f, d) /\ p[2] \in 1..SlotsPerCluster /\ p = <<p[1], p[2]>>
  BY DEF Slots
<1>4. Ent(dr, p) \in RawEntries /\ dr[p[1]] \in [1..SlotsPerCluster -> RawEntries]
  BY <1>1, <1>2, <1>3 DEF DirTabs, Ent
<1>5. \A e \in D : \A q \in Slots(f, e) : q[1] = p[1] => e = d
  <2>1. \A e \in D : \A q \in Slots(f, e) : q[1] \in On(f, e)
    BY DEF Slots
  <2> QED BY <1>1, <1>3, <2>1, ChainElements
<1> QED BY <1>1, <1>2, <1>3, <1>4, <1>5

LEMMA LenChain ==
  ASSUME NEW f \in Fats, NEW H, ChainsOK(f, H), NEW h \in H
  PROVE  Len(ClusterChain(f, h)) \in Nat
BY ChainElements, Numbers

LEMMA CoveredMore ==
  ASSUME NEW f, NEW h, NEW g, NEW k, NEW size \in Nat, Covered(f, h, size),
         Len(ClusterChain(f, h)) \in Nat, Len(ClusterChain(g, k)) \in Nat,
         Len(ClusterChain(f, h)) <= Len(ClusterChain(g, k))
  PROVE  Covered(g, k, size)
<1> DEFINE x == Len(ClusterChain(f, h))
           y == Len(ClusterChain(g, k))
<1>1. x \in Nat /\ y \in Nat /\ x <= y /\ size <= BytesPerCluster * x /\ BytesPerCluster \in Nat
  BY Numbers DEF Covered
<1> HIDE DEF x, y
<1>2. BytesPerCluster * x <= BytesPerCluster * y /\ BytesPerCluster * x \in Nat /\ BytesPerCluster * y \in Nat
  BY <1>1
<1>3. size <= BytesPerCluster * y
  BY <1>1, <1>2
<1> QED BY <1>3 DEF y, Covered

(***************************************************************************)
(* init: what is on the disk is taken over.                                *)
(***************************************************************************)
LEMMA InternIs ==
  ASSUME NEW t, NEW c, NEW size, NEW is_dir \in BOOLEAN,
         NEW u, u = InternInode(t, c, size, is_dir)
  PROVE
         /\ Matching(t, c, is_dir) # {} => u = t
         /\ Matching(t, c, is_dir) = {} =>
              /\ u = [inodes |-> u.inodes, next_inode |-> u.next_inode]
              /\ u.next_inode = t.next_inode + 1
              /\ DOMAIN u.inodes = DOMAIN t.inodes \cup {t.next_inode}
              /\ u.inodes = [i \in DOMAIN u.inodes |-> u.inodes[i]]
              /\ u.inodes[t.next_inode] = [first_cluster |-> c, size |-> size, is_dir |-> is_dir]
              /\ \A i \in DOMAIN t.inodes : i # t.next_inode => u.inodes[i] = t.inodes[i]
<1> DEFINE ino == [first_cluster |-> c, size |-> size, is_dir |-> is_dir]
           new == [i \in DOMAIN t.inodes \cup {t.next_inode} |-> IF i = t.next_inode THEN ino ELSE t.inodes[i]]
<1>1. Matching(t, c, is_dir) # {} => u = t
  BY DEF InternInode
<1>2. Matching(t, c, is_dir) = {} => u = [inodes |-> new, next_inode |-> t.next_inode + 1]
  BY DEF InternInode
<1>3. /\ DOMAIN new = DOMAIN t.inodes \cup {t.next_inode} /\ new = [i \in DOMAIN new |-> new[i]]
      /\ new[t.next_inode] = ino
      /\ \A i \in DOMAIN t.inodes : i # t.next_inode => new[i] = t.inodes[i]
  OBVIOUS
<1> HIDE DEF new
<1>4. CASE Matching(t, c, is_dir) # {}
  BY <1>1, <1>4
<1>5. CASE Matching(t, c, is_dir) = {}
  <2>1. u.inodes = new /\ u.next_inode = t.next_inode + 1 /\ u = [inodes |-> u.inodes, next_inode |-> u.next_inode]
    BY <1>2, <1>5
  <2> HIDE DEF ino
  <2> QED BY <1>3, <1>5, <2>1 DEF ino
<1> QED BY <1>4, <1>5

LEMMA MountedIs ==
  /\ DOMAIN MountedTable.inodes = {1} /\ MountedTable.next_inode = 2
  /\ MountedTable.inodes[1] = [first_cluster |-> RootCluster, size |-> 0, is_dir |-> TRUE]
  /\ MountedTable = [inodes |-> MountedTable.inodes, next_inode |-> MountedTable.next_inode]
  /\ MountedTable.inodes = [i \in {1} |-> MountedTable.inodes[i]]
<1>1. DOMAIN NoInodes.inodes = {} /\ NoInodes.next_inode = 1
  BY DEF NoInodes
<1> DEFINE u == MountedTable
<1>2. PICK b : b \in BOOLEAN /\ b = TRUE
  OBVIOUS
<1>3. Matching(NoInodes, RootCluster, b) = {}
  BY <1>1 DEF Matching
<1>4. u = InternInode(NoInodes, RootCluster, 0, b) /\ b \in BOOLEAN
  BY <1>2 DEF MountedTable
<1> HIDE DEF u
<1>5. /\ u = [inodes |-> u.inodes, next_inode |-> u.next_inode]
      /\ u.next_inode = NoInodes.next_inode + 1
      /\ DOMAIN u.inodes = DOMAIN NoInodes.inodes \cup {NoInodes.next_inode}
      /\ u.inodes = [i \in DOMAIN u.inodes |-> u.inodes[i]]
      /\ u.inodes[NoInodes.next_inode] = [first_cluster |-> RootCluster, size |-> 0, is_dir |-> b]
  BY <1>3, <1>4, InternIs
<1>6. DOMAIN u.inodes = {1} /\ u.next_inode = 2
  BY <1>1, <1>5
<1> QED BY <1>1, <1>2, <1>5, <1>6 DEF u

LEMMA MountOK ==
  ASSUME NEW df, NEW dr, NEW K, NEW D, DiskOK(df, dr, K, D)
  PROVE  Good(df, df, dr, MountedTable, K, K, D)
<1> DEFINE t == MountedTable
<1>1. df \in Fats /\ ChainsOK(df, K) /\ RootCluster \in D /\ D \subseteq K
  BY DEF DiskOK
<1>2. /\ DOMAIN t.inodes = {1} /\ t.next_inode = 2
      /\ t.inodes[1] = [first_cluster |-> RootCluster, size |-> 0, is_dir |-> TRUE]
      /\ t = [inodes |-> t.inodes, next_inode |-> t.next_inode]
  BY MountedIs
<1> HIDE DEF t
<1>3. \A h \in K : Len(ClusterChain(df, h)) \in Nat
  BY <1>1, LenChain
<1>4. Ahead(df, df, K, K, D)
  BY <1>1, <1>3 DEF Ahead
<1>5. TableOK(t)
  <2>1. t.inodes \in [DOMAIN t.inodes -> Inodes]
    <3>1. t.inodes = [i \in {1} |-> t.inodes[i]]
      BY MountedIs DEF t
    <3>2. t.inodes[1] \in Inodes
      BY <1>2, Numbers, BoundsAssumption DEF Inodes
    <3> QED BY <1>2, <3>1, <3>2
  <2>2. DOMAIN t.inodes \subseteq 1 .. t.next_inode - 1
    BY <1>2
  <2> QED BY <1>2, <2>1, <2>2 DEF TableOK
<1>6. InodesOK(df, t, K, D)
  <2>1. InodeOK(df, K, D, t.inodes[1])
    BY <1>1, <1>2 DEF InodeOK
  <2> QED BY <1>2, <2>1 DEF InodesOK
<1>7. Agree(df, dr, t, D)
  BY <1>2 DEF Agree
<1> QED BY <1>1, <1>4, <1>5, <1>6, <1>7 DEF Good, t

(***************************************************************************)
(* flush_fat: the FAT of the memory is now that of the disk.               *)
(***************************************************************************)
LEMMA FlushOK ==
  ASSUME NEW f, NEW df, NEW dr, NEW t, NEW H, NEW K, NEW D, Good(f, df, dr, t, H, K, D)
  PROVE  Good(f, f, dr, t, H, H, D)
<1>1. /\ f \in Fats /\ ChainsOK(f, H) /\ DiskOK(df, dr, K, D) /\ df \in Fats /\ ChainsOK(df, K)
      /\ RootCluster \in D /\ D \subseteq K /\ K \subseteq H /\ dr \in DirTabs
      /\ \A h \in K : Len(ClusterChain(df, h)) <= Len(ClusterChain(f, h))
      /\ \A d \in D : ClusterChain(df, d) = ClusterChain(f, d)
  BY DEF Good, Ahead, DiskOK
<1>2. \A h \in H : Len(ClusterChain(f, h)) \in Nat
  BY <1>1, LenChain
<1>3. \A h \in K : Len(ClusterChain(df, h)) \in Nat
  BY <1>1, LenChain
<1>4. \A d \in D : Slots(f, d) = Slots(df, d)
  BY <1>1 DEF Slots, On
<1>5. AllEntriesOK(f, dr, H, D)
  <2> SUFFICES ASSUME NEW d \in D, NEW p \in Slots(df, d), Listed(Ent(dr, p))
               PROVE  EntryOK(f, H, D, Ent(dr, p)) /\ Ent(dr, p).cluster # d
    BY <1>4 DEF AllEntriesOK
  <2>1. EntryOK(df, K, D, Ent(dr, p)) /\ Ent(dr, p).cluster # d
    BY <1>1 DEF DiskOK, AllEntriesOK
  <2> DEFINE e == Ent(dr, p)
  <2>2. e.size \in Nat
    BY <1>1, SlotFacts, BoundsAssumption DEF RawEntries
  <2> HIDE DEF e
  <2>3. e.cluster \in K /\ Covered(df, e.cluster, e.size) => Covered(f, e.cluster, e.size)
    BY <1>1, <1>2, <1>3, <2>2, CoveredMore
  <2>4. EntryOK(df, K, D, e)
    BY <2>1 DEF e
  <2>5. EntryOK(f, H, D, e)
    BY <1>1, <2>3, <2>4 DEF EntryOK
  <2> QED BY <2>1, <2>5 DEF e
<1>6. ListedOnce(f, dr, D)
  BY <1>1, <1>4 DEF DiskOK, ListedOnce
<1>7. \A d \in D : CleanDir(dr, ClusterChain(f, d))
  BY <1>1 DEF DiskOK
<1>8. DiskOK(f, dr, H, D)
  BY <1>1, <1>5, <1>6, <1>7 DEF DiskOK
<1>9. Ahead(f, f, H, H, D)
  BY <1>2 DEF Ahead
<1>10. Agree(f, dr, t, D)
  BY <1>4 DEF Good, Agree
<1> QED BY <1>1, <1>8, <1>9, <1>10 DEF Good

LEMMA GoodParts ==
  ASSUME NEW f, NEW df, NEW dr, NEW t, NEW H, NEW K, NEW D, Good(f, df, dr, t, H, K, D)
  PROVE  /\ f \in Fats /\ df \in Fats /\ dr \in DirTabs
         /\ ChainsOK(f, H) /\ ChainsOK(df, K) /\ DiskOK(df, dr, K, D)
         /\ RootCluster \in D /\ D \subseteq K /\ K \subseteq H /\ D \subseteq H
         /\ \A h \in H : Len(ClusterChain(f, h)) \in Nat
         /\ \A h \in K : Len(ClusterChain(df, h)) \in Nat /\ Len(ClusterChain(df, h)) <= Len(ClusterChain(f, h))
         /\ \A d \in D : /\ ClusterChain(df, d) = ClusterChain(f, d) /\ On(df, d) = On(f, d)
                         /\ Slots(df, d) = Slots(f, d)
         /\ TableOK(t) /\ InodesOK(f, t, H, D) /\ Agree(df, dr, t, D)
<1>1. /\ f \in Fats /\ ChainsOK(f, H) /\ DiskOK(df, dr, K, D) /\ df \in Fats /\ ChainsOK(df, K)
      /\ RootCluster \in D /\ D \subseteq K /\ K \subseteq H /\ dr \in DirTabs
      /\ \A h \in K : Len(ClusterChain(df, h)) <= Len(ClusterChain(f, h))
      /\ \A d \in D : ClusterChain(df, d) = ClusterChain(f, d)
      /\ TableOK(t) /\ InodesOK(f, t, H, D) /\ Agree(df, dr, t, D)
  BY DEF Good, Ahead, DiskOK
<1>2. \A h \in H : Len(ClusterChain(f, h)) \in Nat
  BY <1>1, LenChain
<1>3. \A h \in K : Len(ClusterChain(df, h)) \in Nat
  BY <1>1, LenChain
<1>4. \A d \in D : On(df, d) = On(f, d) /\ Slots(df, d) = Slots(f, d)
  BY <1>1 DEF Slots, On
<1> QED BY <1>1, <1>2, <1>3, <1>4

(***************************************************************************)
(* A FAT on the disk that has every link in use, and may differ in what is *)
(* free in memory, does as well.                                           *)
(***************************************************************************)
LEMMA UpToDateOK ==
  ASSUME NEW f, NEW df, NEW dr, NEW t, NEW H, NEW K, NEW D, Good(f, df, dr, t, H, K, D),
         NEW g \in Fats, \A c \in Clusters : f[c] # FREE => g[c] = f[c]
  PROVE  Good(f, g, dr, t, H, H, D)
<1>1. Good(f, f, dr, t, H, H, D)
  BY FlushOK
<1>2. /\ f \in Fats /\ dr \in DirTabs /\ ChainsOK(f, H) /\ DiskOK(f, dr, H, D)
      /\ RootCluster \in D /\ D \subseteq H
      /\ \A h \in H : Len(ClusterChain(f, h)) \in Nat
      /\ TableOK(t) /\ InodesOK(f, t, H, D) /\ Agree(f, dr, t, D)
  BY <1>1, GoodParts
<1>3. \A h \in H : \A c \in On(f, h) : g[c] = f[c]
  BY <1>2, ChainElements
<1>4. /\ ChainsOK(g, H)
      /\ \A h \in H : ClusterChain(g, h) = ClusterChain(f, h) /\ On(g, h) = On(f, h)
  <2>1. H \in SUBSET H
    OBVIOUS
  <2> QED BY <1>2, <1>3, <2>1, SameChains
<1>5. \A d \in D : Slots(g, d) = Slots(f, d)
  BY <1>2, <1>4 DEF Slots
<1>6. AllEntriesOK(g, dr, H, D)
  <2> SUFFICES ASSUME NEW d \in D, NEW p \in Slots(f, d), Listed(Ent(dr, p))
               PROVE  EntryOK(g, H, D, Ent(dr, p)) /\ Ent(dr, p).cluster # d
    BY <1>5 DEF AllEntriesOK
  <2>1. EntryOK(f, H, D, Ent(dr, p)) /\ Ent(dr, p).cluster # d
    BY <1>2 DEF DiskOK, AllEntriesOK
  <2> QED BY <1>4, <2>1 DEF EntryOK, Covered
<1>7. ListedOnce(g, dr, D)
  BY <1>2, <1>5 DEF DiskOK, ListedOnce
<1>8. \A d \in D : CleanDir(dr, ClusterChain(g, d))
  BY <1>2, <1>4 DEF DiskOK
<1>9. DiskOK(g, dr, H, D)
  BY <1>2, <1>4, <1>6, <1>7, <1>8 DEF DiskOK
<1>10. Ahead(f, g, H, H, D)
  BY <1>2, <1>4 DEF Ahead
<1>11. Agree(g, dr, t, D)
  BY <1>2, <1>5 DEF Agree
<1> QED BY <1>2, <1>9, <1>10, <1>11 DEF Good

(***************************************************************************)
(* Clusters are added to chains of files or as new heads, in memory only.  *)
(***************************************************************************)
LEMMA MoreClusters ==
  ASSUME NEW f, NEW df, NEW dr, NEW t, NEW H, NEW K, NEW D, Good(f, df, dr, t, H, K, D),
         NEW g \in Fats, NEW J, ChainsOK(g, J), H \subseteq J,
         \A h \in H : Len(ClusterChain(f, h)) <= Len(ClusterChain(g, h)),
         \A d \in D : ClusterChain(g, d) = ClusterChain(f, d)
  PROVE  Good(g, df, dr, t, J, K, D)
<1>1. /\ DiskOK(df, dr, K, D) /\ K \subseteq H
      /\ \A h \in H : Len(ClusterChain(f, h)) \in Nat
      /\ \A h \in K : Len(ClusterChain(df, h)) \in Nat /\ Len(ClusterChain(df, h)) <= Len(ClusterChain(f, h))
      /\ \A d \in D : ClusterChain(df, d) = ClusterChain(f, d)
      /\ TableOK(t) /\ InodesOK(f, t, H, D) /\ Agree(df, dr, t, D)
  BY GoodParts
<1>2. \A h \in J : Len(ClusterChain(g, h)) \in Nat
  BY LenChain
<1>3. Ahead(g, df, J, K, D)
  <2>1. ASSUME NEW h \in K
        PROVE  Len(ClusterChain(df, h)) <= Len(ClusterChain(g, h))
    <3>1. /\ Len(ClusterChain(df, h)) \in Nat /\ Len(ClusterChain(f, h)) \in Nat /\ Len(ClusterChain(g, h)) \in Nat
          /\ Len(ClusterChain(df, h)) <= Len(ClusterChain(f, h))
          /\ Len(ClusterChain(f, h)) <= Len(ClusterChain(g, h))
      BY <1>1, <1>2
    <3> QED BY <3>1
  <2> QED BY <1>1, <2>1 DEF Ahead
<1>4. InodesOK(g, t, J, D)
  <2>1. ASSUME NEW i \in DOMAIN t.inodes
        PROVE  InodeOK(g, J, D, t.inodes[i])
    <3> DEFINE ino == t.inodes[i]
    <3>1. ino.size \in Nat /\ InodeOK(f, H, D, ino)
      BY <1>1, BoundsAssumption DEF TableOK, Inodes, InodesOK
    <3> HIDE DEF ino
    <3>2. ino.first_cluster \in H /\ Covered(f, ino.first_cluster, ino.size) => Covered(g, ino.first_cluster, ino.size)
      BY <1>1, <1>2, <3>1, CoveredMore
    <3>3. InodeOK(g, J, D, ino)
      BY <3>1, <3>2 DEF InodeOK
    <3> QED BY <3>3 DEF ino
  <2> QED BY <1>1, <2>1 DEF InodesOK
<1> QED BY <1>1, <1>3, <1>4 DEF Good

(***************************************************************************)
(* What is written to clusters that belong to no directory.                *)
(***************************************************************************)
LEMMA OtherClusters ==
  ASSUME NEW f, NEW df, NEW dr, NEW t, NEW H, NEW K, NEW D, Good(f, df, dr, t, H, K, D),
         NEW e \in DirTabs, \A d \in D : \A c \in On(df, d) : e[c] = dr[c]
  PROVE  Good(f, df, e, t, H, K, D)
<1>1. /\ f \in Fats /\ ChainsOK(f, H) /\ DiskOK(df, dr, K, D) /\ df \in Fats /\ ChainsOK(df, K)
      /\ RootCluster \in D /\ D \subseteq K /\ Ahead(f, df, H, K, D)
      /\ TableOK(t) /\ InodesOK(f, t, H, D) /\ Agree(df, dr, t, D)
  BY DEF Good, DiskOK
<1>2. \A d \in D : \A p \in Slots(df, d) : Ent(e, p) = Ent(dr, p)
  BY DEF Slots, Ent
<1>3. AllEntriesOK(df, e, K, D) /\ ListedOnce(df, e, D)
  BY <1>1, <1>2 DEF DiskOK, AllEntriesOK, ListedOnce
<1>4. ASSUME NEW d \in D
      PROVE  CleanDir(e, ClusterChain(df, d))
  <2> DEFINE s == ClusterChain(df, d)
  <2>1. \A k \in 1..Len(s) : e[s[k]] = dr[s[k]]
    BY <1>1, OnChain DEF ChainsOK
  <2>2. CleanDir(dr, s)
    BY <1>1 DEF DiskOK
  <2> HIDE DEF s
  <2>3. CleanDir(e, s)
    BY <2>1, <2>2 DEF CleanDir
  <2> QED BY <2>3 DEF s
<1>5. DiskOK(df, e, K, D)
  BY <1>1, <1>3, <1>4 DEF DiskOK
<1>6. Agree(df, e, t, D)
  BY <1>1, <1>2 DEF Agree
<1> QED BY <1>1, <1>5, <1>6 DEF Good

\* What a free cluster holds matters to nobody.
LEMMA FreeClusterOK ==
  ASSUME NEW f, NEW df, NEW dr, NEW t, NEW H, NEW K, NEW D, Good(f, df, dr, t, H, K, D),
         NEW c, f[c] = FREE, NEW e \in DirTabs, \A x \in Clusters \ {c} : e[x] = dr[x]
  PROVE  Good(f, df, e, t, H, K, D)
<1>1. /\ \A d \in D : On(df, d) = On(f, d) /\ d \in H
      /\ f \in Fats /\ ChainsOK(f, H)
  BY GoodParts
<1>2. \A d \in D : \A x \in On(df, d) : x # c /\ x \in Clusters
  BY <1>1, ChainElements
<1>3. \A d \in D : \A x \in On(df, d) : e[x] = dr[x]
  BY <1>2
<1> QED BY <1>3, OtherClusters

(***************************************************************************)
(* intern_inode.                                                           *)
(***************************************************************************)
LEMMA InternOK ==
  ASSUME NEW f, NEW df, NEW dr, NEW t, NEW H, NEW K, NEW D, Good(f, df, dr, t, H, K, D),
         NEW c \in Clusters \cup {0}, NEW size \in 0..MaxSize, NEW is_dir \in BOOLEAN,
         InodeOK(f, H, D, [first_cluster |-> c, size |-> size, is_dir |-> is_dir]),
         \A d \in D : \A p \in Slots(df, d) :
           Listed(Ent(dr, p)) /\ Ent(dr, p).cluster = c /\ c # 0 /\ ~is_dir => Ent(dr, p).size <= size
  PROVE  Good(f, df, dr, InternInode(t, c, size, is_dir), H, K, D)
<1> DEFINE u == InternInode(t, c, size, is_dir)
           ino == [first_cluster |-> c, size |-> size, is_dir |-> is_dir]
<1>0. ino.first_cluster = c /\ ino.size = size /\ ino.is_dir = is_dir /\ ino \in Inodes
  BY DEF Inodes
<1>1. TableOK(t) /\ InodesOK(f, t, H, D) /\ Agree(df, dr, t, D)
  BY DEF Good
<1>2. CASE Matching(t, c, is_dir) # {}
  <2>1. u = t
    BY <1>2 DEF InternInode
  <2> QED BY <2>1
<1>3. CASE Matching(t, c, is_dir) = {}
  <2> DEFINE n == t.next_inode
  <2>1. /\ u = [inodes |-> u.inodes, next_inode |-> u.next_inode]
        /\ u.next_inode = n + 1
        /\ DOMAIN u.inodes = DOMAIN t.inodes \cup {n}
        /\ u.inodes = [i \in DOMAIN u.inodes |-> u.inodes[i]]
        /\ u.inodes[n] = ino
        /\ \A i \in DOMAIN t.inodes : i # n => u.inodes[i] = t.inodes[i]
    BY <1>3, InternIs
  <2>2. /\ n \in Nat /\ n >= 2 /\ DOMAIN t.inodes \subseteq 1 .. n - 1
        /\ \A i \in DOMAIN t.inodes : t.inodes[i] \in Inodes
        /\ 1 \in DOMAIN t.inodes /\ t.inodes[1].first_cluster = RootCluster
    BY <1>1 DEF TableOK
  <2>3. \A i \in DOMAIN t.inodes : i # n
    BY <2>2
  <2>4. \A i \in DOMAIN t.inodes : u.inodes[i] = t.inodes[i]
    BY <2>1, <2>3
  <2> HIDE DEF u
  <2>5. TableOK(u)
    <3>1. \A i \in DOMAIN u.inodes : u.inodes[i] \in Inodes
      BY <1>0, <2>1, <2>2, <2>4
    <3>2. DOMAIN u.inodes \subseteq 1 .. u.next_inode - 1 /\ u.next_inode \in Nat /\ u.next_inode >= 2
      BY <2>1, <2>2
    <3>3. u.inodes \in [DOMAIN u.inodes -> Inodes]
      BY <2>1, <3>1
    <3>4. 1 \in DOMAIN u.inodes /\ u.inodes[1].first_cluster = RootCluster
      BY <2>1, <2>2, <2>4
    <3> QED BY <2>1, <3>2, <3>3, <3>4 DEF TableOK
  <2>6. ASSUME NEW i \in DOMAIN t.inodes
        PROVE  t.inodes[i].first_cluster # c
    <3> SUFFICES ASSUME t.inodes[i].first_cluster = c
                 PROVE  FALSE
      OBVIOUS
    <3>1. t.inodes[i].is_dir \in BOOLEAN
      BY <2>2 DEF Inodes
    <3>2. t.inodes[i].is_dir # is_dir
      BY <1>3 DEF Matching
    <3>3. InodeOK(f, H, D, t.inodes[i]) /\ InodeOK(f, H, D, ino)
      BY <1>1 DEF InodesOK
    <3>4. D \subseteq H /\ 0 \notin H
      BY GoodParts, Numbers DEF ChainsOK
    <3>5. (t.inodes[i].is_dir <=> c \in D) /\ (is_dir <=> c \in D)
      BY <1>0, <3>3, <3>4 DEF InodeOK
    <3> QED BY <3>1, <3>2, <3>5
  <2>7. InodesOK(f, u, H, D)
    <3>1. \A i \in DOMAIN u.inodes : InodeOK(f, H, D, u.inodes[i])
      BY <1>1, <2>1, <2>4 DEF InodesOK
    <3>2. \A i, j \in DOMAIN u.inodes : u.inodes[i].first_cluster = u.inodes[j].first_cluster => i = j
      BY <1>0, <1>1, <2>1, <2>4, <2>6 DEF InodesOK
    <3> QED BY <3>1, <3>2 DEF InodesOK
  <2>8. Agree(df, dr, u, D)
    <3> SUFFICES ASSUME NEW i \in DOMAIN u.inodes, NEW d \in D, NEW p \in Slots(df, d),
                        Listed(Ent(dr, p)), Ent(dr, p).cluster # 0, ~u.inodes[i].is_dir,
                        Ent(dr, p).cluster = u.inodes[i].first_cluster
                 PROVE  Ent(dr, p).size <= u.inodes[i].size
      BY DEF Agree
    <3>1. CASE i = n
      BY <1>0, <2>1, <3>1
    <3>2. CASE i # n
      <4>1. i \in DOMAIN t.inodes /\ u.inodes[i] = t.inodes[i]
        BY <2>1, <2>4, <3>2
      <4> QED BY <1>1, <4>1 DEF Agree
    <3> QED BY <3>1, <3>2
  <2> QED BY <2>5, <2>7, <2>8 DEF Good, u
<1> QED BY <1>2, <1>3

LEMMA InternEntryOK ==
  ASSUME NEW f, NEW df, NEW dr, NEW t, NEW H, NEW K, NEW D, Good(f, df, dr, t, H, K, D),
         NEW d \in D, NEW p \in Slots(df, d), Listed(Ent(dr, p))
  PROVE  Good(f, df, dr, InternEntry(t, Ent(dr, p)), H, K, D)
<1> DEFINE e == Ent(dr, p)
           ino == [first_cluster |-> e.cluster, size |-> e.size, is_dir |-> e.is_dir]
<1>1. /\ f \in Fats /\ ChainsOK(f, H) /\ DiskOK(df, dr, K, D) /\ K \subseteq H
      /\ \A h \in H : Len(ClusterChain(f, h)) \in Nat
      /\ \A h \in K : Len(ClusterChain(df, h)) \in Nat /\ Len(ClusterChain(df, h)) <= Len(ClusterChain(f, h))
  BY GoodParts
<1>2. e \in RawEntries
  BY <1>1, SlotFacts
<1>3. EntryOK(df, K, D, e)
  BY <1>1 DEF DiskOK, AllEntriesOK
<1>4. \A b \in D : \A q \in Slots(df, b) :
        Listed(Ent(dr, q)) /\ Ent(dr, q).cluster = e.cluster /\ e.cluster # 0 => Ent(dr, q) = e
  BY <1>1 DEF DiskOK, ListedOnce
<1> HIDE DEF e
<1>5. /\ e.cluster \in Clusters \cup {0} /\ e.size \in 0..MaxSize /\ e.is_dir \in BOOLEAN
      /\ e.size \in Nat /\ e.size <= e.size
  BY <1>2, BoundsAssumption DEF RawEntries
<1>6. e.cluster \in K /\ Covered(df, e.cluster, e.size) => Covered(f, e.cluster, e.size)
  BY <1>1, <1>5, CoveredMore
<1>7. InodeOK(f, H, D, ino)
  BY <1>1, <1>3, <1>6 DEF EntryOK, InodeOK
<1>8. Good(f, df, dr, InternInode(t, e.cluster, e.size, e.is_dir), H, K, D)
  BY <1>4, <1>5, <1>7, InternOK
<1> QED BY <1>8 DEF InternEntry, e

-----------------------------------------------------------------------------
(***************************************************************************)
(* One slot is written.                                                    *)
(***************************************************************************)
Put(dr, p, e) == [dr EXCEPT ![p[1]] = [dr[p[1]] EXCEPT ![p[2]] = e]]

LEMMA PutIs ==
  ASSUME NEW dr \in DirTabs, NEW p, p[1] \in Clusters, p[2] \in 1..SlotsPerCluster, NEW e \in RawEntries
  PROVE  /\ Put(dr, p, e) \in DirTabs
         /\ \A c \in Clusters, a \in 1..SlotsPerCluster :
              Put(dr, p, e)[c][a] = IF c = p[1] /\ a = p[2] THEN e ELSE dr[c][a]
<1> DEFINE row == [dr[p[1]] EXCEPT ![p[2]] = e]
<1>1. dr[p[1]] \in [1..SlotsPerCluster -> RawEntries]
  BY DEF DirTabs
<1>2. row \in [1..SlotsPerCluster -> RawEntries]
      /\ \A a \in 1..SlotsPerCluster : row[a] = IF a = p[2] THEN e ELSE dr[p[1]][a]
  BY <1>1
<1>3. Put(dr, p, e) = [dr EXCEPT ![p[1]] = row]
  BY DEF Put
<1> HIDE DEF row
<1>4. Put(dr, p, e) \in DirTabs /\ \A c \in Clusters : Put(dr, p, e)[c] = IF c = p[1] THEN row ELSE dr[c]
  BY <1>2, <1>3 DEF DirTabs
<1> QED BY <1>2, <1>4

LEMMA PutOK ==
  ASSUME NEW f, NEW df, NEW dr, NEW t, NEW H, NEW K, NEW D, Good(f, df, dr, t, H, K, D),
         NEW d \in D, NEW p \in Slots(df, d), NEW e \in RawEntries,
         Listed(e) => EntryOK(df, K, D, e) /\ e.cluster # d,
         Listed(e) /\ e.cluster # 0 =>
           /\ \A b \in D : \A q \in Slots(df, b) :
                q # p /\ Listed(Ent(dr, q)) => Ent(dr, q).cluster # e.cluster
           /\ \A i \in DOMAIN t.inodes :
                ~t.inodes[i].is_dir /\ t.inodes[i].first_cluster = e.cluster => e.size <= t.inodes[i].size,
         CleanDir(Put(dr, p, e), ClusterChain(df, d))
  PROVE  Good(f, df, Put(dr, p, e), t, H, K, D)
<1> DEFINE n == Put(dr, p, e)
<1>1. /\ f \in Fats /\ ChainsOK(f, H) /\ DiskOK(df, dr, K, D) /\ df \in Fats /\ ChainsOK(df, K)
      /\ RootCluster \in D /\ D \subseteq K /\ Ahead(f, df, H, K, D) /\ dr \in DirTabs
      /\ TableOK(t) /\ InodesOK(f, t, H, D) /\ Agree(df, dr, t, D)
  BY DEF Good, DiskOK
<1>2. p[1] \in On(df, d) /\ p[1] \in Clusters /\ p[2] \in 1..SlotsPerCluster /\ p = <<p[1], p[2]>>
  BY <1>1, SlotFacts
<1>3. /\ n \in DirTabs
      /\ \A c \in Clusters, a \in 1..SlotsPerCluster :
           n[c][a] = IF c = p[1] /\ a = p[2] THEN e ELSE dr[c][a]
  BY <1>1, <1>2, PutIs
<1> HIDE DEF n
<1>4. \A b \in D : \A q \in Slots(df, b) : Ent(n, q) = IF q = p THEN e ELSE Ent(dr, q)
  <2> SUFFICES ASSUME NEW b \in D, NEW q \in Slots(df, b)
               PROVE  Ent(n, q) = IF q = p THEN e ELSE Ent(dr, q)
    OBVIOUS
  <2>1. q[1] \in Clusters /\ q[2] \in 1..SlotsPerCluster /\ q = <<q[1], q[2]>>
    BY <1>1, SlotFacts
  <2>2. q = p <=> q[1] = p[1] /\ q[2] = p[2]
    BY <1>2, <2>1
  <2> QED BY <1>3, <2>1, <2>2 DEF Ent
<1>5. AllEntriesOK(df, n, K, D)
  <2>1. \A b \in D : \A q \in Slots(df, b) : q = p => b = d
    BY <1>1, SlotFacts
  <2>2. \A b \in D : \A q \in Slots(df, b) :
          Listed(Ent(dr, q)) => EntryOK(df, K, D, Ent(dr, q)) /\ Ent(dr, q).cluster # b
    BY <1>1 DEF DiskOK, AllEntriesOK
  <2> QED BY <1>4, <2>1, <2>2 DEF AllEntriesOK
<1>6. ListedOnce(df, n, D)
  <2> SUFFICES ASSUME NEW a \in D, NEW b \in D, NEW q \in Slots(df, a), NEW r \in Slots(df, b),
                      Listed(Ent(n, q)), Listed(Ent(n, r)),
                      Ent(n, q).cluster = Ent(n, r).cluster, Ent(n, q).cluster # 0, q # r
               PROVE  FALSE
    BY DEF ListedOnce
  <2>1. Ent(n, q) = (IF q = p THEN e ELSE Ent(dr, q)) /\ Ent(n, r) = (IF r = p THEN e ELSE Ent(dr, r))
    BY <1>4
  <2>2. CASE q = p
    BY <2>1, <2>2
  <2>3. CASE r = p
    BY <2>1, <2>3
  <2>4. CASE q # p /\ r # p
    BY <1>1, <2>1, <2>4 DEF DiskOK, ListedOnce
  <2> QED BY <2>2, <2>3, <2>4
<1>7. ASSUME NEW b \in D
      PROVE  CleanDir(n, ClusterChain(df, b))
  <2>1. CASE b = d
    BY <2>1 DEF n
  <2>2. CASE b # d
    <3> DEFINE s == ClusterChain(df, b)
    <3>1. \A k \in 1..Len(s) : s[k] \in On(df, b) /\ s[k] \in Clusters
      BY <1>1, OnChain DEF ChainsOK
    <3>2. p[1] \notin On(df, b)
      BY <1>1, <1>2, <2>2, ChainElements
    <3>3. CleanDir(dr, s)
      BY <1>1 DEF DiskOK
    <3> HIDE DEF s
    <3>4. \A k \in 1..Len(s), a \in 1..SlotsPerCluster : n[s[k]][a] = dr[s[k]][a]
      BY <1>3, <3>1, <3>2
    <3>5. CleanDir(n, s)
      BY <3>3, <3>4 DEF CleanDir
    <3> QED BY <3>5 DEF s
  <2> QED BY <2>1, <2>2
<1>8. DiskOK(df, n, K, D)
  BY <1>1, <1>3, <1>5, <1>6, <1>7 DEF DiskOK
<1>9. Agree(df, n, t, D)
  <2> SUFFICES ASSUME NEW i \in DOMAIN t.inodes, NEW b \in D, NEW q \in Slots(df, b),
                      Listed(Ent(n, q)), Ent(n, q).cluster # 0, ~t.inodes[i].is_dir,
                      Ent(n, q).cluster = t.inodes[i].first_cluster
               PROVE  Ent(n, q).size <= t.inodes[i].size
    BY DEF Agree
  <2>1. CASE q = p
    BY <1>4, <2>1
  <2>2. CASE q # p
    BY <1>1, <1>4, <2>2 DEF Agree
  <2> QED BY <2>1, <2>2
<1>10. Good(f, df, n, t, H, K, D)
  BY <1>1, <1>8, <1>9 DEF Good
<1> QED BY <1>10 DEF n

(***************************************************************************)
(* The slots of a directory after one of them is written, in terms of its  *)
(* chain.                                                                  *)
(***************************************************************************)
LEMMA RowsOfPut ==
  ASSUME NEW df \in Fats, NEW d, HasChain(df, d), NEW dr \in DirTabs, NEW e \in RawEntries,
         NEW p \in Slots(df, d), NEW k \in 1..Len(ClusterChain(df, d)), p[1] = ClusterChain(df, d)[k]
  PROVE  \A j \in 1..Len(ClusterChain(df, d)), b \in 1..SlotsPerCluster :
           Put(dr, p, e)[ClusterChain(df, d)[j]][b]
             = IF j = k /\ b = p[2] THEN e ELSE dr[ClusterChain(df, d)[j]][b]
<1> DEFINE s == ClusterChain(df, d)
<1>1. \A j \in 1..Len(s) : s[j] \in On(df, d) /\ s[j] \in Clusters
  BY OnChain
<1>2. \A i, j \in 1..Len(s) : s[i] = s[j] => i = j
  BY DEF HasChain, IsChain
<1>3. p[1] \in Clusters /\ p[2] \in 1..SlotsPerCluster /\ p[1] = s[k]
  BY OnChain DEF Slots
<1>4. \A c \in Clusters, b \in 1..SlotsPerCluster :
        Put(dr, p, e)[c][b] = IF c = p[1] /\ b = p[2] THEN e ELSE dr[c][b]
  BY <1>3, PutIs
<1> HIDE DEF s
<1>5. ASSUME NEW j \in 1..Len(s), NEW b \in 1..SlotsPerCluster
      PROVE  Put(dr, p, e)[s[j]][b] = IF j = k /\ b = p[2] THEN e ELSE dr[s[j]][b]
  <2>1. s[j] = p[1] <=> j = k
    <3>1. k \in 1..Len(s)
      BY DEF s
    <3> QED BY <1>2, <1>3, <3>1
  <2>2. Put(dr, p, e)[s[j]][b] = IF s[j] = p[1] /\ b = p[2] THEN e ELSE dr[s[j]][b]
    BY <1>1, <1>4
  <2> QED BY <2>1, <2>2
<1> QED BY <1>5 DEF s

LEMMA CleanPut ==
  ASSUME NEW df \in Fats, NEW d, HasChain(df, d), NEW dr \in DirTabs, NEW e \in RawEntries,
         NEW p \in Slots(df, d), NEW k \in 1..Len(ClusterChain(df, d)), p[1] = ClusterChain(df, d)[k],
         CleanDir(dr, ClusterChain(df, d)),
         \A j \in 1..Len(ClusterChain(df, d)), b \in 1..SlotsPerCluster :
           Earlier(j, b, k, p[2]) =>
             /\ dr[ClusterChain(df, d)[j]][b].name = END => IsFree(e)
             /\ ~IsFree(e) => dr[ClusterChain(df, d)[j]][b].name # e.name,
         \A j \in 1..Len(ClusterChain(df, d)), b \in 1..SlotsPerCluster :
           Earlier(k, p[2], j, b) =>
             /\ e.name = END => IsFree(dr[ClusterChain(df, d)[j]][b])
             /\ ~IsFree(dr[ClusterChain(df, d)[j]][b]) => e.name # dr[ClusterChain(df, d)[j]][b].name
  PROVE  CleanDir(Put(dr, p, e), ClusterChain(df, d))
<1> DEFINE s == ClusterChain(df, d)
           n == Put(dr, p, e)
<1>1. /\ p[2] \in 1..SlotsPerCluster /\ k \in 1..Len(s) /\ CleanDir(dr, s)
      /\ Len(s) \in Nat /\ SlotsPerCluster \in Nat
  BY OnChain, Numbers DEF Slots
<1>2. \A j \in 1..Len(s), b \in 1..SlotsPerCluster :
        n[s[j]][b] = IF j = k /\ b = p[2] THEN e ELSE dr[s[j]][b]
  BY RowsOfPut
<1>3. \A j \in 1..Len(s), b \in 1..SlotsPerCluster : Earlier(j, b, k, p[2]) =>
        (dr[s[j]][b].name = END => IsFree(e)) /\ (~IsFree(e) => dr[s[j]][b].name # e.name)
  OBVIOUS
<1>4. \A j \in 1..Len(s), b \in 1..SlotsPerCluster : Earlier(k, p[2], j, b) =>
        (e.name = END => IsFree(dr[s[j]][b])) /\ (~IsFree(dr[s[j]][b]) => e.name # dr[s[j]][b].name)
  OBVIOUS
<1> HIDE DEF s, n
<1>5. ASSUME NEW j \in 1..Len(s), NEW l \in 1..Len(s),
             NEW a \in 1..SlotsPerCluster, NEW b \in 1..SlotsPerCluster, Earlier(j, a, l, b)
      PROVE  /\ n[s[j]][a].name = END => IsFree(n[s[l]][b])
             /\ ~IsFree(n[s[l]][b]) => n[s[j]][a].name # n[s[l]][b].name
  <2>1. ~(j = l /\ a = b)
    BY <1>1, <1>5 DEF Earlier
  <2>2. CASE l = k /\ b = p[2]
    BY <1>2, <1>3, <1>5, <2>1, <2>2, SMTT(30)
  <2>3. CASE j = k /\ a = p[2]
    BY <1>2, <1>4, <1>5, <2>1, <2>3, ZenonT(30)
  <2>4. CASE ~(l = k /\ b = p[2]) /\ ~(j = k /\ a = p[2])
    <3>1. n[s[j]][a] = dr[s[j]][a] /\ n[s[l]][b] = dr[s[l]][b]
      BY <1>2, <2>4
    <3> QED BY <1>1, <1>5, <3>1 DEF CleanDir
  <2> QED BY <2>2, <2>3, <2>4
<1>6. CleanDir(n, s)
  BY <1>5 DEF CleanDir
<1> QED BY <1>6 DEF s, n

LEMMA RowOfSlot ==
  ASSUME NEW f \in Fats, NEW d, HasChain(f, d), NEW p \in Slots(f, d)
  PROVE  \E k \in 1..Len(ClusterChain(f, d)) : p[1] = ClusterChain(f, d)[k]
<1>1. p[1] \in On(f, d) /\ DOMAIN ClusterChain(f, d) = 1..Len(ClusterChain(f, d))
  BY OnChain DEF Slots
<1> QED BY <1>1 DEF On, ToSet

(***************************************************************************)
(* A new entry goes to the first slot that is free.                        *)
(***************************************************************************)
LEMMA FirstFree ==
  ASSUME NEW m, m.fat \in Fats, NEW d, HasChain(m.fat, d), FreeSlot(m, d) # 0,
         NEW p, p = Places(m, d)[FreeSlot(m, d)]
  PROVE  /\ p \in Slots(m.fat, d) /\ IsFree(At(m, p))
         /\ \E k \in 1..Len(ClusterChain(m.fat, d)) :
              /\ p[1] = ClusterChain(m.fat, d)[k]
              /\ \A j \in 1..Len(ClusterChain(m.fat, d)), b \in 1..SlotsPerCluster :
                   Earlier(j, b, k, p[2]) => ~IsFree(m.dirs[ClusterChain(m.fat, d)[j]][b])
<1> DEFINE s == ClusterChain(m.fat, d)
           P == Places(m, d)
           x == FreeSlot(m, d)
<1>1. /\ x \in 1..Len(P) /\ p \in Slots(m.fat, d) /\ IsFree(At(m, p))
      /\ \A j \in 1..Len(P) : IsFree(At(m, P[j])) => x <= j
  BY FreeSlotIs
<1>2. /\ Len(P) = Len(s) * SlotsPerCluster /\ Len(s) \in Nat /\ Len(P) \in Nat
      /\ \A n \in 1..Len(P) : P[n] = <<s[Row(n)], Col(n)>>
  BY PlacesAre
<1>3. p = P[x]
  OBVIOUS
<1> HIDE DEF s, P, x
<1>4. /\ \A n \in 1..Len(P) : n \in Nat /\ Row(n) \in 1..Len(s) /\ Col(n) \in 1..SlotsPerCluster
      /\ \A k \in 1..Len(s), r \in 1..SlotsPerCluster : \E n \in 1..Len(P) : Row(n) = k /\ Col(n) = r
  <2>1. Len(s) \in Nat /\ Len(P) = Len(s) * SlotsPerCluster
    BY <1>2
  <2>2. \A n \in 1 .. Len(s) * SlotsPerCluster :
          n \in Nat /\ Row(n) \in 1..Len(s) /\ Col(n) \in 1..SlotsPerCluster
    BY <2>1, RowCol
  <2>3. \A k \in 1..Len(s), r \in 1..SlotsPerCluster :
          \E n \in 1 .. Len(s) * SlotsPerCluster : Row(n) = k /\ Col(n) = r
    BY <2>1, RowCol
  <2> QED BY <2>1, <2>2, <2>3, Zenon
<1>5. p[1] = s[Row(x)] /\ p[2] = Col(x)
  BY <1>1, <1>2, <1>3
<1>6. ASSUME NEW j \in 1..Len(s), NEW b \in 1..SlotsPerCluster, Earlier(j, b, Row(x), p[2]),
             IsFree(m.dirs[s[j]][b])
      PROVE  FALSE
  <2>1. PICK n \in 1..Len(P) : Row(n) = j /\ Col(n) = b
    BY <1>4
  <2>2. IsFree(At(m, P[n]))
    BY <1>2, <1>6, <2>1 DEF At
  <2>3. x <= n /\ x \in Nat /\ n \in Nat
    BY <1>1, <1>4, <2>2
  <2>4. Row(x) \in 1..Len(s) /\ Col(x) \in 1..SlotsPerCluster /\ SlotsPerCluster \in Nat /\ Len(s) \in Nat
    BY <1>1, <1>2, <1>4, Numbers
  <2>5. CASE x = n
    BY <1>5, <1>6, <2>1, <2>4, <2>5 DEF Earlier
  <2>6. CASE x # n
    <3>1. x < n
      BY <2>3, <2>6
    <3>2. Row(x) < Row(n) \/ (Row(x) = Row(n) /\ Col(x) < Col(n))
      BY <1>1, <1>2, <3>1, RowColOrder
    <3> QED BY <1>5, <1>6, <2>1, <2>4, <3>2 DEF Earlier
  <2> QED BY <2>5, <2>6
<1>7. Row(x) \in 1..Len(s)
  BY <1>1, <1>4
<1> QED BY <1>1, <1>5, <1>6, <1>7 DEF s

LEMMA AddEntryOK ==
  ASSUME NEW f, NEW df, NEW dr, NEW t, NEW H, NEW K, NEW D, Good(f, df, dr, t, H, K, D),
         NEW d \in D, NEW p \in Slots(df, d),
         NEW k \in 1..Len(ClusterChain(df, d)), p[1] = ClusterChain(df, d)[k],
         \A j \in 1..Len(ClusterChain(df, d)), b \in 1..SlotsPerCluster :
           Earlier(j, b, k, p[2]) => ~IsFree(dr[ClusterChain(df, d)[j]][b]),
         NEW e \in RawEntries, Listed(e), EntryOK(df, K, D, e), e.cluster # d,
         \A q \in Slots(df, d) : Ent(dr, q).name # e.name,
         e.cluster # 0 =>
           /\ \A b \in D : \A q \in Slots(df, b) : Listed(Ent(dr, q)) => Ent(dr, q).cluster # e.cluster
           /\ \A i \in DOMAIN t.inodes : t.inodes[i].first_cluster # e.cluster
  PROVE  Good(f, df, Put(dr, p, e), t, H, K, D)
<1> DEFINE s == ClusterChain(df, d)
<1>1. /\ df \in Fats /\ dr \in DirTabs /\ d \in K /\ ChainsOK(df, K) /\ DiskOK(df, dr, K, D)
      /\ HasChain(df, d)
  BY GoodParts DEF ChainsOK
<1>2. CleanDir(dr, s)
  BY <1>1 DEF DiskOK
<1>3. ~IsFree(e) /\ e.name # END
  BY DEF Listed, IsFree
<1>4. \A j \in 1..Len(s), b \in 1..SlotsPerCluster : dr[s[j]][b].name # e.name
  <2>1. \A j \in 1..Len(s), b \in 1..SlotsPerCluster : <<s[j], b>> \in Slots(df, d)
    BY <1>1, OnChain DEF Slots
  <2> QED BY <2>1 DEF Ent
<1>5. \A j \in 1..Len(s), b \in 1..SlotsPerCluster : dr[s[j]][b].name = END => IsFree(dr[s[j]][b])
  BY DEF IsFree
<1>6. CleanDir(Put(dr, p, e), s)
  BY <1>1, <1>2, <1>3, <1>4, <1>5, CleanPut
<1> QED BY <1>6, PutOK

LEMMA RemoveEntryOK ==
  ASSUME NEW f, NEW df, NEW dr, NEW t, NEW H, NEW K, NEW D, Good(f, df, dr, t, H, K, D),
         NEW d \in D, NEW p \in Slots(df, d)
  PROVE  Good(f, df, Put(dr, p, Vacant(DELETED)), t, H, K, D)
<1> DEFINE s == ClusterChain(df, d)
           e == Vacant(DELETED)
<1>1. /\ df \in Fats /\ dr \in DirTabs /\ d \in K /\ ChainsOK(df, K) /\ DiskOK(df, dr, K, D)
      /\ HasChain(df, d)
  BY GoodParts DEF ChainsOK
<1>2. CleanDir(dr, s)
  BY <1>1 DEF DiskOK
<1>3. e \in RawEntries /\ e.name = DELETED
  BY BoundsAssumption DEF Vacant, RawDirEntry, RawEntries
<1> HIDE DEF e
<1>4. IsFree(e) /\ ~Listed(e) /\ e.name # END
  BY <1>3 DEF IsFree, Listed, END, DELETED
<1>5. PICK k \in 1..Len(s) : p[1] = s[k]
  BY <1>1, RowOfSlot
<1>6. \A j \in 1..Len(s), b \in 1..SlotsPerCluster : ~IsFree(dr[s[j]][b]) => e.name # dr[s[j]][b].name
  BY <1>3 DEF IsFree
<1>7. CleanDir(Put(dr, p, e), s)
  BY <1>1, <1>2, <1>3, <1>4, <1>5, <1>6, CleanPut
<1>8. Good(f, df, Put(dr, p, e), t, H, K, D)
  BY <1>3, <1>4, <1>7, PutOK
<1> QED BY <1>8 DEF e

(***************************************************************************)
(* A new size in the entry of a file.                                      *)
(***************************************************************************)
LEMMA ResizeEntryOK ==
  ASSUME NEW f, NEW df, NEW dr, NEW t, NEW H, NEW K, NEW D, Good(f, df, dr, t, H, K, D),
         NEW d \in D, NEW p \in Slots(df, d), Listed(Ent(dr, p)),
         NEW size \in 0..MaxSize, NEW e, e = [Ent(dr, p) EXCEPT !.size = size],
         EntryOK(df, K, D, e),
         e.cluster # 0 =>
           \A i \in DOMAIN t.inodes :
             ~t.inodes[i].is_dir /\ t.inodes[i].first_cluster = e.cluster => size <= t.inodes[i].size
  PROVE  Good(f, df, Put(dr, p, e), t, H, K, D)
<1> DEFINE s == ClusterChain(df, d)
           o == Ent(dr, p)
<1>1. /\ df \in Fats /\ dr \in DirTabs /\ d \in K /\ ChainsOK(df, K) /\ DiskOK(df, dr, K, D)
      /\ HasChain(df, d)
  BY GoodParts DEF ChainsOK
<1>2. CleanDir(dr, s)
  BY <1>1 DEF DiskOK
<1>3. o \in RawEntries /\ p[2] \in 1..SlotsPerCluster
  BY <1>1, SlotFacts
<1>4. e \in RawEntries /\ e.name = o.name /\ e.cluster = o.cluster /\ e.size = size
  BY <1>3 DEF RawEntries
<1>5. Listed(e) /\ ~IsFree(e) /\ ~IsFree(o) /\ Listed(o)
  BY <1>4 DEF Listed, IsFree
<1>6. PICK k \in 1..Len(s) : p[1] = s[k]
  BY <1>1, RowOfSlot
<1>7. o = dr[s[k]][p[2]]
  BY <1>6 DEF Ent
<1>8. \A j \in 1..Len(s), b \in 1..SlotsPerCluster : Earlier(j, b, k, p[2]) =>
        (dr[s[j]][b].name = END => IsFree(o)) /\ (~IsFree(o) => dr[s[j]][b].name # o.name)
  BY <1>2, <1>3, <1>6, <1>7 DEF CleanDir
<1>9. \A j \in 1..Len(s), b \in 1..SlotsPerCluster : Earlier(k, p[2], j, b) =>
        (o.name = END => IsFree(dr[s[j]][b])) /\ (~IsFree(dr[s[j]][b]) => o.name # dr[s[j]][b].name)
  BY <1>2, <1>3, <1>6, <1>7 DEF CleanDir
<1>10. CleanDir(Put(dr, p, e), s)
  <2> HIDE DEF o
  <2>1. \A j \in 1..Len(s), b \in 1..SlotsPerCluster : Earlier(j, b, k, p[2]) =>
          (dr[s[j]][b].name = END => IsFree(e)) /\ (~IsFree(e) => dr[s[j]][b].name # e.name)
    BY <1>4, <1>5, <1>8
  <2>2. \A j \in 1..Len(s), b \in 1..SlotsPerCluster : Earlier(k, p[2], j, b) =>
          (e.name = END => IsFree(dr[s[j]][b])) /\ (~IsFree(dr[s[j]][b]) => e.name # dr[s[j]][b].name)
    BY <1>4, <1>9
  <2> QED BY <1>1, <1>2, <1>4, <1>6, <2>1, <2>2, CleanPut
<1>11. e.cluster # d
  BY <1>1, <1>4 DEF DiskOK, AllEntriesOK
<1>12. ASSUME NEW b \in D, NEW q \in Slots(df, b), q # p, Listed(Ent(dr, q)), e.cluster # 0
       PROVE  Ent(dr, q).cluster # e.cluster
  BY <1>1, <1>4, <1>12 DEF DiskOK, ListedOnce
<1> QED BY <1>4, <1>5, <1>10, <1>11, <1>12, PutOK

-----------------------------------------------------------------------------
(***************************************************************************)
(* A directory grows by a cluster that is cleared.                         *)
(***************************************************************************)
LEMMA GrowDirOK ==
  ASSUME NEW f, NEW dr, NEW t, NEW H, NEW D, Good(f, f, dr, t, H, H, D),
         NEW new \in Clusters, f[new] = FREE, dr[new] = Cleared, NEW d \in D,
         NEW g \in Fats, g[new] = EOC, g[Last(ClusterChain(f, d))] = new,
         \A c \in Clusters \ {new, Last(ClusterChain(f, d))} : g[c] = f[c]
  PROVE  /\ Good(g, g, dr, t, H, H, D)
         /\ ClusterChain(g, d) = Append(ClusterChain(f, d), new)
         /\ \A h \in H : h # d => ClusterChain(g, h) = ClusterChain(f, h)
         /\ \A b \in D : \A q \in Slots(g, b) : q \in Slots(f, b) \/ q[1] = new
<1> DEFINE s == ClusterChain(f, d)
           n == ClusterChain(g, d)
<1>1. /\ f \in Fats /\ ChainsOK(f, H) /\ DiskOK(f, dr, H, D) /\ dr \in DirTabs
      /\ RootCluster \in D /\ D \subseteq H /\ TableOK(t) /\ InodesOK(f, t, H, D) /\ Agree(f, dr, t, D)
      /\ \A h \in H : Len(ClusterChain(f, h)) \in Nat
  BY GoodParts
<1>2. /\ ChainsOK(g, H) /\ n = Append(s, new) /\ On(g, d) = On(f, d) \cup {new}
      /\ \A h \in H : /\ new \notin On(f, h)
                      /\ h # d => ClusterChain(g, h) = ClusterChain(f, h) /\ On(g, h) = On(f, h)
  BY <1>1, LongerChain
<1>3. /\ s \in Seq(Clusters) /\ Len(s) \in Nat /\ \A k \in 1..Len(s) : s[k] \in On(f, d)
  BY <1>1, ChainElements, OnChain
<1>4. Len(n) = Len(s) + 1 /\ (\A k \in 1..Len(s) : n[k] = s[k]) /\ n[Len(s) + 1] = new
  <2> HIDE DEF s
  <2> QED BY <1>2, <1>3
<1>5. \A h \in H : Len(ClusterChain(g, h)) \in Nat /\ Len(ClusterChain(f, h)) <= Len(ClusterChain(g, h))
  <2> SUFFICES ASSUME NEW h \in H
               PROVE  Len(ClusterChain(g, h)) \in Nat /\ Len(ClusterChain(f, h)) <= Len(ClusterChain(g, h))
    OBVIOUS
  <2>1. CASE h = d
    BY <1>3, <1>4, <2>1
  <2>2. CASE h # d
    <3>1. ClusterChain(g, h) = ClusterChain(f, h) /\ Len(ClusterChain(f, h)) \in Nat
      BY <1>1, <1>2, <2>2
    <3> QED BY <3>1
  <2> QED BY <2>1, <2>2
<1>6. \A b \in 1..SlotsPerCluster : IsFree(dr[new][b]) /\ ~Listed(dr[new][b])
  BY DEF Cleared, Vacant, RawDirEntry, IsFree, Listed
<1>7. \A b \in D : \A q \in Slots(g, b) :
        \/ q \in Slots(f, b)
        \/ q[1] = new /\ q[2] \in 1..SlotsPerCluster
  <2> SUFFICES ASSUME NEW b \in D, NEW q \in Slots(g, b)
               PROVE  q \in Slots(f, b) \/ (q[1] = new /\ q[2] \in 1..SlotsPerCluster)
    OBVIOUS
  <2>1. On(g, b) \subseteq On(f, b) \cup {new}
    BY <1>1, <1>2
  <2> QED BY <2>1 DEF Slots
<1>8. \A b \in D : \A q \in Slots(g, b) : Listed(Ent(dr, q)) => q \in Slots(f, b)
  BY <1>6, <1>7 DEF Ent
<1>9. AllEntriesOK(g, dr, H, D)
  <2> SUFFICES ASSUME NEW b \in D, NEW q \in Slots(g, b), Listed(Ent(dr, q))
               PROVE  EntryOK(g, H, D, Ent(dr, q)) /\ Ent(dr, q).cluster # b
    BY DEF AllEntriesOK
  <2> DEFINE e == Ent(dr, q)
  <2>1. q \in Slots(f, b)
    BY <1>8
  <2>2. e \in RawEntries
    BY <1>1, <2>1, SlotFacts
  <2>3. EntryOK(f, H, D, e) /\ e.cluster # b
    BY <1>1, <2>1 DEF DiskOK, AllEntriesOK
  <2> HIDE DEF e
  <2>4. e.size \in Nat
    BY <2>2, BoundsAssumption DEF RawEntries
  <2>5. e.cluster \in H /\ Covered(f, e.cluster, e.size) => Covered(g, e.cluster, e.size)
    BY <1>1, <1>5, <2>4, CoveredMore
  <2>6. EntryOK(g, H, D, e)
    BY <2>3, <2>5 DEF EntryOK
  <2> QED BY <2>3, <2>6 DEF e
<1>10. ListedOnce(g, dr, D)
  BY <1>1, <1>8 DEF DiskOK, ListedOnce
<1>11. ASSUME NEW b \in D
       PROVE  CleanDir(dr, ClusterChain(g, b))
  <2>1. CleanDir(dr, ClusterChain(f, b))
    BY <1>1 DEF DiskOK
  <2>2. CASE b # d
    BY <1>1, <1>2, <2>1, <2>2
  <2>3. CASE b = d
    <3> SUFFICES ASSUME NEW j \in 1..Len(n), NEW k \in 1..Len(n), NEW a \in 1..SlotsPerCluster,
                        NEW c \in 1..SlotsPerCluster, Earlier(j, a, k, c)
                 PROVE  /\ dr[n[j]][a].name = END => IsFree(dr[n[k]][c])
                        /\ ~IsFree(dr[n[k]][c]) => dr[n[j]][a].name # dr[n[k]][c].name
      BY <2>3 DEF CleanDir
    <3>1. CASE k = Len(s) + 1
      BY <1>4, <1>6, <3>1
    <3>2. CASE k # Len(s) + 1
      <4>1. k \in 1..Len(s) /\ j \in 1..Len(s)
        <5>1. Len(s) \in Nat /\ Len(n) = Len(s) + 1 /\ j <= k
          BY <1>3, <1>4 DEF Earlier
        <5> HIDE DEF n, s
        <5> QED BY <3>2, <5>1
      <4>2. n[k] = s[k] /\ n[j] = s[j] /\ CleanDir(dr, s)
        BY <1>4, <2>1, <2>3, <4>1
      <4> HIDE DEF n, s
      <4> QED BY <4>1, <4>2 DEF CleanDir
    <3> QED BY <3>1, <3>2
  <2> QED BY <2>2, <2>3
<1>12. DiskOK(g, dr, H, D)
  BY <1>1, <1>2, <1>9, <1>10, <1>11 DEF DiskOK
<1>13. Ahead(g, g, H, H, D)
  BY <1>5 DEF Ahead
<1>14. InodesOK(g, t, H, D)
  <2>1. ASSUME NEW i \in DOMAIN t.inodes
        PROVE  InodeOK(g, H, D, t.inodes[i])
    <3> DEFINE ino == t.inodes[i]
    <3>1. ino.size \in Nat /\ InodeOK(f, H, D, ino)
      BY <1>1, BoundsAssumption DEF TableOK, Inodes, InodesOK
    <3> HIDE DEF ino
    <3>2. ino.first_cluster \in H /\ Covered(f, ino.first_cluster, ino.size) => Covered(g, ino.first_cluster, ino.size)
      BY <1>1, <1>5, <3>1, CoveredMore
    <3>3. InodeOK(g, H, D, ino)
      BY <3>1, <3>2 DEF InodeOK
    <3> QED BY <3>3 DEF ino
  <2> QED BY <1>1, <2>1 DEF InodesOK
<1>15. Agree(g, dr, t, D)
  BY <1>1, <1>8 DEF Agree
<1>16. Good(g, g, dr, t, H, H, D)
  BY <1>1, <1>2, <1>12, <1>13, <1>14, <1>15 DEF Good
<1> QED BY <1>2, <1>7, <1>16

(***************************************************************************)
(* A new directory, before anything names it.                              *)
(***************************************************************************)
SameBut(e, dr, new) == \A c \in Clusters \ {new} : e[c] = dr[c]

\* The directory of one cluster that lists nothing.
EmptyDir(e, new) == (\A b \in 1..SlotsPerCluster : ~Listed(e[new][b])) /\ CleanDir(e, <<new>>)

LEMMA AddDirOK ==
  ASSUME NEW f, NEW dr, NEW t, NEW H, NEW D, Good(f, f, dr, t, H, H, D),
         NEW g, NEW new, Allocated(f, g, new), NEW e \in DirTabs, SameBut(e, dr, new),
         EmptyDir(e, new), NEW J, J = H \cup {new}, NEW E, E = D \cup {new}
  PROVE  /\ Good(g, g, e, t, J, J, E)
         /\ new \notin H /\ \A h \in H : ClusterChain(g, h) = ClusterChain(f, h)
         /\ \A d \in D : ClusterChain(g, d) = ClusterChain(f, d) /\ Slots(g, d) = Slots(f, d)
         /\ \A b \in E : \A q \in Slots(g, b) :
              Listed(Ent(e, q)) => b # new /\ Ent(e, q) = Ent(dr, q) /\ Ent(e, q).cluster # new
         /\ \A i \in DOMAIN t.inodes : t.inodes[i].first_cluster # new
<1>1. /\ f \in Fats /\ ChainsOK(f, H) /\ DiskOK(f, dr, H, D) /\ dr \in DirTabs
      /\ RootCluster \in D /\ D \subseteq H /\ TableOK(t) /\ InodesOK(f, t, H, D) /\ Agree(f, dr, t, D)
      /\ \A h \in H : Len(ClusterChain(f, h)) \in Nat
  BY GoodParts
<1>0. /\ new \in Clusters /\ f[new] = FREE /\ g \in Fats
      /\ \A c \in Clusters : c # new => e[c] = dr[c]
      /\ \A b \in 1..SlotsPerCluster : ~Listed(e[new][b])
      /\ CleanDir(e, <<new>>)
  BY DEF Allocated, SameBut, EmptyDir
<1>2. /\ new \notin H /\ ChainsOK(g, J)
      /\ ClusterChain(g, new) = <<new>> /\ On(g, new) = {new}
      /\ \A h \in H : /\ ClusterChain(g, h) = ClusterChain(f, h) /\ On(g, h) = On(f, h)
                      /\ new \notin On(f, h)
  BY <1>1, NewChain
<1>3. \A d \in D : ClusterChain(g, d) = ClusterChain(f, d) /\ Slots(g, d) = Slots(f, d)
  BY <1>1, <1>2 DEF Slots
<1>4. ASSUME NEW d \in D, NEW q \in Slots(g, d)
      PROVE  q \in Slots(f, d) /\ Ent(e, q) = Ent(dr, q)
  <2>1. q \in Slots(f, d) /\ q[1] \in On(f, d) /\ q[1] \in Clusters
    BY <1>1, <1>3, SlotFacts
  <2>2. q[1] # new
    BY <1>1, <1>2, <2>1
  <2> QED BY <1>0, <2>1, <2>2 DEF Ent
<1>5. \A q \in Slots(g, new) : ~Listed(Ent(e, q))
  BY <1>0, <1>2 DEF Slots, Ent
<1>6. \A b \in E : \A q \in Slots(g, b) :
        Listed(Ent(e, q)) => b \in D /\ q \in Slots(f, b) /\ Ent(e, q) = Ent(dr, q)
  BY <1>4, <1>5
<1>7. \A h \in H : Covered(g, h, 0) = Covered(f, h, 0) /\ \A size : Covered(g, h, size) = Covered(f, h, size)
  BY <1>2 DEF Covered
<1>8. AllEntriesOK(g, e, J, E)
  <2> SUFFICES ASSUME NEW b \in E, NEW q \in Slots(g, b), Listed(Ent(e, q))
               PROVE  EntryOK(g, J, E, Ent(e, q)) /\ Ent(e, q).cluster # b
    BY DEF AllEntriesOK
  <2>1. b \in D /\ q \in Slots(f, b) /\ Ent(e, q) = Ent(dr, q)
    BY <1>6
  <2>2. EntryOK(f, H, D, Ent(dr, q)) /\ Ent(dr, q).cluster # b
    BY <1>1, <2>1 DEF DiskOK, AllEntriesOK
  <2> QED BY <1>2, <1>7, <2>1, <2>2 DEF EntryOK
<1>9. ListedOnce(g, e, E)
  <2>1. ListedOnce(f, dr, D)
    BY <1>1 DEF DiskOK
  <2> QED BY <1>6, <2>1 DEF ListedOnce
<1>10. ASSUME NEW b \in E
       PROVE  CleanDir(e, ClusterChain(g, b))
  <2>1. CASE b = new
    BY <1>0, <1>2, <2>1
  <2>2. CASE b # new
    <3> DEFINE s == ClusterChain(f, b)
    <3>1. \A k \in 1..Len(s) : e[s[k]] = dr[s[k]]
      <4>1. b \in H /\ HasChain(f, b)
        BY <1>1, <2>2 DEF ChainsOK
      <4>2. \A k \in 1..Len(s) : s[k] \in On(f, b) /\ s[k] \in Clusters
        BY <1>1, <4>1, OnChain
      <4> QED BY <1>0, <1>2, <4>1, <4>2
    <3>2. CleanDir(dr, s) /\ ClusterChain(g, b) = s
      BY <1>1, <1>3, <2>2 DEF DiskOK
    <3> HIDE DEF s
    <3>3. CleanDir(e, s)
      BY <3>1, <3>2 DEF CleanDir
    <3> QED BY <3>2, <3>3
  <2> QED BY <2>1, <2>2
<1>11. DiskOK(g, e, J, E)
  BY <1>0, <1>1, <1>2, <1>8, <1>9, <1>10 DEF DiskOK
<1>12. Ahead(g, g, J, J, E)
  <2>1. \A h \in J : Len(ClusterChain(g, h)) \in Nat
    BY <1>0, <1>2, LenChain
  <2> QED BY <2>1 DEF Ahead
<1>13. InodesOK(g, t, J, E)
  <2>1. ASSUME NEW i \in DOMAIN t.inodes
        PROVE  InodeOK(g, J, E, t.inodes[i])
    <3>1. InodeOK(f, H, D, t.inodes[i])
      BY <1>1 DEF InodesOK
    <3> QED BY <1>2, <1>7, <3>1 DEF InodeOK
  <2> QED BY <1>1, <2>1 DEF InodesOK
<1>14. Agree(g, e, t, E)
  BY <1>1, <1>6 DEF Agree
<1>15. Good(g, g, e, t, J, J, E)
  BY <1>0, <1>1, <1>2, <1>11, <1>12, <1>13, <1>14 DEF Good
<1>16. \A i \in DOMAIN t.inodes : t.inodes[i].first_cluster # new
  BY <1>0, <1>1, <1>2, Numbers DEF InodesOK, InodeOK
<1>17. \A b \in E : \A q \in Slots(g, b) : Listed(Ent(e, q)) => b # new /\ Ent(e, q).cluster # new
  <2> SUFFICES ASSUME NEW b \in E, NEW q \in Slots(g, b), Listed(Ent(e, q))
               PROVE  b # new /\ Ent(e, q).cluster # new
    OBVIOUS
  <2>1. b \in D /\ q \in Slots(f, b) /\ Ent(e, q) = Ent(dr, q)
    BY <1>6
  <2>2. EntryOK(f, H, D, Ent(dr, q))
    BY <1>1, <2>1 DEF DiskOK, AllEntriesOK
  <2> QED BY <1>0, <1>1, <1>2, <2>1, <2>2, Numbers DEF EntryOK
<1> QED BY <1>2, <1>3, <1>6, <1>15, <1>16, <1>17

(***************************************************************************)
(* A chain is freed that nothing names any more.                           *)
(***************************************************************************)
Freed(f, g, c) == \A x \in Clusters \ On(f, c) : g[x] = f[x]

LEMMA FreeHeadOK ==
  ASSUME NEW f, NEW dr, NEW t, NEW H, NEW D, Good(f, f, dr, t, H, H, D),
         NEW c \in H, c # RootCluster,
         NEW g \in Fats, Freed(f, g, c),
         \A b \in D : \A q \in Slots(f, b) : Listed(Ent(dr, q)) => Ent(dr, q).cluster # c,
         \A i \in DOMAIN t.inodes : t.inodes[i].first_cluster # c
  PROVE  Good(g, g, dr, t, H \ {c}, H \ {c}, D \ {c})
<1> DEFINE J == H \ {c}
           E == D \ {c}
<1>1. /\ f \in Fats /\ ChainsOK(f, H) /\ DiskOK(f, dr, H, D) /\ dr \in DirTabs
      /\ RootCluster \in D /\ D \subseteq H /\ TableOK(t) /\ InodesOK(f, t, H, D) /\ Agree(f, dr, t, D)
  BY GoodParts
<1>2. /\ ChainsOK(g, J)
      /\ \A h \in J : ClusterChain(g, h) = ClusterChain(f, h) /\ On(g, h) = On(f, h)
  <2>1. f \in Fats /\ ChainsOK(f, H)
    BY <1>1
  <2>2. \A h \in J : \A x \in On(f, h) : g[x] = f[x]
    BY <2>1, ChainElements DEF Freed
  <2>3. J \in SUBSET H
    OBVIOUS
  <2> HIDE DEF J
  <2> QED BY <2>1, <2>2, <2>3, SameChains
<1>3. \A d \in E : ClusterChain(g, d) = ClusterChain(f, d) /\ Slots(g, d) = Slots(f, d) /\ d \in D
  BY <1>1, <1>2 DEF Slots
<1>4. \A h \in J : \A size : Covered(g, h, size) = Covered(f, h, size)
  BY <1>2 DEF Covered
<1>5. AllEntriesOK(g, dr, J, E)
  <2> SUFFICES ASSUME NEW b \in E, NEW q \in Slots(g, b), Listed(Ent(dr, q))
               PROVE  EntryOK(g, J, E, Ent(dr, q)) /\ Ent(dr, q).cluster # b
    BY DEF AllEntriesOK
  <2>1. b \in D /\ q \in Slots(f, b)
    BY <1>3
  <2>2. EntryOK(f, H, D, Ent(dr, q)) /\ Ent(dr, q).cluster # b /\ Ent(dr, q).cluster # c
    BY <1>1, <2>1 DEF DiskOK, AllEntriesOK
  <2> QED BY <1>4, <2>2 DEF EntryOK
<1>6. ListedOnce(g, dr, E)
  <2>1. ListedOnce(f, dr, D)
    BY <1>1 DEF DiskOK
  <2> QED BY <1>3, <2>1 DEF ListedOnce
<1>7. \A b \in E : CleanDir(dr, ClusterChain(g, b))
  BY <1>1, <1>3 DEF DiskOK
<1>8. DiskOK(g, dr, J, E)
  BY <1>1, <1>2, <1>5, <1>6, <1>7 DEF DiskOK
<1>9. Ahead(g, g, J, J, E)
  <2>1. \A h \in J : Len(ClusterChain(g, h)) \in Nat
    BY <1>2, LenChain
  <2> HIDE DEF J
  <2> QED BY <2>1 DEF Ahead
<1>10. InodesOK(g, t, J, E)
  <2>1. ASSUME NEW i \in DOMAIN t.inodes
        PROVE  InodeOK(g, J, E, t.inodes[i])
    <3>1. InodeOK(f, H, D, t.inodes[i]) /\ t.inodes[i].first_cluster # c
      BY <1>1 DEF InodesOK
    <3> QED BY <1>4, <3>1 DEF InodeOK
  <2> QED BY <1>1, <2>1 DEF InodesOK
<1>11. Agree(g, dr, t, E)
  BY <1>1, <1>3 DEF Agree
<1> QED BY <1>1, <1>2, <1>8, <1>9, <1>10, <1>11 DEF Good

(***************************************************************************)
(* The inode of what was removed is forgotten.                             *)
(***************************************************************************)
LEMMA DropOK ==
  ASSUME NEW f, NEW df, NEW dr, NEW t, NEW H, NEW K, NEW D, Good(f, df, dr, t, H, K, D),
         NEW c \in Clusters \cup {0}, c # RootCluster, NEW is_dir \in BOOLEAN
  PROVE  /\ Good(f, df, dr, DropInode(t, c, is_dir), H, K, D)
         /\ DropInode(t, c, is_dir).next_inode = t.next_inode
         /\ c \in H /\ (is_dir <=> c \in D) =>
              \A i \in DOMAIN DropInode(t, c, is_dir).inodes :
                DropInode(t, c, is_dir).inodes[i].first_cluster # c
<1> DEFINE u == DropInode(t, c, is_dir)
           M == Matching(t, c, is_dir)
           v == Min(M)
<1>1. /\ TableOK(t) /\ InodesOK(f, t, H, D) /\ Agree(df, dr, t, D) /\ 0 \notin H /\ D \subseteq H
  BY GoodParts, Numbers DEF ChainsOK
<1>2. /\ t = [inodes |-> t.inodes, next_inode |-> t.next_inode]
      /\ t.next_inode \in Nat /\ t.next_inode >= 2 /\ DOMAIN t.inodes \subseteq 1 .. t.next_inode - 1
      /\ \A i \in DOMAIN t.inodes : t.inodes[i] \in Inodes
      /\ 1 \in DOMAIN t.inodes /\ t.inodes[1].first_cluster = RootCluster
  BY <1>1 DEF TableOK
<1>3. M = {i \in DOMAIN t.inodes : t.inodes[i].first_cluster = c /\ t.inodes[i].is_dir = is_dir}
  BY DEF Matching
<1>4. ASSUME c \in H, is_dir <=> c \in D, NEW i \in DOMAIN t.inodes, t.inodes[i].first_cluster = c
      PROVE  i \in M
  <2>1. InodeOK(f, H, D, t.inodes[i]) /\ t.inodes[i].is_dir \in BOOLEAN
    BY <1>1, <1>2 DEF InodesOK, Inodes
  <2>2. t.inodes[i].is_dir <=> c \in D
    BY <1>1, <1>4, <2>1 DEF InodeOK
  <2>3. t.inodes[i].is_dir = is_dir
    BY <1>4, <2>1, <2>2
  <2> QED BY <1>3, <1>4, <2>3
<1>5. CASE M = {}
  <2>1. u = t
    BY <1>5 DEF DropInode
  <2> QED BY <1>4, <1>5, <2>1
<1>6. CASE M # {}
  <2>1. v \in M
    <3>1. M \in SUBSET Nat
      BY <1>2, <1>3
    <3> HIDE DEF M
    <3> QED BY <1>6, <3>1, MinOfNat
  <2>2. v \in DOMAIN t.inodes /\ t.inodes[v].first_cluster = c /\ v # 1
    BY <1>2, <1>3, <2>1
  <2> DEFINE new == [i \in DOMAIN t.inodes \ {v} |-> t.inodes[i]]
  <2>3. u = [t EXCEPT !.inodes = new]
    BY <1>6 DEF DropInode
  <2>4. DOMAIN new = DOMAIN t.inodes \ {v} /\ \A i \in DOMAIN new : new[i] = t.inodes[i]
    OBVIOUS
  <2>5. new \in [DOMAIN new -> Inodes]
    BY <1>2
  <2> HIDE DEF new
  <2>6. u.inodes = new /\ u.next_inode = t.next_inode /\ u = [inodes |-> u.inodes, next_inode |-> u.next_inode]
    BY <1>2, <2>3
  <2> HIDE DEF u, v
  <2>7. TableOK(u)
    <3>1. DOMAIN u.inodes \subseteq 1 .. u.next_inode - 1 /\ u.inodes \in [DOMAIN u.inodes -> Inodes]
      BY <1>2, <2>4, <2>5, <2>6
    <3>2. 1 \in DOMAIN u.inodes /\ u.inodes[1].first_cluster = RootCluster
      BY <1>2, <2>2, <2>4, <2>6
    <3> QED BY <1>2, <2>6, <3>1, <3>2 DEF TableOK
  <2>8. \A i \in DOMAIN u.inodes : i \in DOMAIN t.inodes /\ i # v /\ u.inodes[i] = t.inodes[i]
    BY <2>4, <2>6
  <2>9. InodesOK(f, u, H, D)
    BY <1>1, <2>8 DEF InodesOK
  <2>10. Agree(df, dr, u, D)
    BY <1>1, <2>8 DEF Agree
  <2>11. Good(f, df, dr, u, H, K, D)
    BY <2>7, <2>9, <2>10 DEF Good
  <2>12. \A i \in DOMAIN u.inodes : u.inodes[i].first_cluster # c
    BY <1>1, <2>2, <2>8 DEF InodesOK
  <2> QED BY <2>6, <2>11, <2>12 DEF u
<1> QED BY <1>5, <1>6

(***************************************************************************)
(* The inode of a file gets its first cluster and its size.                *)
(***************************************************************************)
LEMMA SetInodeOK ==
  ASSUME NEW f, NEW df, NEW dr, NEW t, NEW H, NEW K, NEW D, Good(f, df, dr, t, H, K, D),
         NEW i \in DOMAIN t.inodes, NEW u, i # 1,
         u = [inodes |-> u.inodes, next_inode |-> u.next_inode], u.next_inode = t.next_inode,
         DOMAIN u.inodes = DOMAIN t.inodes, u.inodes = [j \in DOMAIN t.inodes |-> u.inodes[j]],
         \A j \in DOMAIN t.inodes : j # i => u.inodes[j] = t.inodes[j],
         u.inodes[i] \in Inodes, InodeOK(f, H, D, u.inodes[i]),
         \A j \in DOMAIN t.inodes : j # i => t.inodes[j].first_cluster # u.inodes[i].first_cluster,
         \A d \in D : \A p \in Slots(df, d) :
           /\ Listed(Ent(dr, p)) /\ Ent(dr, p).cluster # 0 /\ Ent(dr, p).cluster = u.inodes[i].first_cluster
           => Ent(dr, p).size <= u.inodes[i].size
  PROVE  Good(f, df, dr, u, H, K, D)
<1>1. TableOK(t) /\ InodesOK(f, t, H, D) /\ Agree(df, dr, t, D)
  BY GoodParts
<1>2. TableOK(u)
  <2>1. \A j \in DOMAIN t.inodes : u.inodes[j] \in Inodes
    BY <1>1 DEF TableOK
  <2>2. u.inodes \in [DOMAIN u.inodes -> Inodes]
    BY <2>1
  <2>3. DOMAIN u.inodes \subseteq 1 .. u.next_inode - 1 /\ u.next_inode \in Nat /\ u.next_inode >= 2
        /\ 1 \in DOMAIN u.inodes /\ u.inodes[1].first_cluster = RootCluster
    BY <1>1 DEF TableOK
  <2> QED BY <2>2, <2>3 DEF TableOK
<1>3. InodesOK(f, u, H, D)
  <2>1. \A j \in DOMAIN u.inodes : InodeOK(f, H, D, u.inodes[j])
    BY <1>1 DEF InodesOK
  <2>2. ASSUME NEW j \in DOMAIN u.inodes, NEW k \in DOMAIN u.inodes,
               u.inodes[j].first_cluster = u.inodes[k].first_cluster, j # k
        PROVE  FALSE
    <3>1. CASE j = i
      BY <2>2, <3>1
    <3>2. CASE k = i
      BY <2>2, <3>2
    <3>3. CASE j # i /\ k # i
      BY <1>1, <2>2, <3>3 DEF InodesOK
    <3> QED BY <3>1, <3>2, <3>3
  <2> QED BY <2>1, <2>2 DEF InodesOK
<1>4. Agree(df, dr, u, D)
  <2> SUFFICES ASSUME NEW j \in DOMAIN u.inodes, NEW d \in D, NEW p \in Slots(df, d),
                      Listed(Ent(dr, p)), Ent(dr, p).cluster # 0, ~u.inodes[j].is_dir,
                      Ent(dr, p).cluster = u.inodes[j].first_cluster
               PROVE  Ent(dr, p).size <= u.inodes[j].size
    BY DEF Agree
  <2>1. CASE j = i
    BY <2>1
  <2>2. CASE j # i
    BY <1>1, <2>2 DEF Agree
  <2> QED BY <2>1, <2>2
<1> QED BY <1>2, <1>3, <1>4 DEF Good

-----------------------------------------------------------------------------
(***************************************************************************)
(* The machine that the operators work on.  A write to the disk succeeds,  *)
(* or it changes nothing.                                                  *)
(***************************************************************************)
Machines == [fat : Fats, disk_fat : Fats, dirs : DirTabs, data : DataTabs,
             first : Clusters \cup {0}, left : Nat, result : {"ok", "err", "ata"},
             sound : BOOLEAN, disk_sound : BOOLEAN]

SameHistory(w, m) == w.sound = m.sound /\ w.disk_sound = m.disk_sound

Same(w, m) ==
  /\ w.fat = m.fat /\ w.disk_fat = m.disk_fat /\ w.dirs = m.dirs /\ w.data = m.data /\ w.first = m.first
  /\ SameHistory(w, m)

LEMMA DiskWriteIs ==
  ASSUME NEW m \in Machines, NEW n \in Machines, n.left = m.left, n.result = m.result
  PROVE  /\ DiskWrite(m, n) \in Machines
         /\ m.result # "ok" => DiskWrite(m, n) = m
         /\ m.result = "ok" => \/ DiskWrite(m, n).result = "ata" /\ Same(DiskWrite(m, n), m)
                               \/ DiskWrite(m, n).result = "ok" /\ Same(DiskWrite(m, n), n)
<1>1. CASE m.result # "ok"
  BY <1>1 DEF DiskWrite
<1>2. CASE m.result = "ok" /\ m.left = 0
  <2>1. DiskWrite(m, n) = [m EXCEPT !.result = "ata"]
    BY <1>2 DEF DiskWrite
  <2> QED BY <1>2, <2>1 DEF Machines, Same, SameHistory
<1>3. CASE m.result = "ok" /\ m.left # 0
  <2>1. DiskWrite(m, n) = [n EXCEPT !.left = @ - 1]
    BY <1>3 DEF DiskWrite
  <2>2. n.left \in Nat /\ n.left # 0 /\ n.left - 1 \in Nat
    BY <1>3 DEF Machines
  <2> QED BY <1>3, <2>1, <2>2 DEF Machines, Same, SameHistory
<1> QED BY <1>1, <1>2, <1>3

LEMMA WriteSlotsIs ==
  ASSUME NEW m \in Machines, m.result = "ok", NEW c \in Clusters,
         NEW slots \in [1..SlotsPerCluster -> RawEntries],
         NEW w, w = WriteSlots(m, c, slots)
  PROVE  /\ w \in Machines
         /\ \/ w.result = "ata" /\ Same(w, m)
            \/ /\ w.result = "ok" /\ w.dirs = [m.dirs EXCEPT ![c] = slots]
               /\ w.fat = m.fat /\ w.disk_fat = m.disk_fat /\ w.data = m.data /\ w.first = m.first
               /\ SameHistory(w, m)
<1> DEFINE n == [m EXCEPT !.dirs[c] = slots]
<1>1. /\ n \in Machines /\ n.left = m.left /\ n.result = m.result /\ n.dirs = [m.dirs EXCEPT ![c] = slots]
      /\ n.fat = m.fat /\ n.disk_fat = m.disk_fat /\ n.data = m.data /\ n.first = m.first
      /\ SameHistory(n, m)
  <2>1. m.dirs \in DirTabs /\ [m.dirs EXCEPT ![c] = slots] \in DirTabs
    BY DEF Machines, DirTabs
  <2>2. n = [m EXCEPT !.dirs = [m.dirs EXCEPT ![c] = slots]]
    BY DEF Machines
  <2> DEFINE e == [m.dirs EXCEPT ![c] = slots]
  <2> HIDE DEF e
  <2>3. n = [m EXCEPT !.dirs = e] /\ e \in DirTabs
    BY <2>1, <2>2 DEF e
  <2> HIDE DEF n
  <2>4. /\ n \in Machines /\ n.left = m.left /\ n.result = m.result /\ n.dirs = e
        /\ n.fat = m.fat /\ n.disk_fat = m.disk_fat /\ n.data = m.data /\ n.first = m.first
        /\ SameHistory(n, m)
    BY <2>3 DEF Machines, SameHistory
  <2> QED BY <2>4 DEF e
<1>2. w = DiskWrite(m, n)
  BY DEF WriteSlots
<1> HIDE DEF n
<1>3. w \in Machines /\ \/ w.result = "ata" /\ Same(w, m)
                        \/ w.result = "ok" /\ Same(w, n)
  BY <1>1, <1>2, DiskWriteIs
<1> QED BY <1>1, <1>3 DEF Same, SameHistory

\* What the disk may hold after a write of the FAT that leaves it sound.
Flushed(m, w) ==
  w.disk_sound => UpToDate(m, w.disk_fat) \/ (m.disk_sound /\ w.disk_fat = m.disk_fat)

LEMMA FlushIs ==
  ASSUME NEW m \in Machines, NEW w, w = FlushFat(m)
  PROVE  /\ w \in Machines
         /\ w.fat = m.fat /\ w.dirs = m.dirs /\ w.data = m.data /\ w.first = m.first /\ w.sound = m.sound
         /\ m.result # "ok" => w = m
         /\ m.result = "ok" =>
              Flushed(m, w) /\ (w.result = "ata" \/ (w.result = "ok" /\ w.disk_fat = m.fat))
<1> DEFINE table == WrittenFat(m)
<1>1. m.fat \in Fats /\ m.disk_fat \in Fats /\ m.left \in Nat
  BY DEF Machines
<1>2. table \in Fats
  BY <1>1 DEF WrittenFat, Fats
<1>3. CASE m.result # "ok"
  BY <1>3 DEF FlushFat
<1>4. CASE m.result = "ok" /\ m.left <= FatSectors
  <2> DEFINE b == UpToDate(m, table) \/ (m.disk_sound /\ table = m.disk_fat)
  <2>1. w = [m EXCEPT !.disk_fat = table, !.left = 0, !.result = "ata", !.disk_sound = b]
    BY <1>4 DEF FlushFat, Machines
  <2> HIDE DEF table
  <2>2. b \in BOOLEAN /\ (b => UpToDate(m, table) \/ (m.disk_sound /\ table = m.disk_fat))
    BY DEF UpToDate
  <2> HIDE DEF b
  <2>3. PICK c \in BOOLEAN : c = b
    BY <2>2
  <2>4. w = [m EXCEPT !.disk_fat = table, !.left = 0, !.result = "ata", !.disk_sound = c]
    BY <2>1, <2>3
  <2>5. /\ w \in Machines /\ w.disk_fat = table /\ w.result = "ata"
        /\ w.fat = m.fat /\ w.dirs = m.dirs /\ w.data = m.data /\ w.first = m.first /\ w.sound = m.sound
    <3>1. /\ w.disk_fat = table /\ w.result = "ata" /\ w.left = 0
          /\ w.fat = m.fat /\ w.dirs = m.dirs /\ w.data = m.data /\ w.first = m.first /\ w.sound = m.sound
      BY <2>4 DEF Machines
    <3>2. [m EXCEPT !.disk_fat = table, !.left = 0, !.result = "ata"] \in Machines
      BY <1>2 DEF Machines
    <3>3. w = [[m EXCEPT !.disk_fat = table, !.left = 0, !.result = "ata"] EXCEPT !.disk_sound = c]
      BY <2>4
    <3>4. w \in Machines
      BY <3>2, <3>3, Zenon DEF Machines
    <3> QED BY <3>1, <3>4
  <2>6. w.disk_sound = c
    BY <2>4 DEF Machines
  <2>7. Flushed(m, w)
    BY <2>2, <2>3, <2>5, <2>6 DEF Flushed
  <2> QED BY <1>4, <2>5, <2>7
<1>5. CASE m.result = "ok" /\ ~(m.left <= FatSectors)
  <2>1. w = [m EXCEPT !.disk_fat = m.fat, !.left = m.left - FatSectors - 1, !.disk_sound = TRUE]
    BY <1>5 DEF FlushFat, Machines
  <2>2. m.left - FatSectors - 1 \in Nat
    <3>1. FatSectors \in Nat
      <4>1. NClusters + 1 \in Nat /\ EntriesPerSector \in Nat \ {0}
        BY GeometryAssumption
      <4> QED BY <4>1 DEF FatSectors, SectorOf
    <3> QED BY <1>1, <1>5, <3>1
  <2>3. /\ w \in Machines /\ w.disk_fat = m.fat /\ w.result = "ok"
        /\ w.fat = m.fat /\ w.dirs = m.dirs /\ w.data = m.data /\ w.first = m.first /\ w.sound = m.sound
    BY <1>1, <1>5, <2>1, <2>2 DEF Machines
  <2>4. Flushed(m, w)
    BY <2>3 DEF Flushed, UpToDate
  <2> QED BY <1>5, <2>3, <2>4
<1> QED BY <1>3, <1>4, <1>5

LEMMA PutEntryIs ==
  ASSUME NEW m \in Machines, m.result = "ok", NEW p, p[1] \in Clusters, p[2] \in 1..SlotsPerCluster,
         NEW e \in RawEntries, NEW w, w = PutEntry(m, p, e)
  PROVE  /\ w \in Machines
         /\ \/ w.result = "ata" /\ Same(w, m)
            \/ /\ w.result = "ok" /\ w.dirs = Put(m.dirs, p, e)
               /\ w.fat = m.fat /\ w.disk_fat = m.disk_fat /\ w.data = m.data /\ w.first = m.first
               /\ SameHistory(w, m)
<1> DEFINE slots == [m.dirs[p[1]] EXCEPT ![p[2]] = e]
<1>1. slots \in [1..SlotsPerCluster -> RawEntries]
  BY DEF Machines, DirTabs
<1>2. w = WriteSlots(m, p[1], slots) /\ Put(m.dirs, p, e) = [m.dirs EXCEPT ![p[1]] = slots]
  BY DEF PutEntry, Put
<1> HIDE DEF slots
<1> QED BY <1>1, <1>2, WriteSlotsIs

LEMMA AllocIs ==
  ASSUME NEW m \in Machines, FreeClusters(m) # {}
  PROVE  /\ Allocated(m.fat, AllocCluster(m).fat, NextFree(m)) /\ AllocCluster(m) \in Machines
         /\ AllocCluster(m).disk_fat = m.disk_fat /\ AllocCluster(m).dirs = m.dirs
         /\ AllocCluster(m).data = m.data /\ AllocCluster(m).first = m.first
         /\ AllocCluster(m).result = m.result /\ AllocCluster(m).left = m.left
         /\ SameHistory(AllocCluster(m), m)
<1> DEFINE new == NextFree(m)
           w == AllocCluster(m)
<1>1. FreeClusters(m) \in SUBSET Nat
  BY Numbers DEF FreeClusters
<1>2. new \in FreeClusters(m)
  BY <1>1, MinOfNat DEF NextFree
<1>3. new \in Clusters /\ m.fat[new] = FREE
  BY <1>2 DEF FreeClusters
<1>4. m.fat \in Fats
  BY DEF Machines
<1> DEFINE g == [m.fat EXCEPT ![new] = EOC]
<1> HIDE DEF new
<1>5. Allocated(m.fat, g, new) /\ g \in Fats
  BY <1>3, <1>4 DEF Fats, Allocated
<1>6. w = [m EXCEPT !.fat = g]
  BY DEF AllocCluster, Machines, new
<1> HIDE DEF g, w
<1>7. /\ w \in Machines /\ w.fat = g
      /\ w.disk_fat = m.disk_fat /\ w.dirs = m.dirs /\ w.data = m.data /\ w.first = m.first
      /\ w.result = m.result /\ w.left = m.left /\ SameHistory(w, m)
  BY <1>5, <1>6 DEF Machines, SameHistory
<1> QED BY <1>5, <1>7 DEF w, new

\* A free cluster is linked to the end of the chain of h.
LinkedTo(f, g, h, new) ==
  /\ new \in Clusters /\ f[new] = FREE /\ g[new] = EOC /\ g[Last(ClusterChain(f, h))] = new
  /\ \A c \in Clusters \ {new, Last(ClusterChain(f, h))} : g[c] = f[c]

Link(m, h) == [AllocCluster(m) EXCEPT !.fat[Last(ClusterChain(m.fat, h))] = NextFree(m)]

LEMMA LinkIs ==
  ASSUME NEW m \in Machines, FreeClusters(m) # {}, NEW h, HasChain(m.fat, h), NEW w, w = Link(m, h)
  PROVE  /\ w \in Machines /\ LinkedTo(m.fat, w.fat, h, NextFree(m))
         /\ w.disk_fat = m.disk_fat /\ w.dirs = m.dirs /\ w.data = m.data /\ w.first = m.first
         /\ w.result = m.result /\ w.left = m.left /\ SameHistory(w, m)
<1> DEFINE new == NextFree(m)
           a == AllocCluster(m)
           last == Last(ClusterChain(m.fat, h))
           g == [a.fat EXCEPT ![last] = new]
<1>1. /\ Allocated(m.fat, a.fat, new) /\ a \in Machines
      /\ a.disk_fat = m.disk_fat /\ a.dirs = m.dirs /\ a.data = m.data /\ a.first = m.first
      /\ a.result = m.result /\ a.left = m.left /\ SameHistory(a, m)
  BY AllocIs
<1>2. /\ m.fat \in Fats /\ a.fat \in Fats /\ new \in Clusters /\ m.fat[new] = FREE
      /\ a.fat[new] = EOC /\ \A c \in Clusters \ {new} : a.fat[c] = m.fat[c]
  BY <1>1 DEF Machines, Allocated
<1>3. last \in Clusters /\ last # new
  <2>1. last \in On(m.fat, h) /\ On(m.fat, h) \subseteq Clusters /\ m.fat[last] = EOC
    BY <1>2, OnChain
  <2> QED BY <1>2, <2>1, Numbers
<1>4. w = [a EXCEPT !.fat = g]
  BY <1>1 DEF Machines, Link
<1> HIDE DEF a, last, new
<1>5. /\ g \in Fats /\ g[new] = EOC /\ g[last] = new
      /\ \A c \in Clusters \ {new, last} : g[c] = m.fat[c]
  BY <1>2, <1>3 DEF Fats
<1> HIDE DEF g
<1>6. /\ w \in Machines /\ w.fat = g
      /\ w.disk_fat = a.disk_fat /\ w.dirs = a.dirs /\ w.data = a.data /\ w.first = a.first
      /\ w.result = a.result /\ w.left = a.left /\ SameHistory(w, a)
  BY <1>1, <1>4, <1>5 DEF Machines, SameHistory
<1>7. LinkedTo(m.fat, w.fat, h, new)
  BY <1>2, <1>5, <1>6 DEF LinkedTo, last
<1> QED BY <1>1, <1>6, <1>7 DEF new, SameHistory

(***************************************************************************)
(* write_dir_entry has no room, or fails; or fills the first free slot, or *)
(* the first one of a new cluster, which it may fail to link.              *)
(***************************************************************************)
FirstOf(e) == [Cleared EXCEPT ![1] = e]

LEMMA FirstOfIs ==
  ASSUME NEW e \in RawEntries
  PROVE  /\ Cleared \in [1..SlotsPerCluster -> RawEntries]
         /\ FirstOf(e) \in [1..SlotsPerCluster -> RawEntries] /\ 1 \in 1..SlotsPerCluster
         /\ FirstOf(e)[1] = e /\ \A b \in 1..SlotsPerCluster : b # 1 => FirstOf(e)[b] = Vacant(END)
<1>1. Vacant(END) \in RawEntries
  BY BoundsAssumption DEF Vacant, RawDirEntry, RawEntries
<1>2. 1 \in 1..SlotsPerCluster
  BY Numbers
<1> QED BY <1>1, <1>2 DEF FirstOf, Cleared

NewEntry(m, n, d, e) ==
  \/ n.result \in {"err", "ata"} /\ Same(n, m)
  \/ /\ n.result = "ok" /\ FreeSlot(m, d) # 0
     /\ n.dirs = Put(m.dirs, Places(m, d)[FreeSlot(m, d)], e)
     /\ n.fat = m.fat /\ n.disk_fat = m.disk_fat /\ SameHistory(n, m)
  \/ /\ n.result = "ata" /\ ~n.sound
     /\ n.dirs = m.dirs /\ n.disk_fat = m.disk_fat /\ n.disk_sound = m.disk_sound
  \/ \E new \in Clusters :
       /\ FreeSlot(m, d) = 0 /\ LinkedTo(m.fat, n.fat, d, new)
       /\ n.dirs = [m.dirs EXCEPT ![new] = FirstOf(e)]
       /\ n.result = "ata" \/ (n.result = "ok" /\ n.disk_fat = n.fat)
       /\ n.disk_sound => UpToDate(n, n.disk_fat) \/ (m.disk_sound /\ n.disk_fat = m.disk_fat)

LEMMA WriteDirEntryIs ==
  ASSUME NEW m \in Machines, m.result = "ok", NEW d, HasChain(m.fat, d), NEW e \in RawEntries,
         NEW n, n = WriteDirEntry(m, d, e)
  PROVE  n \in Machines /\ n.data = m.data /\ n.first = m.first /\ NewEntry(m, n, d, e)
<1>0. m.fat \in Fats /\ m.dirs \in DirTabs
  BY DEF Machines
<1>1. CASE FreeSlot(m, d) # 0
  <2> DEFINE p == Places(m, d)[FreeSlot(m, d)]
  <2>1. n = PutEntry(m, p, e)
    BY <1>1 DEF WriteDirEntry, FreeSlot
  <2>2. p \in Slots(m.fat, d)
    BY <1>0, <1>1, FreeSlotIs
  <2>3. p[1] \in Clusters /\ p[2] \in 1..SlotsPerCluster
    BY <1>0, <2>2, OnChain DEF Slots
  <2> HIDE DEF p
  <2>4. /\ n \in Machines
        /\ \/ n.result = "ata" /\ Same(n, m)
           \/ /\ n.result = "ok" /\ n.dirs = Put(m.dirs, p, e)
              /\ n.fat = m.fat /\ n.disk_fat = m.disk_fat /\ n.data = m.data /\ n.first = m.first
              /\ SameHistory(n, m)
    BY <2>1, <2>3, PutEntryIs
  <2> QED BY <1>1, <2>4 DEF NewEntry, Same, p
<1>2. CASE FreeSlot(m, d) = 0 /\ FreeClusters(m) = {}
  <2>1. n = Fail(m)
    BY <1>2 DEF WriteDirEntry, FreeSlot
  <2>2. n = [m EXCEPT !.result = "err"]
    BY <2>1 DEF Fail
  <2> QED BY <2>2 DEF Machines, NewEntry, Same, SameHistory
<1>3. CASE FreeSlot(m, d) = 0 /\ FreeClusters(m) # {}
  <2> DEFINE new == NextFree(m)
             a == Link(m, d)
             w == WriteSlots(a, new, FirstOf(e))
             x == [w EXCEPT !.sound = (w.result = "ok")]
  <2>1. n = ExtendDir(m, d, e)
    BY <1>3 DEF WriteDirEntry, FreeSlot
  <2>2. n = FlushFat(x)
    BY <2>1 DEF ExtendDir, FirstOf, Link
  <2>3. /\ a \in Machines /\ LinkedTo(m.fat, a.fat, d, new)
        /\ a.disk_fat = m.disk_fat /\ a.dirs = m.dirs /\ a.data = m.data /\ a.first = m.first
        /\ a.result = m.result /\ SameHistory(a, m)
    BY <1>3, LinkIs
  <2> HIDE DEF a
  <2>4. new \in Clusters /\ FirstOf(e) \in [1..SlotsPerCluster -> RawEntries]
    BY <2>3, FirstOfIs DEF LinkedTo
  <2> HIDE DEF new
  <2>5. /\ w \in Machines
        /\ \/ w.result = "ata" /\ Same(w, a)
           \/ /\ w.result = "ok" /\ w.dirs = [a.dirs EXCEPT ![new] = FirstOf(e)]
              /\ w.fat = a.fat /\ w.disk_fat = a.disk_fat /\ w.data = a.data /\ w.first = a.first
              /\ SameHistory(w, a)
    BY <2>3, <2>4, WriteSlotsIs
  <2> HIDE DEF w
  <2>6. /\ x \in Machines /\ x.result = w.result /\ x.sound = (w.result = "ok")
        /\ x.fat = w.fat /\ x.disk_fat = w.disk_fat /\ x.dirs = w.dirs /\ x.data = w.data
        /\ x.first = w.first /\ x.disk_sound = w.disk_sound
    BY <2>5 DEF Machines
  <2> HIDE DEF x
  <2>7. /\ n \in Machines
        /\ n.fat = x.fat /\ n.dirs = x.dirs /\ n.data = x.data /\ n.first = x.first /\ n.sound = x.sound
        /\ x.result # "ok" => n = x
        /\ x.result = "ok" =>
              Flushed(x, n) /\ (n.result = "ata" \/ (n.result = "ok" /\ n.disk_fat = x.fat))
    BY <2>2, <2>6, FlushIs
  <2>8. CASE w.result = "ata"
    <3>1. ~x.sound /\ n = x
      BY <2>6, <2>7, <2>8
    <3>2. /\ n.result = "ata" /\ ~n.sound /\ n.dirs = m.dirs /\ n.disk_fat = m.disk_fat
          /\ n.disk_sound = m.disk_sound
      BY <2>3, <2>5, <2>6, <2>8, <3>1 DEF Same, SameHistory
    <3> QED BY <2>3, <2>5, <2>6, <2>7, <2>8, <3>2 DEF NewEntry, Same
  <2>9. CASE w.result = "ok"
    <3>1. /\ n.fat = a.fat /\ n.dirs = [m.dirs EXCEPT ![new] = FirstOf(e)]
          /\ n.data = m.data /\ n.first = m.first
          /\ n.result = "ata" \/ (n.result = "ok" /\ n.disk_fat = n.fat)
      BY <2>3, <2>5, <2>6, <2>7, <2>9
    <3>2. n.disk_sound => UpToDate(n, n.disk_fat) \/ (m.disk_sound /\ n.disk_fat = m.disk_fat)
      BY <2>3, <2>5, <2>6, <2>7, <2>9 DEF Flushed, UpToDate, SameHistory
    <3> QED BY <1>3, <2>3, <2>4, <2>7, <3>1, <3>2 DEF NewEntry
  <2> QED BY <2>5, <2>8, <2>9
<1> QED BY <1>1, <1>2, <1>3

(***************************************************************************)
(* The entry is in the directory once the FAT is on the disk.  It names no *)
(* cluster, or a directory that nothing else names.                        *)
(***************************************************************************)
FreshEntry(f, dr, t, D, d, e) ==
  /\ e \in RawEntries /\ Listed(e) /\ e.cluster # d
  /\ \/ e.cluster = 0 /\ ~e.is_dir /\ e.size = 0
     \/ e.cluster \in D \ {RootCluster} /\ e.is_dir
  /\ \A q \in Slots(f, d) : Ent(dr, q).name # e.name
  /\ e.cluster # 0 =>
       /\ \A b \in D : \A q \in Slots(f, b) : Listed(Ent(dr, q)) => Ent(dr, q).cluster # e.cluster
       /\ \A i \in DOMAIN t.inodes : t.inodes[i].first_cluster # e.cluster

LEMMA FreeSlotFilled ==
  ASSUME NEW m \in Machines, NEW f, NEW df, NEW t, NEW H, NEW K, NEW D, Good(f, df, m.dirs, t, H, K, D),
         NEW d \in D, ClusterChain(m.fat, d) = ClusterChain(df, d), HasChain(m.fat, d),
         NEW e, FreshEntry(df, m.dirs, t, D, d, e), FreeSlot(m, d) # 0
  PROVE  Good(f, df, Put(m.dirs, Places(m, d)[FreeSlot(m, d)], e), t, H, K, D)
<1> DEFINE p == Places(m, d)[FreeSlot(m, d)]
           s == ClusterChain(df, d)
<1>1. m.fat \in Fats /\ Slots(m.fat, d) = Slots(df, d) /\ D \subseteq K
  BY GoodParts DEF Machines, Slots, On
<1>2. PICK k \in 1..Len(s) :
        /\ p[1] = s[k]
        /\ \A j \in 1..Len(s), b \in 1..SlotsPerCluster : Earlier(j, b, k, p[2]) => ~IsFree(m.dirs[s[j]][b])
  BY <1>1, FirstFree
<1>3. p \in Slots(df, d)
  BY <1>1, FirstFree
<1> HIDE DEF p
<1>4. EntryOK(df, K, D, e)
  BY <1>1 DEF FreshEntry, EntryOK
<1>5. Good(f, df, Put(m.dirs, p, e), t, H, K, D)
  BY <1>2, <1>3, <1>4, AddEntryOK DEF FreshEntry
<1> QED BY <1>5 DEF p

LEMMA NewClusterFilled ==
  ASSUME NEW m \in Machines, NEW f, f = m.fat, NEW t, NEW H, NEW D, Good(f, f, m.dirs, t, H, H, D),
         NEW d \in D, NEW e, FreshEntry(f, m.dirs, t, D, d, e), FreeSlot(m, d) = 0,
         NEW g \in Fats, NEW new \in Clusters, LinkedTo(f, g, d, new)
  PROVE  Good(g, g, [m.dirs EXCEPT ![new] = FirstOf(e)], t, H, H, D)
<1> DEFINE dr == m.dirs
           dr1 == [dr EXCEPT ![new] = Cleared]
           p == <<new, 1>>
           s == ClusterChain(f, d)
           n == ClusterChain(g, d)
<1>1. /\ f \in Fats /\ ChainsOK(f, H) /\ D \subseteq H /\ DiskOK(f, dr, H, D) /\ dr \in DirTabs
      /\ HasChain(f, d)
  BY GoodParts DEF ChainsOK
<1>2. e \in RawEntries
  BY DEF FreshEntry
<1>3. dr1 \in DirTabs /\ dr1[new] = Cleared /\ \A c \in Clusters \ {new} : dr1[c] = dr[c]
  BY <1>1, <1>2, FirstOfIs DEF DirTabs
<1>4. \A b \in D : new \notin On(f, b) /\ On(f, b) \subseteq Clusters
  BY <1>1, ChainElements DEF LinkedTo
<1> HIDE DEF dr1
<1>5. Good(f, f, dr1, t, H, H, D)
  <2>1. \A b \in D : \A c \in On(f, b) : dr1[c] = dr[c]
    BY <1>3, <1>4
  <2> QED BY <1>3, <2>1, OtherClusters
<1>6. /\ Good(g, g, dr1, t, H, H, D) /\ n = Append(s, new)
      /\ \A b \in D : \A q \in Slots(g, b) : q \in Slots(f, b) \/ q[1] = new
  BY <1>3, <1>5, GrowDirOK DEF LinkedTo
<1>7. s \in Seq(Clusters) /\ Len(s) \in Nat /\ \A k \in 1..Len(s) : s[k] \in On(f, d)
  BY <1>1, OnChain
<1>8. Len(n) = Len(s) + 1 /\ (\A k \in 1..Len(s) : n[k] = s[k]) /\ n[Len(s) + 1] = new
  <2> HIDE DEF s
  <2> QED BY <1>6, <1>7
<1>9. ChainsOK(g, H) /\ d \in H /\ HasChain(g, d)
  BY <1>1, <1>6 DEF Good, ChainsOK
<1>10. Len(s) + 1 \in 1..Len(n)
  <2>1. Len(s) \in Nat /\ Len(n) = Len(s) + 1
    BY <1>7, <1>8
  <2> HIDE DEF s, n
  <2> QED BY <2>1
<1>11. p \in Slots(g, d) /\ p[1] = n[Len(s) + 1] /\ p[2] = 1 /\ p[1] = new
  <2>1. new \in On(g, d)
    BY <1>8, <1>9, <1>10, OnChain
  <2>2. 1 \in 1..SlotsPerCluster
    BY <1>2, FirstOfIs
  <2> QED BY <1>8, <2>1, <2>2 DEF Slots
<1>12. \A j \in 1..Len(n), b \in 1..SlotsPerCluster : Earlier(j, b, Len(s) + 1, p[2]) => ~IsFree(dr1[n[j]][b])
  <2> SUFFICES ASSUME NEW j \in 1..Len(n), NEW b \in 1..SlotsPerCluster, Earlier(j, b, Len(s) + 1, 1)
               PROVE  ~IsFree(dr1[n[j]][b])
    BY <1>11
  <2>1. j \in 1..Len(s)
    <3>1. Len(s) \in Nat /\ Len(n) = Len(s) + 1 /\ SlotsPerCluster \in Nat
      BY <1>7, <1>8, Numbers
    <3> HIDE DEF s, n
    <3> QED BY <3>1 DEF Earlier
  <2>2. n[j] = s[j] /\ s[j] \in On(f, d) /\ s[j] \in Clusters /\ s[j] # new
    BY <1>4, <1>7, <1>8, <2>1
  <2>3. <<s[j], b>> \in Slots(f, d)
    BY <2>2 DEF Slots
  <2>4. \A q \in Slots(f, d) : ~IsFree(At(m, q))
    BY <1>1, FreeSlotIs
  <2>5. ~IsFree(dr[s[j]][b])
    BY <2>3, <2>4 DEF At
  <2> QED BY <1>3, <2>2, <2>5
<1>13. \A b \in 1..SlotsPerCluster : dr1[new][b].name = END /\ ~Listed(dr1[new][b])
  BY <1>3 DEF Cleared, Vacant, RawDirEntry, IsFree, Listed
<1>14. ASSUME NEW b \in D, NEW q \in Slots(g, b)
       PROVE  \/ q \in Slots(f, b) /\ Ent(dr1, q) = Ent(dr, q)
              \/ Ent(dr1, q).name = END /\ ~Listed(Ent(dr1, q))
  <2>1. q[2] \in 1..SlotsPerCluster
    BY DEF Slots
  <2>2. CASE q \in Slots(f, b)
    <3>1. q[1] \in On(f, b)
      BY <2>2 DEF Slots
    <3>2. dr1[q[1]] = dr[q[1]]
      BY <1>3, <1>4, <3>1
    <3> QED BY <2>2, <3>2 DEF Ent
  <2>3. CASE q[1] = new
    BY <1>13, <2>1, <2>3 DEF Ent
  <2> QED BY <1>6, <2>2, <2>3
<1>15. EntryOK(g, H, D, e)
  BY <1>1 DEF FreshEntry, EntryOK
<1>16. Listed(e) /\ e.cluster # d /\ e.name # END
  BY DEF FreshEntry, Listed, IsFree
<1>17. \A q \in Slots(g, d) : Ent(dr1, q).name # e.name
  BY <1>14, <1>16 DEF FreshEntry
<1>18. e.cluster # 0 =>
         /\ \A b \in D : \A q \in Slots(g, b) : Listed(Ent(dr1, q)) => Ent(dr1, q).cluster # e.cluster
         /\ \A i \in DOMAIN t.inodes : t.inodes[i].first_cluster # e.cluster
  BY <1>14 DEF FreshEntry
<1> HIDE DEF p, n
<1>19. Good(g, g, Put(dr1, p, e), t, H, H, D)
  <2> DEFINE k == Len(s) + 1
  <2>1. k \in 1..Len(n) /\ p[1] = n[k] /\ p \in Slots(g, d)
        /\ \A j \in 1..Len(n), b \in 1..SlotsPerCluster : Earlier(j, b, k, p[2]) => ~IsFree(dr1[n[j]][b])
    BY <1>10, <1>11, <1>12
  <2> HIDE DEF k
  <2> QED BY <1>2, <1>6, <1>15, <1>16, <1>17, <1>18, <2>1, AddEntryOK DEF n
<1>20. Put(dr1, p, e) = [dr EXCEPT ![new] = FirstOf(e)]
  <2>1. [dr1[p[1]] EXCEPT ![p[2]] = e] = FirstOf(e)
    BY <1>3, <1>11 DEF FirstOf
  <2>2. Put(dr1, p, e) = [dr1 EXCEPT ![new] = FirstOf(e)]
    BY <1>11, <2>1 DEF Put
  <2>3. dr1 = [dr EXCEPT ![new] = Cleared]
    BY DEF dr1
  <2> QED BY <1>1, <2>2, <2>3 DEF DirTabs
<1> QED BY <1>19, <1>20

-----------------------------------------------------------------------------
(***************************************************************************)
(* The inductive invariant.                                                *)
(***************************************************************************)
Kept(f, df, dr, t) == \E H, K, D \in SUBSET Clusters : Good(f, df, dr, t, H, K, D)

Mountable(df, dr) == \E K, D \in SUBSET Clusters : DiskOK(df, dr, K, D)

\* g is what the FAT on the disk was, or will be, when the disk is sound.
Backed(m, g) == g \in Fats /\ (m.disk_sound => g = m.disk_fat)

Survives(m, t) == m.sound => \E g : Backed(m, g) /\ Kept(m.fat, g, m.dirs, t)

Remounts(m) == m.disk_sound => Mountable(m.disk_fat, m.dirs)

Inv ==
  /\ fat \in Fats /\ disk_fat \in Fats /\ dirs \in DirTabs /\ data \in DataTabs
  /\ sound \in BOOLEAN /\ disk_sound \in BOOLEAN /\ next_inode <= MaxInode + 1
  /\ sound => \E g \in Fats : (disk_sound => g = disk_fat) /\ Kept(fat, g, dirs, Table)
  /\ disk_sound => Mountable(disk_fat, dirs)

LEMMA KeptIs ==
  ASSUME NEW f, NEW df, NEW dr, NEW t, NEW H, NEW K, NEW D, Good(f, df, dr, t, H, K, D)
  PROVE  Kept(f, df, dr, t) /\ Mountable(df, dr)
<1>1. H \in SUBSET Clusters /\ K \in SUBSET Clusters /\ D \in SUBSET Clusters /\ DiskOK(df, dr, K, D)
  BY GoodParts DEF ChainsOK
<1> QED BY <1>1 DEF Kept, Mountable

LEMMA GoodSurvives ==
  ASSUME NEW m, NEW g, Backed(m, g), NEW t, NEW H, NEW K, NEW D, Good(m.fat, g, m.dirs, t, H, K, D)
  PROVE  Survives(m, t) /\ Remounts(m)
BY KeptIs DEF Survives, Remounts, Backed

LEMMA InstallOK ==
  ASSUME NEW m \in Machines, NEW t, Survives(m, t), Remounts(m), Install(m, t)
  PROVE  Inv'
<1>1. /\ fat' = m.fat /\ disk_fat' = m.disk_fat /\ dirs' = m.dirs /\ data' = m.data
      /\ sound' = m.sound /\ disk_sound' = m.disk_sound
      /\ inodes' = t.inodes /\ next_inode' = t.next_inode /\ t.next_inode <= MaxInode + 1
  BY DEF Install
<1>2. /\ fat' \in Fats /\ disk_fat' \in Fats /\ dirs' \in DirTabs /\ data' \in DataTabs
      /\ sound' \in BOOLEAN /\ disk_sound' \in BOOLEAN /\ next_inode' <= MaxInode + 1
  BY <1>1 DEF Machines
<1>3. ASSUME sound'
      PROVE  \E g \in Fats : (disk_sound' => g = disk_fat') /\ Kept(fat', g, dirs', Table')
  <2>1. PICK g : Backed(m, g) /\ Kept(m.fat, g, m.dirs, t)
    BY <1>1, <1>3 DEF Survives
  <2>2. PICK H \in SUBSET Clusters, K \in SUBSET Clusters, D \in SUBSET Clusters :
          Good(m.fat, g, m.dirs, t, H, K, D)
    BY <2>1 DEF Kept
  <2>3. t = [inodes |-> t.inodes, next_inode |-> t.next_inode]
    BY <2>2 DEF Good, TableOK
  <2>4. Table' = t
    BY <1>1, <2>3 DEF Table
  <2>5. g \in Fats /\ (disk_sound' => g = disk_fat') /\ Kept(fat', g, dirs', Table')
    BY <1>1, <2>1, <2>4 DEF Backed
  <2> QED BY <2>5
<1>4. disk_sound' => Mountable(disk_fat', dirs')
  BY <1>1 DEF Remounts
<1> QED BY <1>2, <1>3, <1>4 DEF Inv

LEMMA RemountOK ==
  ASSUME NEW m \in Machines, Remounts(m), Mount(m)
  PROVE  Inv'
<1> DEFINE n == [m EXCEPT !.fat = m.disk_fat, !.sound = m.disk_sound]
<1>1. /\ n \in Machines /\ n.fat = m.disk_fat /\ n.disk_fat = m.disk_fat /\ n.dirs = m.dirs
      /\ n.sound = m.disk_sound /\ n.disk_sound = m.disk_sound
  BY DEF Machines
<1>2. Install(n, MountedTable)
  BY DEF Mount
<1> HIDE DEF n
<1>3. Remounts(n)
  BY <1>1 DEF Remounts
<1>4. ASSUME n.sound
      PROVE  \E g : Backed(n, g) /\ Kept(n.fat, g, n.dirs, MountedTable)
  <2>1. PICK K \in SUBSET Clusters, D \in SUBSET Clusters : DiskOK(m.disk_fat, m.dirs, K, D)
    BY <1>1, <1>4 DEF Remounts, Mountable
  <2>2. Good(n.fat, n.disk_fat, n.dirs, MountedTable, K, K, D)
    BY <1>1, <2>1, MountOK
  <2>3. Kept(n.fat, n.disk_fat, n.dirs, MountedTable)
    BY <2>2, KeptIs
  <2>4. Backed(n, n.disk_fat)
    BY <1>1 DEF Backed, Machines
  <2> QED BY <2>3, <2>4
<1>5. Survives(n, MountedTable)
  BY <1>4 DEF Survives
<1> QED BY <1>1, <1>2, <1>3, <1>5, InstallOK

LEMMA FinishOK ==
  ASSUME NEW w \in Machines, NEW done, NEW failed, NEW x, Finish(w, done, failed, x),
         Remounts(w),
         w.result = "ok" => Survives(w, done),
         w.result = "err" => Survives(w, failed),
         w.result = "ata" => x \in Machines /\ Survives(x, failed) /\ Remounts(x)
  PROVE  Inv'
<1>1. CASE w.result = "ok" /\ Install(w, done)
  BY <1>1, InstallOK
<1>2. CASE w.result = "err" /\ Install(w, failed)
  BY <1>2, InstallOK
<1>3. CASE w.result = "ata" /\ Install(x, failed)
  BY <1>3, InstallOK
<1>4. CASE w.result = "ata" /\ Mount(w)
  BY <1>4, RemountOK
<1> QED BY <1>1, <1>2, <1>3, <1>4 DEF Finish

(***************************************************************************)
(* A write of the FAT, complete or torn, and the errors of the disk that   *)
(* the driver returns.                                                     *)
(***************************************************************************)
LEMMA FlushKeeps ==
  ASSUME NEW m \in Machines, m.result = "ok", NEW w, w = FlushFat(m),
         NEW g, Backed(m, g), NEW t, NEW H, NEW K, NEW D, Good(m.fat, g, m.dirs, t, H, K, D)
  PROVE  /\ Survives(w, t) /\ Remounts(w)
         /\ \E h, J : Backed(w, h) /\ Good(w.fat, h, w.dirs, t, H, J, D)
<1>1. /\ w \in Machines /\ w.fat = m.fat /\ w.dirs = m.dirs /\ Flushed(m, w)
  BY FlushIs
<1>2. w.disk_fat \in Fats
  BY <1>1 DEF Machines
<1>3. CASE UpToDate(m, w.disk_fat)
  <2>1. Backed(w, w.disk_fat)
    BY <1>2 DEF Backed
  <2>2. Good(w.fat, w.disk_fat, w.dirs, t, H, H, D)
    BY <1>1, <1>2, <1>3, UpToDateOK DEF UpToDate
  <2> QED BY <2>1, <2>2, GoodSurvives
<1>4. CASE ~UpToDate(m, w.disk_fat)
  <2>1. Backed(w, g)
    BY <1>1, <1>4 DEF Backed, Flushed
  <2>2. Good(w.fat, g, w.dirs, t, H, K, D)
    BY <1>1
  <2> QED BY <2>1, <2>2, GoodSurvives
<1> QED BY <1>3, <1>4

LEMMA BrokenIs ==
  ASSUME NEW w \in Machines, NEW t
  PROVE  /\ Broken(w) \in Machines /\ Survives(Broken(w), t)
         /\ Remounts(w) => Remounts(Broken(w))
<1> DEFINE x == Broken(w)
<1>1. x \in Machines /\ ~x.sound /\ x.disk_sound = w.disk_sound /\ x.disk_fat = w.disk_fat /\ x.dirs = w.dirs
  BY DEF Broken, Machines
<1> HIDE DEF x
<1> QED BY <1>1 DEF Survives, Remounts, x

LEMMA BehindIs ==
  ASSUME NEW w \in Machines
  PROVE  /\ Behind(w) \in Machines /\ Behind(w).fat = w.fat /\ Behind(w).dirs = w.dirs
         /\ Behind(w).sound = w.sound /\ Behind(w).disk_fat = w.disk_fat
         /\ Behind(w).disk_sound => w.disk_sound /\ w.disk_fat = w.fat
         /\ Remounts(w) => Remounts(Behind(w))
<1> DEFINE b == w.disk_sound /\ w.disk_fat = w.fat
<1>1. Behind(w) = [w EXCEPT !.disk_sound = b]
  BY DEF Behind, Machines
<1>2. PICK c \in BOOLEAN : c = b
  OBVIOUS
<1>3. c => w.disk_sound /\ w.disk_fat = w.fat
  BY <1>2
<1>4. PICK x : x = [w EXCEPT !.disk_sound = c]
  OBVIOUS
<1>5. Behind(w) = x
  BY <1>1, <1>2, <1>4
<1> HIDE DEF b
<1>6. /\ x \in Machines /\ x.fat = w.fat /\ x.dirs = w.dirs /\ x.sound = w.sound
      /\ x.disk_fat = w.disk_fat /\ x.disk_sound = c
  BY <1>4 DEF Machines
<1> QED BY <1>3, <1>5, <1>6 DEF Remounts

LEMMA BehindKeeps ==
  ASSUME NEW w \in Machines, NEW g, NEW t, NEW H, NEW K, NEW D, Good(w.fat, g, w.dirs, t, H, K, D)
  PROVE  Behind(w) \in Machines /\ Survives(Behind(w), t) /\ Remounts(Behind(w))
<1>1. /\ Behind(w) \in Machines /\ Behind(w).fat = w.fat /\ Behind(w).dirs = w.dirs
      /\ Behind(w).disk_fat = w.disk_fat /\ (Behind(w).disk_sound => w.disk_fat = w.fat)
  BY BehindIs
<1>2. Good(w.fat, w.fat, w.dirs, t, H, H, D)
  BY FlushOK
<1>3. Backed(Behind(w), w.fat)
  BY <1>1 DEF Backed, Machines
<1> QED BY <1>1, <1>2, <1>3, GoodSurvives

(***************************************************************************)
(* What every operation begins with.                                       *)
(***************************************************************************)
LEMMA Start ==
  ASSUME Inv, NEW left \in Nat
  PROVE  /\ Machine(left) \in Machines
         /\ Machine(left).fat = fat /\ Machine(left).disk_fat = disk_fat
         /\ Machine(left).dirs = dirs /\ Machine(left).data = data
         /\ Machine(left).first = 0 /\ Machine(left).result = "ok"
         /\ Machine(left).sound = sound /\ Machine(left).disk_sound = disk_sound
         /\ Remounts(Machine(left))
<1>1. /\ Machine(left) \in Machines
      /\ Machine(left).fat = fat /\ Machine(left).disk_fat = disk_fat
      /\ Machine(left).dirs = dirs /\ Machine(left).data = data
      /\ Machine(left).first = 0 /\ Machine(left).result = "ok"
      /\ Machine(left).sound = sound /\ Machine(left).disk_sound = disk_sound
  BY DEF Inv, Machine, Machines
<1> QED BY <1>1 DEF Inv, Remounts

LEMMA SoundIs ==
  ASSUME Inv, sound
  PROVE  \E g, H, K, D : /\ Good(fat, g, dirs, Table, H, K, D)
                         /\ \A m : m.disk_sound = disk_sound /\ m.disk_fat = disk_fat => Backed(m, g)
<1>1. PICK g \in Fats : (disk_sound => g = disk_fat) /\ Kept(fat, g, dirs, Table)
  BY DEF Inv
<1>2. PICK H, K, D : Good(fat, g, dirs, Table, H, K, D)
  BY <1>1 DEF Kept
<1>3. \A m : m.disk_sound = disk_sound /\ m.disk_fat = disk_fat => Backed(m, g)
  BY <1>1 DEF Backed
<1> QED BY <1>2, <1>3

LEMMA DirIs ==
  ASSUME NEW g, NEW H, NEW K, NEW D, Good(fat, g, dirs, Table, H, K, D), NEW d \in Directories
  PROVE  /\ Dir(d) \in D /\ HasChain(fat, Dir(d)) /\ Dir(d) \in Clusters
         /\ ClusterChain(fat, Dir(d)) = ClusterChain(g, Dir(d))
         /\ Slots(fat, Dir(d)) = Slots(g, Dir(d))
<1>1. d \in DOMAIN inodes /\ inodes[d].is_dir
  BY DEF Directories
<1>2. Table.inodes = inodes
  BY DEF Table
<1>3. InodeOK(fat, H, D, inodes[d])
  BY <1>1, <1>2 DEF Good, InodesOK
<1>4. Dir(d) \in D
  BY <1>1, <1>3 DEF InodeOK, Dir
<1>5. D \subseteq H /\ ChainsOK(fat, H)
  BY GoodParts
<1> QED BY <1>4, <1>5, GoodParts DEF ChainsOK

LEMMA NamesFacts ==
  ASSUME NEW name \in Names, NEW is_dir \in BOOLEAN, NEW c \in Clusters \cup {0},
         NEW e, e = RawDirEntry(name, is_dir, c, 0)
  PROVE  /\ e \in RawEntries /\ Listed(e) /\ ~IsFree(e)
         /\ e.name = name /\ e.is_dir = is_dir /\ e.cluster = c /\ e.size = 0
<1>1. e = [name |-> name, is_dir |-> is_dir, cluster |-> c, size |-> 0]
  BY DEF RawDirEntry
<1>2. name \notin {END, DELETED} /\ name \notin {DOT, DOTDOT}
  BY NamesAssumption
<1>3. 0 \in 0..MaxSize
  BY BoundsAssumption
<1> QED BY <1>1, <1>2, <1>3 DEF RawEntries, Listed, IsFree

LEMMA NamedIs ==
  ASSUME NEW m, m.fat \in Fats, NEW d, HasChain(m.fat, d), NEW name \in Names, Find(m, d, name) # 0,
         NEW p, p = Places(m, d)[Find(m, d, name)]
  PROVE  /\ p \in Slots(m.fat, d) /\ Named(m, d, name) = Ent(m.dirs, p)
         /\ Ent(m.dirs, p).name = name /\ Listed(Ent(m.dirs, p))
<1>1. p \in Slots(m.fat, d) /\ At(m, p).name = name
  BY FindIs
<1>2. Named(m, d, name) = Ent(m.dirs, p) /\ At(m, p) = Ent(m.dirs, p)
  BY DEF Named, At, Ent
<1>3. name \notin {END, DELETED} /\ name \notin {DOT, DOTDOT}
  BY NamesAssumption
<1> QED BY <1>1, <1>2, <1>3 DEF Listed, IsFree

LEMMA NotFound ==
  ASSUME NEW m, m.fat \in Fats, NEW d, HasChain(m.fat, d), NEW name, Find(m, d, name) = 0
  PROVE  \A q \in Slots(m.fat, d) : Ent(m.dirs, q).name # name
<1>1. \A q \in Slots(m.fat, d) : At(m, q).name # name
  BY FindIs
<1> QED BY <1>1 DEF At, Ent

LEMMA LookupKeeps ==
  ASSUME Inv, NEW d \in Directories, NEW name \in Names, Lookup(d, name)
  PROVE  Inv'
<1> DEFINE m == Machine(0)
           p == Places(m, Dir(d))[Find(m, Dir(d), name)]
<1>1. /\ m \in Machines /\ m.fat = fat /\ m.disk_fat = disk_fat /\ m.dirs = dirs
      /\ m.disk_sound = disk_sound
  BY Start
<1>2. sound /\ Find(m, Dir(d), name) # 0 /\ Install(m, InternEntry(Table, Named(m, Dir(d), name)))
  BY DEF Lookup
<1> HIDE DEF m
<1>3. PICK g, H, K, D : Good(fat, g, dirs, Table, H, K, D) /\ Backed(m, g)
  BY <1>1, <1>2, SoundIs
<1>4. Dir(d) \in D /\ HasChain(fat, Dir(d)) /\ Slots(fat, Dir(d)) = Slots(g, Dir(d)) /\ fat \in Fats
  BY <1>3, DirIs, GoodParts
<1>5. p \in Slots(fat, Dir(d)) /\ Named(m, Dir(d), name) = Ent(dirs, p) /\ Listed(Ent(dirs, p))
  BY <1>1, <1>2, <1>4, NamedIs
<1> HIDE DEF p
<1>6. Good(fat, g, dirs, InternEntry(Table, Ent(dirs, p)), H, K, D)
  BY <1>3, <1>4, <1>5, InternEntryOK
<1>7. Survives(m, InternEntry(Table, Ent(dirs, p))) /\ Remounts(m)
  BY <1>1, <1>3, <1>6, GoodSurvives
<1> QED BY <1>1, <1>2, <1>5, <1>7, InstallOK

(***************************************************************************)
(* create.  The empty file may be new in the table of inodes.              *)
(***************************************************************************)
LEMMA EmptyFileOK ==
  ASSUME NEW f, NEW df, NEW dr, NEW t, NEW H, NEW K, NEW D, Good(f, df, dr, t, H, K, D)
  PROVE  Good(f, df, dr, InternInode(t, 0, 0, FALSE), H, K, D)
<1>1. PICK b \in BOOLEAN : b = FALSE
  OBVIOUS
<1>2. 0 \in 0..MaxSize /\ 0 \in Clusters \cup {0}
  BY BoundsAssumption
<1>3. InodeOK(f, H, D, [first_cluster |-> 0, size |-> 0, is_dir |-> b])
  BY <1>1 DEF InodeOK
<1>4. \A d \in D : \A p \in Slots(df, d) :
        Listed(Ent(dr, p)) /\ Ent(dr, p).cluster = 0 /\ 0 # 0 /\ ~b => Ent(dr, p).size <= 0
  OBVIOUS
<1>5. Good(f, df, dr, InternInode(t, 0, 0, b), H, K, D)
  BY <1>2, <1>3, <1>4, InternOK
<1> QED BY <1>1, <1>5

(***************************************************************************)
(* The entry is written, in a free slot or in a new cluster; or it is not. *)
(* y is the machine n, of which the caller may know that its disk is not   *)
(* sound.                                                                  *)
(***************************************************************************)
LEMMA EntryMade ==
  ASSUME NEW m \in Machines, NEW n \in Machines, NEW d, NEW e, NewEntry(m, n, d, e), n.result = "ok",
         NEW g, NEW t, NEW H, NEW K, NEW D, Good(m.fat, g, m.dirs, t, H, K, D), d \in D,
         FreshEntry(m.fat, m.dirs, t, D, d, e)
  PROVE  /\ Good(n.fat, n.fat, n.dirs, t, H, H, D)
         /\ Backed(m, g) => \E h, J : Backed(n, h) /\ Good(n.fat, h, n.dirs, t, H, J, D)
<1>1. /\ m.fat \in Fats /\ HasChain(m.fat, d) /\ ClusterChain(m.fat, d) = ClusterChain(g, d)
      /\ \A b \in D : Slots(g, b) = Slots(m.fat, b)
  BY GoodParts DEF ChainsOK
<1>2. FreshEntry(g, m.dirs, t, D, d, e)
  BY <1>1 DEF FreshEntry
<1>3. CASE /\ FreeSlot(m, d) # 0 /\ n.dirs = Put(m.dirs, Places(m, d)[FreeSlot(m, d)], e)
           /\ n.fat = m.fat /\ n.disk_fat = m.disk_fat /\ SameHistory(n, m)
  <2>1. Good(n.fat, g, n.dirs, t, H, K, D)
    BY <1>1, <1>2, <1>3, FreeSlotFilled
  <2>2. Backed(m, g) => Backed(n, g)
    BY <1>3 DEF Backed, SameHistory
  <2> QED BY <2>1, <2>2, FlushOK
<1>4. ASSUME NEW new \in Clusters, FreeSlot(m, d) = 0, LinkedTo(m.fat, n.fat, d, new),
             n.dirs = [m.dirs EXCEPT ![new] = FirstOf(e)], n.disk_fat = n.fat
      PROVE  Good(n.fat, n.fat, n.dirs, t, H, H, D) /\ Backed(n, n.fat)
  <2>1. Good(m.fat, m.fat, m.dirs, t, H, H, D) /\ n.fat \in Fats
    BY FlushOK DEF Machines
  <2>2. Good(n.fat, n.fat, [m.dirs EXCEPT ![new] = FirstOf(e)], t, H, H, D)
    BY <1>1, <1>4, <2>1, NewClusterFilled
  <2> QED BY <1>4, <2>1, <2>2 DEF Backed
<1> QED BY <1>3, <1>4 DEF NewEntry

LEMMA EntryFailed ==
  ASSUME NEW m \in Machines, NEW n \in Machines, NEW d, NEW e, NewEntry(m, n, d, e), n.result # "ok",
         NEW g, Backed(m, g), NEW t, NEW H, NEW K, NEW D, Good(m.fat, g, m.dirs, t, H, K, D),
         NEW J, NEW E, Good(m.fat, m.fat, m.dirs, t, J, J, E), d \in E,
         FreshEntry(m.fat, m.dirs, t, E, d, e),
         NEW y \in Machines, y.fat = n.fat, y.disk_fat = n.disk_fat, y.dirs = n.dirs, y.sound = n.sound,
         y.disk_sound => n.disk_sound
  PROVE  /\ Remounts(y) /\ (n.result = "err" => Survives(y, t))
         /\ Behind(y) \in Machines /\ Survives(Behind(y), t) /\ Remounts(Behind(y))
<1>1. CASE n.result \in {"err", "ata"} /\ Same(n, m)
  <2>1. Good(y.fat, g, y.dirs, t, H, K, D) /\ Backed(y, g)
    BY <1>1 DEF Same, SameHistory, Backed
  <2> QED BY <2>1, GoodSurvives, BehindKeeps
<1>2. CASE /\ n.result = "ata" /\ ~n.sound /\ n.dirs = m.dirs /\ n.disk_fat = m.disk_fat
           /\ n.disk_sound = m.disk_sound
  <2>1. Remounts(y)
    BY <1>2, GoodSurvives DEF Remounts
  <2>2. Behind(y) \in Machines /\ Remounts(Behind(y)) /\ Behind(y).sound = y.sound
    BY <2>1, BehindIs
  <2> QED BY <1>2, <2>1, <2>2 DEF Survives
<1>3. ASSUME n.result = "ata", NEW new \in Clusters, FreeSlot(m, d) = 0, LinkedTo(m.fat, n.fat, d, new),
             n.dirs = [m.dirs EXCEPT ![new] = FirstOf(e)],
             n.disk_sound => UpToDate(n, n.disk_fat) \/ (m.disk_sound /\ n.disk_fat = m.disk_fat)
      PROVE  /\ Remounts(y) /\ n.result # "err"
             /\ Behind(y) \in Machines /\ Survives(Behind(y), t) /\ Remounts(Behind(y))
  <2>1. m.fat \in Fats /\ n.fat \in Fats /\ n.disk_fat \in Fats /\ m.dirs \in DirTabs /\ n.dirs \in DirTabs
    BY DEF Machines
  <2>2. Good(n.fat, n.fat, n.dirs, t, J, J, E)
    <3>1. Good(n.fat, n.fat, [m.dirs EXCEPT ![new] = FirstOf(e)], t, J, J, E)
      BY <1>3, <2>1, NewClusterFilled
    <3> QED BY <1>3, <3>1
  <2>3. Good(y.fat, n.fat, y.dirs, t, J, J, E)
    BY <2>2
  <2>4. ASSUME n.disk_sound, UpToDate(n, n.disk_fat)
        PROVE  Mountable(n.disk_fat, n.dirs)
    <3>1. Good(n.fat, n.disk_fat, n.dirs, t, J, J, E)
      BY <2>1, <2>2, <2>4, UpToDateOK DEF UpToDate
    <3> QED BY <3>1, KeptIs
  <2>5. ASSUME m.disk_sound, n.disk_fat = m.disk_fat
        PROVE  Mountable(n.disk_fat, n.dirs)
    <3>1. m.fat[new] = FREE /\ \A x \in Clusters \ {new} : n.dirs[x] = m.dirs[x]
      BY <1>3, <2>1 DEF LinkedTo, DirTabs
    <3>2. Good(m.fat, g, n.dirs, t, H, K, D)
      BY <2>1, <3>1, FreeClusterOK
    <3>3. g = n.disk_fat
      BY <2>5 DEF Backed
    <3> QED BY <3>2, <3>3, KeptIs
  <2>6. Remounts(y)
    BY <1>3, <2>4, <2>5 DEF Remounts
  <2> QED BY <1>3, <2>3, <2>6, BehindKeeps
<1> QED BY <1>1, <1>2, <1>3 DEF NewEntry

LEMMA CreateKeeps ==
  ASSUME Inv, NEW d \in Directories, NEW name \in Names, NEW left \in Nat, Create(d, name, left)
  PROVE  Inv'
<1> DEFINE m == Machine(left)
           e == RawDirEntry(name, FALSE, 0, 0)
           n == WriteDirEntry(m, Dir(d), e)
           w == FlushFat(n)
           done == InternInode(Table, 0, 0, FALSE)
<1>1. /\ m \in Machines /\ m.fat = fat /\ m.disk_fat = disk_fat /\ m.dirs = dirs /\ m.result = "ok"
      /\ m.disk_sound = disk_sound
  BY Start
<1>2. sound /\ Find(m, Dir(d), name) = 0 /\ Finish(w, done, Table, Behind(w))
  BY DEF Create
<1>3. PICK g, H, K, D : Good(fat, g, dirs, Table, H, K, D) /\ Backed(m, g)
  BY <1>1, <1>2, SoundIs
<1>4. Dir(d) \in D /\ HasChain(fat, Dir(d)) /\ fat \in Fats /\ Dir(d) \in Clusters
  BY <1>3, DirIs, GoodParts
<1>5. /\ e \in RawEntries /\ Listed(e) /\ e.name = name /\ ~e.is_dir /\ e.cluster = 0 /\ e.size = 0
  <2>1. PICK b \in BOOLEAN : b = FALSE
    OBVIOUS
  <2>2. e = RawDirEntry(name, b, 0, 0) /\ 0 \in Clusters \cup {0}
    BY <2>1
  <2> HIDE DEF e
  <2> QED BY <2>1, <2>2, NamesFacts
<1> HIDE DEF m, e
<1>6. FreshEntry(fat, dirs, Table, D, Dir(d), e)
  <2>1. \A q \in Slots(fat, Dir(d)) : Ent(dirs, q).name # e.name
    BY <1>1, <1>2, <1>4, <1>5, NotFound
  <2>2. Dir(d) # 0
    BY <1>4, Numbers
  <2> QED BY <1>4, <1>5, <2>1, <2>2 DEF FreshEntry
<1>7. n \in Machines /\ NewEntry(m, n, Dir(d), e)
  BY <1>1, <1>4, <1>5, WriteDirEntryIs
<1> HIDE DEF n
<1>8. /\ w \in Machines /\ w.fat = n.fat /\ w.dirs = n.dirs
      /\ n.result # "ok" => w = n
      /\ n.result = "ok" => w.result \in {"ok", "ata"}
  BY <1>7, FlushIs
<1> HIDE DEF done
<1>9. CASE n.result # "ok"
  <2>1. Good(fat, fat, dirs, Table, H, H, D)
    BY <1>3, FlushOK
  <2>2. /\ Remounts(n) /\ (n.result = "err" => Survives(n, Table))
        /\ Behind(n) \in Machines /\ Survives(Behind(n), Table) /\ Remounts(Behind(n))
    BY <1>1, <1>3, <1>4, <1>6, <1>7, <1>9, <2>1, EntryFailed
  <2> HIDE DEF w
  <2> QED BY <1>2, <1>8, <1>9, <2>2, FinishOK
<1>10. CASE n.result = "ok"
  <2>1. PICK h, J : Backed(n, h) /\ Good(n.fat, h, n.dirs, Table, H, J, D)
    BY <1>1, <1>3, <1>4, <1>6, <1>7, <1>10, EntryMade
  <2>2. /\ Remounts(w)
        /\ \E i, I : Backed(w, i) /\ Good(w.fat, i, w.dirs, Table, H, I, D)
    BY <1>7, <1>10, <2>1, FlushKeeps
  <2> HIDE DEF w
  <2>3. PICK i, I : Backed(w, i) /\ Good(w.fat, i, w.dirs, Table, H, I, D)
    BY <2>2
  <2>4. Survives(w, done)
    <3>1. Good(w.fat, i, w.dirs, done, H, I, D)
      BY <2>3, EmptyFileOK DEF done
    <3> QED BY <2>3, <3>1, GoodSurvives
  <2>5. Behind(w) \in Machines /\ Survives(Behind(w), Table) /\ Remounts(Behind(w))
    BY <1>8, <2>3, BehindKeeps
  <2> QED BY <1>2, <1>8, <1>10, <2>2, <2>4, <2>5, FinishOK
<1> QED BY <1>9, <1>10

(***************************************************************************)
(* mkdir.  The cluster with "." and ".." comes first.                      *)
(***************************************************************************)
Dots(new, parent) ==
  [Cleared EXCEPT ![1] = RawDirEntry(DOT, TRUE, new, 0), ![2] = RawDirEntry(DOTDOT, TRUE, parent, 0)]

LEMMA DotsAre ==
  ASSUME NEW new \in Clusters, NEW parent \in Clusters
  PROVE  /\ Dots(new, parent) \in [1..SlotsPerCluster -> RawEntries]
         /\ \A b \in 1..SlotsPerCluster : ~Listed(Dots(new, parent)[b])
         /\ \A a, b \in 1..SlotsPerCluster : a < b =>
              /\ Dots(new, parent)[a].name = END => IsFree(Dots(new, parent)[b])
              /\ ~IsFree(Dots(new, parent)[b]) => Dots(new, parent)[a].name # Dots(new, parent)[b].name
<1> DEFINE r == Dots(new, parent)
           x == RawDirEntry(DOT, TRUE, new, 0)
           y == RawDirEntry(DOTDOT, TRUE, parent, 0)
<1>1. x \in RawEntries /\ y \in RawEntries /\ x.name = DOT /\ y.name = DOTDOT
  BY BoundsAssumption DEF RawDirEntry, RawEntries
<1>2. Vacant(END) \in RawEntries /\ Vacant(END).name = END
  BY BoundsAssumption DEF Vacant, RawDirEntry, RawEntries
<1>3. 1 \in 1..SlotsPerCluster /\ 2 \in 1..SlotsPerCluster
  BY Numbers
<1> HIDE DEF x, y
<1>4. r = [[Cleared EXCEPT ![1] = x] EXCEPT ![2] = y]
  BY DEF Dots, x, y
<1>5. /\ r \in [1..SlotsPerCluster -> RawEntries]
      /\ \A b \in 1..SlotsPerCluster : r[b] = IF b = 1 THEN x ELSE IF b = 2 THEN y ELSE Vacant(END)
  BY <1>1, <1>2, <1>3, <1>4 DEF Cleared
<1> HIDE DEF r
<1>6. ~Listed(x) /\ ~Listed(y) /\ ~Listed(Vacant(END)) /\ IsFree(Vacant(END)) /\ ~IsFree(x) /\ ~IsFree(y)
      /\ x.name # y.name /\ x.name # END /\ y.name # END
  BY <1>1, <1>2 DEF Listed, IsFree, END, DELETED, DOT, DOTDOT
<1>7. \A b \in 1..SlotsPerCluster : ~Listed(r[b])
  BY <1>5, <1>6
<1>8. ASSUME NEW a \in 1..SlotsPerCluster, NEW b \in 1..SlotsPerCluster, a < b
      PROVE  /\ r[a].name = END => IsFree(r[b])
             /\ ~IsFree(r[b]) => r[a].name # r[b].name
  <2>1. CASE b > 2
    BY <1>5, <1>6, <2>1
  <2>2. CASE ~(b > 2)
    <3>1. a = 1 /\ b = 2
      BY <1>8, <2>2, Numbers
    <3> QED BY <1>5, <1>6, <3>1
  <2> QED BY <2>1, <2>2
<1> QED BY <1>5, <1>7, <1>8 DEF r

LEMMA NewDirOK ==
  ASSUME NEW f, NEW t, NEW c \in Clusters, NEW df, NEW dr, NEW H, NEW D, Good(f, df, dr, t, H, H, D),
         c \in D
  PROVE  Good(f, df, dr, InternInode(t, c, 0, TRUE), H, H, D)
<1>1. PICK b \in BOOLEAN : b = TRUE
  OBVIOUS
<1>2. 0 \in 0..MaxSize /\ c \in Clusters \cup {0} /\ D \subseteq H
  BY BoundsAssumption, GoodParts
<1>3. InodeOK(f, H, D, [first_cluster |-> c, size |-> 0, is_dir |-> b])
  BY <1>1, <1>2 DEF InodeOK
<1>4. \A d \in D : \A p \in Slots(df, d) :
        Listed(Ent(dr, p)) /\ Ent(dr, p).cluster = c /\ c # 0 /\ ~b => Ent(dr, p).size <= 0
  BY <1>1
<1>5. Good(f, df, dr, InternInode(t, c, 0, b), H, H, D)
  BY <1>2, <1>3, <1>4, InternOK
<1> QED BY <1>1, <1>5

LEMMA MkdirKeeps ==
  ASSUME Inv, NEW d \in Directories, NEW name \in Names, NEW left \in Nat, Mkdir(d, name, left)
  PROVE  Inv'
<1> DEFINE m0 == Machine(left)
           new == NextFree(m0)
           a == AllocCluster(m0)
           m == WriteSlots(a, new, Dots(new, Dir(d)))
           e == RawDirEntry(name, TRUE, new, 0)
           n == WriteDirEntry(m, Dir(d), e)
           y == [n EXCEPT !.disk_sound = @ /\ n.result # "ok"]
           w == FlushFat(y)
           done == InternInode(Table, new, 0, TRUE)
<1>1. /\ m0 \in Machines /\ m0.fat = fat /\ m0.disk_fat = disk_fat /\ m0.dirs = dirs /\ m0.result = "ok"
      /\ m0.disk_sound = disk_sound
  BY Start
<1>2. sound /\ Find(m0, Dir(d), name) = 0 /\ FreeClusters(m0) # {} /\ Finish(w, done, Table, Behind(w))
  BY DEF Mkdir, Dots
<1>3. PICK g, H, K, D : Good(fat, g, dirs, Table, H, K, D) /\ Backed(m0, g)
  BY <1>1, <1>2, SoundIs
<1>4. /\ Dir(d) \in D /\ HasChain(fat, Dir(d)) /\ fat \in Fats /\ Dir(d) \in Clusters
      /\ D \subseteq H /\ RootCluster \in D /\ ChainsOK(fat, H) /\ dirs \in DirTabs
  BY <1>3, DirIs, GoodParts
<1> HIDE DEF m0
<1>5. /\ Allocated(fat, a.fat, new) /\ new \in Clusters /\ fat[new] = FREE /\ a \in Machines
      /\ a.disk_fat = disk_fat /\ a.dirs = dirs /\ a.result = "ok" /\ a.disk_sound = disk_sound
  BY <1>1, <1>2, AllocIs DEF Allocated, SameHistory
<1> HIDE DEF new, a
<1>6. a.fat \in Fats
  BY <1>5 DEF Machines
<1>7. /\ e \in RawEntries /\ Listed(e) /\ e.name = name /\ e.is_dir /\ e.cluster = new /\ e.size = 0
  <2>1. PICK b \in BOOLEAN : b = TRUE
    OBVIOUS
  <2>2. e = RawDirEntry(name, b, new, 0) /\ new \in Clusters \cup {0}
    BY <1>5, <2>1
  <2> HIDE DEF e
  <2>3. e \in RawEntries /\ Listed(e) /\ e.name = name /\ e.is_dir = b /\ e.cluster = new /\ e.size = 0
    BY <2>2, NamesFacts
  <2> QED BY <2>1, <2>3
<1> HIDE DEF e
<1>8. Dots(new, Dir(d)) \in [1..SlotsPerCluster -> RawEntries]
  BY <1>4, <1>5, DotsAre
<1>9. /\ m \in Machines
      /\ \/ m.result = "ata" /\ Same(m, a)
         \/ /\ m.result = "ok" /\ m.dirs = [a.dirs EXCEPT ![new] = Dots(new, Dir(d))]
            /\ m.fat = a.fat /\ m.disk_fat = a.disk_fat /\ m.data = a.data /\ m.first = a.first
            /\ SameHistory(m, a)
  BY <1>5, <1>8, WriteSlotsIs
<1> HIDE DEF m
<1>10. /\ m.fat = a.fat /\ Backed(m, g)
       /\ m.dirs \in DirTabs /\ \A c \in Clusters \ {new} : m.dirs[c] = dirs[c]
  BY <1>1, <1>3, <1>4, <1>5, <1>8, <1>9 DEF Same, SameHistory, Backed, DirTabs
<1>11. Good(m.fat, g, m.dirs, Table, H, K, D)
  <2>1. Good(fat, g, m.dirs, Table, H, K, D)
    BY <1>3, <1>5, <1>10, FreeClusterOK
  <2>2. \A h \in H : \A c \in On(fat, h) : a.fat[c] = fat[c]
    <3>1. \A h \in H : \A c \in On(fat, h) : c # new /\ c \in Clusters
      BY <1>4, <1>5, ChainElements
    <3> QED BY <1>5, <3>1 DEF Allocated
  <2>3. /\ ChainsOK(a.fat, H)
        /\ \A h \in H : ClusterChain(a.fat, h) = ClusterChain(fat, h)
    <3>1. H \in SUBSET H
      OBVIOUS
    <3> QED BY <1>4, <1>6, <2>2, <3>1, SameChains
  <2>4. \A h \in H : Len(ClusterChain(fat, h)) <= Len(ClusterChain(a.fat, h))
    <3>1. \A h \in H : Len(ClusterChain(fat, h)) \in Nat
      BY <1>3, GoodParts
    <3> QED BY <2>3, <3>1
  <2>5. H \subseteq H /\ \A b \in D : ClusterChain(a.fat, b) = ClusterChain(fat, b)
    BY <1>4, <2>3
  <2> QED BY <1>6, <1>10, <2>1, <2>3, <2>4, <2>5, MoreClusters
<1>12. ASSUME n \in Machines
       PROVE  /\ y \in Machines /\ y.fat = n.fat /\ y.disk_fat = n.disk_fat /\ y.dirs = n.dirs
              /\ y.result = n.result /\ y.sound = n.sound
              /\ y.disk_sound => n.disk_sound /\ n.result # "ok"
  <2> HIDE DEF n
  <2>1. PICK b \in BOOLEAN : b = (n.disk_sound /\ n.result # "ok")
    OBVIOUS
  <2>2. PICK x : x = [n EXCEPT !.disk_sound = b]
    OBVIOUS
  <2>3. y = x
    BY <1>12, <2>1, <2>2 DEF Machines
  <2>4. b => n.disk_sound /\ n.result # "ok"
    BY <2>1
  <2> HIDE DEF y
  <2>5. /\ x \in Machines /\ x.fat = n.fat /\ x.disk_fat = n.disk_fat /\ x.dirs = n.dirs
        /\ x.result = n.result /\ x.sound = n.sound /\ x.disk_sound = b
    BY <1>12, <2>2 DEF Machines
  <2> QED BY <2>3, <2>4, <2>5
<1>13. CASE m.result = "ata"
  <2>1. n = m
    BY <1>13 DEF WriteDirEntry
  <2> HIDE DEF n
  <2>2. /\ y \in Machines /\ y.fat = m.fat /\ y.disk_fat = m.disk_fat /\ y.dirs = m.dirs
        /\ y.result = "ata" /\ (y.disk_sound => m.disk_sound)
    BY <1>9, <1>12, <1>13, <2>1
  <2> HIDE DEF y
  <2>3. w = y
    BY <2>2, FlushIs
  <2> HIDE DEF w, done
  <2>4. Backed(y, g) /\ Good(y.fat, g, y.dirs, Table, H, K, D)
    BY <1>10, <1>11, <2>2 DEF Backed
  <2>5. Remounts(y) /\ Behind(y) \in Machines /\ Survives(Behind(y), Table) /\ Remounts(Behind(y))
    BY <2>2, <2>4, GoodSurvives, BehindKeeps
  <2> QED BY <1>2, <2>2, <2>3, <2>5, FinishOK
<1>14. CASE m.result = "ok"
  <2> DEFINE J == H \cup {new}
             E == D \cup {new}
             dr == m.dirs
  <2>1. dr \in DirTabs /\ dr[new] = Dots(new, Dir(d)) /\ \A c \in Clusters \ {new} : dr[c] = dirs[c]
    BY <1>4, <1>5, <1>8, <1>9, <1>10, <1>14 DEF DirTabs
  <2> HIDE DEF dr
  <2>2. \A b \in 1..SlotsPerCluster : ~Listed(dr[new][b])
    BY <1>4, <1>5, <2>1, DotsAre
  <2>3. CleanDir(dr, <<new>>)
    <3> SUFFICES ASSUME NEW j \in 1..Len(<<new>>), NEW k \in 1..Len(<<new>>),
                        NEW x \in 1..SlotsPerCluster, NEW b \in 1..SlotsPerCluster, Earlier(j, x, k, b)
                 PROVE  /\ dr[<<new>>[j]][x].name = END => IsFree(dr[<<new>>[k]][b])
                        /\ ~IsFree(dr[<<new>>[k]][b]) => dr[<<new>>[j]][x].name # dr[<<new>>[k]][b].name
      BY DEF CleanDir
    <3>1. j = 1 /\ k = 1
      OBVIOUS
    <3>2. x < b
      BY <3>1 DEF Earlier
    <3>3. <<new>>[j] = new /\ <<new>>[k] = new
      BY <3>1
    <3> QED BY <1>4, <1>5, <2>1, <3>2, <3>3, DotsAre
  <2>4. Good(fat, fat, dirs, Table, H, H, D)
    BY <1>3, FlushOK
  <2>5. /\ Good(a.fat, a.fat, dr, Table, J, J, E)
        /\ new \notin H /\ \A h \in H : ClusterChain(a.fat, h) = ClusterChain(fat, h)
        /\ \A b \in D : ClusterChain(a.fat, b) = ClusterChain(fat, b) /\ Slots(a.fat, b) = Slots(fat, b)
        /\ \A b \in E : \A q \in Slots(a.fat, b) :
             Listed(Ent(dr, q)) => b # new /\ Ent(dr, q) = Ent(dirs, q) /\ Ent(dr, q).cluster # new
        /\ \A i \in DOMAIN Table.inodes : Table.inodes[i].first_cluster # new
    <3>1. SameBut(dr, dirs, new) /\ EmptyDir(dr, new)
      BY <2>1, <2>2, <2>3 DEF SameBut, EmptyDir
    <3>2. J = H \cup {new} /\ E = D \cup {new}
      OBVIOUS
    <3> HIDE DEF J, E
    <3> QED BY <1>5, <2>1, <2>4, <3>1, <3>2, AddDirOK, SMTT(60)
  <2>6. Dir(d) \in E /\ new \in E /\ new # RootCluster /\ new # Dir(d) /\ Dir(d) \in J
    BY <1>4, <2>5
  <2> HIDE DEF J, E
  <2>7. HasChain(a.fat, Dir(d))
    BY <2>5, <2>6 DEF Good, ChainsOK
  <2>8. FreshEntry(a.fat, dr, Table, E, Dir(d), e)
    <3>1. \A q \in Slots(fat, Dir(d)) : Ent(dirs, q).name # name
      BY <1>1, <1>2, <1>4, NotFound
    <3>2. \A q \in Slots(a.fat, Dir(d)) : Ent(dr, q).name # e.name
      <4> SUFFICES ASSUME NEW q \in Slots(a.fat, Dir(d)), Ent(dr, q).name = e.name
                   PROVE  FALSE
        OBVIOUS
      <4>1. Listed(Ent(dr, q))
        BY <1>7 DEF Listed, IsFree
      <4>2. Ent(dr, q) = Ent(dirs, q) /\ q \in Slots(fat, Dir(d))
        BY <1>4, <2>5, <2>6, <4>1
      <4> QED BY <1>7, <3>1, <4>2
    <3> QED BY <1>7, <2>5, <2>6, <3>2 DEF FreshEntry
  <2>9. n \in Machines /\ NewEntry(m, n, Dir(d), e)
    BY <1>7, <1>9, <1>10, <1>14, <2>7, WriteDirEntryIs
  <2>10. /\ y \in Machines /\ y.fat = n.fat /\ y.disk_fat = n.disk_fat /\ y.dirs = n.dirs
         /\ y.result = n.result /\ y.sound = n.sound
         /\ y.disk_sound => n.disk_sound /\ n.result # "ok"
    BY <1>12, <2>9
  <2> HIDE DEF n, y
  <2>11. /\ w \in Machines /\ w.fat = y.fat /\ w.dirs = y.dirs
         /\ y.result # "ok" => w = y
         /\ y.result = "ok" => w.result = "ata" \/ (w.result = "ok" /\ w.disk_fat = y.fat)
    BY <2>10, FlushIs
  <2> HIDE DEF done
  <2>12. /\ Good(m.fat, m.fat, m.dirs, Table, J, J, E) /\ FreshEntry(m.fat, m.dirs, Table, E, Dir(d), e)
    BY <1>10, <2>5, <2>8 DEF dr
  <2>13. CASE n.result # "ok"
    <3>1. /\ Remounts(y) /\ (n.result = "err" => Survives(y, Table))
          /\ Behind(y) \in Machines /\ Survives(Behind(y), Table) /\ Remounts(Behind(y))
      BY <1>9, <1>10, <1>11, <2>6, <2>9, <2>10, <2>12, <2>13, EntryFailed
    <3> HIDE DEF w
    <3> QED BY <1>2, <2>10, <2>11, <2>13, <3>1, FinishOK
  <2>14. CASE n.result = "ok"
    <3>1. Good(n.fat, n.fat, n.dirs, Table, J, J, E)
      BY <1>9, <2>6, <2>9, <2>12, <2>14, EntryMade
    <3>2. Good(y.fat, y.fat, y.dirs, Table, J, J, E) /\ Backed(y, y.fat) /\ y.result = "ok"
      BY <2>10, <2>14, <3>1 DEF Backed, Machines
    <3>3. Remounts(w)
      BY <2>10, <3>2, FlushKeeps
    <3> HIDE DEF w
    <3>4. Good(w.fat, w.fat, w.dirs, Table, J, J, E)
      BY <2>11, <3>2
    <3>5. w.result = "ok" => Survives(w, done)
      <4>1. Good(w.fat, w.fat, w.dirs, done, J, J, E)
        BY <1>5, <2>6, <3>4, NewDirOK DEF done
      <4>2. w.result = "ok" => Backed(w, w.fat)
        BY <2>11, <3>2 DEF Backed, Machines
      <4> QED BY <4>1, <4>2, GoodSurvives
    <3>6. Behind(w) \in Machines /\ Survives(Behind(w), Table) /\ Remounts(Behind(w))
      BY <2>11, <3>4, BehindKeeps
    <3> QED BY <1>2, <2>11, <3>2, <3>3, <3>5, <3>6, FinishOK
  <2> QED BY <2>13, <2>14
<1> QED BY <1>9, <1>13, <1>14

(***************************************************************************)
(* unlink.  The scan of remove_dir_entry cannot stop before the entry: in  *)
(* front of an entry there is no end of the directory.                     *)
(***************************************************************************)
LEMMA SamePlaces ==
  ASSUME NEW m, NEW n, NEW d, ClusterChain(n.fat, d) = ClusterChain(m.fat, d), n.dirs = m.dirs
  PROVE  Places(n, d) = Places(m, d) /\ \A name : Find(n, d, name) = Find(m, d, name)
<1>1. Places(n, d) = Places(m, d)
  BY DEF Places
<1>2. ASSUME NEW name
      PROVE  Find(n, d, name) = Find(m, d, name)
  <2> DEFINE P == Places(m, d)
  <2> HIDE DEF P
  <2>1. {i \in 1..Len(P) : At(n, P[i]).name = name} = {i \in 1..Len(P) : At(m, P[i]).name = name}
    BY DEF At
  <2> QED BY <1>1, <2>1 DEF Find, SelectInSeq, P
<1> QED BY <1>1, <1>2

LEMMA RemoveIs ==
  ASSUME NEW m \in Machines, NEW d, HasChain(m.fat, d), CleanDir(m.dirs, ClusterChain(m.fat, d)),
         NEW name \in Names, Find(m, d, name) # 0
  PROVE  RemoveDirEntry(m, d, name) = PutEntry(m, Places(m, d)[Find(m, d, name)], Vacant(DELETED))
<1> DEFINE at == Find(m, d, name)
           end == Find(m, d, END)
           P == Places(m, d)
           s == ClusterChain(m.fat, d)
<1>1. m.fat \in Fats
  BY DEF Machines
<1>2. /\ at \in 1..Len(P) /\ At(m, P[at]).name = name
  BY <1>1, FindIs
<1>3. end # 0 => end \in 1..Len(P) /\ At(m, P[end]).name = END
  BY <1>1, FindIs
<1>4. /\ Len(P) = Len(s) * SlotsPerCluster /\ Len(s) \in Nat /\ Len(P) \in Nat
      /\ \A n \in 1..Len(P) : P[n] = <<s[Row(n)], Col(n)>>
  <2>1. Len(P) = Len(s) * SlotsPerCluster /\ Len(s) \in Nat /\ Len(P) \in Nat
    BY <1>1, PlacesAre
  <2>2. \A n \in 1..Len(Places(m, d)) : Places(m, d)[n] = <<ClusterChain(m.fat, d)[Row(n)], Col(n)>>
    BY <1>1, PlacesAre
  <2> QED BY <2>1, <2>2
<1>5. RemoveDirEntry(m, d, name) = IF at = 0 \/ (end # 0 /\ end < at) THEN Fail(m)
                                   ELSE PutEntry(m, P[at], Vacant(DELETED))
  BY DEF RemoveDirEntry
<1> HIDE DEF at, end, P, s
<1>6. ASSUME end # 0, end < at
      PROVE  FALSE
  <2>1. end \in 1 .. Len(s) * SlotsPerCluster /\ at \in 1 .. Len(s) * SlotsPerCluster
    BY <1>2, <1>3, <1>4, <1>6
  <2>2. Row(end) < Row(at) \/ (Row(end) = Row(at) /\ Col(end) < Col(at))
    BY <1>4, <1>6, <2>1, RowColOrder
  <2>3. /\ Row(end) \in 1..Len(s) /\ Row(at) \in 1..Len(s)
        /\ Col(end) \in 1..SlotsPerCluster /\ Col(at) \in 1..SlotsPerCluster
    BY <1>4, <2>1, RowCol
  <2>4. Earlier(Row(end), Col(end), Row(at), Col(at))
    BY <2>2 DEF Earlier
  <2>5. m.dirs[s[Row(end)]][Col(end)].name = END /\ m.dirs[s[Row(at)]][Col(at)].name = name
    BY <1>2, <1>3, <1>4, <1>6 DEF At
  <2>6. IsFree(m.dirs[s[Row(at)]][Col(at)])
    BY <2>3, <2>4, <2>5 DEF CleanDir, s
  <2>7. name \notin {END, DELETED}
    BY NamesAssumption
  <2> QED BY <2>5, <2>6, <2>7 DEF IsFree
<1>7. at # 0
  BY DEF at
<1> QED BY <1>5, <1>6, <1>7 DEF at, P

LEMMA FreeChainIs ==
  ASSUME NEW m \in Machines, NEW c
  PROVE  /\ FreeChain(m, c) \in Machines /\ Freed(m.fat, FreeChain(m, c).fat, c)
         /\ FreeChain(m, c).disk_fat = m.disk_fat /\ FreeChain(m, c).dirs = m.dirs
         /\ FreeChain(m, c).result = m.result /\ SameHistory(FreeChain(m, c), m)
<1> DEFINE g == [x \in Clusters |-> IF x \in On(m.fat, c) THEN FREE ELSE m.fat[x]]
           w == FreeChain(m, c)
<1>1. w = [m EXCEPT !.fat = g]
  BY DEF FreeChain, On
<1>2. g \in Fats /\ Freed(m.fat, g, c)
  BY DEF Machines, Fats, Freed
<1> HIDE DEF g, w
<1>3. /\ w \in Machines /\ w.fat = g /\ w.disk_fat = m.disk_fat /\ w.dirs = m.dirs
      /\ w.result = m.result /\ SameHistory(w, m)
  BY <1>1, <1>2 DEF Machines, SameHistory
<1> QED BY <1>2, <1>3 DEF w

(***************************************************************************)
(* unlink of "." or "..": the chain of a directory that stays listed is    *)
(* free, and there may be no whole chain to follow.                        *)
(***************************************************************************)
LEMMA ChainTyped ==
  ASSUME NEW f \in Fats, NEW h
  PROVE  ClusterChain(f, h) \in Seq(Clusters)
<1> DEFINE P(n) == \A c \in Clusters : Links(f)[n][c] \in Seq(Clusters)
           Done == [n \in 0..NClusters |-> {1}]
           ok == [n \in 0..NClusters |-> IF P(n) THEN 1 ELSE 0]
<1>1. NClusters \in Nat
  BY Numbers
<1>2. P(0)
  <2>1. 0 \in 0..NClusters
    BY <1>1
  <2>2. \A c \in Clusters : Links(f)[0][c] = <<>>
    BY <2>1, LinksUnfold
  <2>3. <<>> \in Seq(Clusters)
    OBVIOUS
  <2> QED BY <2>2, <2>3, Zenon
<1>3. ASSUME NEW n \in 0 .. NClusters - 1, P(n)
      PROVE  P(n + 1)
  <2>1. n + 1 \in 0..NClusters /\ n + 1 # 0 /\ (n + 1) - 1 = n
    BY <1>1
  <2> SUFFICES ASSUME NEW c \in Clusters
               PROVE  Links(f)[n + 1][c] \in Seq(Clusters)
    OBVIOUS
  <2>2. Links(f)[n + 1][c] = <<c>> \o (IF f[c] \in Clusters THEN Links(f)[n][f[c]] ELSE <<>>)
    <3>1. Links(f)[n + 1][c] = IF n + 1 = 0 THEN <<>>
                               ELSE <<c>> \o (IF f[c] \in Clusters THEN Links(f)[(n + 1) - 1][f[c]] ELSE <<>>)
      BY <2>1, LinksUnfold
    <3> QED BY <2>1, <3>1
  <2>3. CASE f[c] \in Clusters
    <3>1. Links(f)[n][f[c]] \in Seq(Clusters)
      BY <1>3, <2>3
    <3> QED BY <2>2, <2>3, <3>1
  <2>4. CASE f[c] \notin Clusters
    BY <2>2, <2>4
  <2> QED BY <2>3, <2>4
<1>4. ok[NClusters] \in Done[NClusters]
  <2>1. ok[0] \in Done[0]
    <3> HIDE DEF P
    <3> QED BY <1>1, <1>2
  <2>2. ASSUME NEW n \in 0 .. NClusters - 1, ok[n] \in Done[n]
        PROVE  ok[n + 1] \in Done[n + 1]
    <3>1. n \in 0..NClusters /\ n + 1 \in 0..NClusters
      BY <1>1
    <3> HIDE DEF P
    <3> QED BY <1>3, <2>2, <3>1
  <2> HIDE DEF ok, Done
  <2> QED BY <1>1, <2>1, <2>2, Rounds
<1>5. P(NClusters)
  <2> HIDE DEF P
  <2> QED BY <1>1, <1>4
<1>6. CASE h \in Clusters
  BY <1>5, <1>6, ChainIsLinks
<1>7. CASE h \notin Clusters
  BY <1>7 DEF ClusterChain
<1> QED BY <1>6, <1>7

LEMMA FoundTyped ==
  ASSUME NEW m, m.fat \in Fats, NEW d, NEW name, Find(m, d, name) # 0,
         NEW p, p = Places(m, d)[Find(m, d, name)]
  PROVE  p[1] \in Clusters /\ p[2] \in 1..SlotsPerCluster
<1> DEFINE s == ClusterChain(m.fat, d)
           N == Len(s) * SlotsPerCluster
           P == Places(m, d)
           I == {i \in 1..Len(P) : At(m, P[i]).name = name}
<1>1. s \in Seq(Clusters) /\ Len(s) \in Nat
  BY ChainTyped
<1>2. N \in Nat
  BY <1>1, Numbers
<1>3. P = [n \in 1..N |-> <<s[Row(n)], Col(n)>>]
  BY DEF Places, Row, Col
<1>4. Find(m, d, name) = IF I # {} THEN Min(I) ELSE 0
  BY DEF Find, SelectInSeq
<1> HIDE DEF s, P, N
<1>5. Len(P) = N
  BY <1>2, <1>3
<1>6. Find(m, d, name) \in I
  <2>1. I \in SUBSET Nat /\ I # {}
    BY <1>2, <1>4, <1>5
  <2> HIDE DEF I
  <2> QED BY <1>4, <2>1, MinOfNat
<1>7. PICK n \in 1..N : p = <<s[Row(n)], Col(n)>>
  BY <1>3, <1>5, <1>6 DEF P
<1>8. Row(n) \in 1..Len(s) /\ Col(n) \in 1..SlotsPerCluster
  BY <1>1, RowCol DEF N
<1> QED BY <1>1, <1>7, <1>8

LEMMA RemoveTyped ==
  ASSUME NEW m \in Machines, m.result = "ok", NEW d, NEW name
  PROVE  RemoveDirEntry(m, d, name) \in Machines
<1> DEFINE at == Find(m, d, name)
           end == Find(m, d, END)
           p == Places(m, d)[at]
           V == Vacant(DELETED)
<1>1. m.fat \in Fats
  BY DEF Machines
<1>2. CASE at = 0 \/ (end # 0 /\ end < at)
  <2>1. RemoveDirEntry(m, d, name) = [m EXCEPT !.result = "err"]
    BY <1>2 DEF RemoveDirEntry, Fail
  <2> QED BY <2>1 DEF Machines
<1>3. CASE ~(at = 0 \/ (end # 0 /\ end < at))
  <2>1. RemoveDirEntry(m, d, name) = PutEntry(m, p, V)
    BY <1>3 DEF RemoveDirEntry
  <2>2. p[1] \in Clusters /\ p[2] \in 1..SlotsPerCluster
    BY <1>1, <1>3, FoundTyped
  <2>3. V \in RawEntries
    BY BoundsAssumption DEF Vacant, RawDirEntry, RawEntries
  <2> HIDE DEF p, V
  <2> QED BY <2>1, <2>2, <2>3, PutEntryIs
<1> QED BY <1>2, <1>3

LEMMA UnlinkDotsKeeps ==
  ASSUME Inv, NEW d \in Directories, NEW name \in {DOT, DOTDOT}, NEW left \in Nat, Unlink(d, name, left)
  PROVE  Inv'
<1> DEFINE m0 == Machine(left)
           e == Named(m0, Dir(d), name)
           m == IF e.cluster >= 2 THEN FreeChain(m0, e.cluster) ELSE m0
           n == FlushFat(RemoveDirEntry(m, Dir(d), name))
           w == Removed(d, name, left)
           done == DropInode(Table, e.cluster, e.is_dir)
<1>1. m0 \in Machines /\ m0.result = "ok"
  BY Start
<1>2. Finish(w, done, Table, Broken(w))
  BY DEF Unlink
<1> HIDE DEF done
<1>3. w = [n EXCEPT !.sound = FALSE, !.disk_sound = FALSE]
  BY DEF Removed
<1> HIDE DEF m0, e, w
<1>4. m \in Machines /\ m.result = "ok"
  <2>1. CASE e.cluster >= 2
    BY <1>1, <2>1, FreeChainIs
  <2>2. CASE ~(e.cluster >= 2)
    BY <1>1, <2>2
  <2> QED BY <2>1, <2>2
<1> HIDE DEF m
<1>5. n \in Machines
  BY <1>4, RemoveTyped, FlushIs
<1> HIDE DEF n
<1>6. w \in Machines /\ ~w.sound /\ ~w.disk_sound
  BY <1>3, <1>5 DEF Machines
<1>7. Remounts(w) /\ \A t : Survives(w, t)
  BY <1>6 DEF Remounts, Survives
<1>8. Broken(w) \in Machines /\ Survives(Broken(w), Table) /\ Remounts(Broken(w))
  BY <1>6, <1>7, BrokenIs
<1> QED BY <1>2, <1>6, <1>7, <1>8, FinishOK

LEMMA UnlinkKeeps ==
  ASSUME Inv, NEW d \in Directories, NEW name \in Names, NEW left \in Nat, Unlink(d, name, left)
  PROVE  Inv'
<1> DEFINE m0 == Machine(left)
           p == Places(m0, Dir(d))[Find(m0, Dir(d), name)]
           e == Named(m0, Dir(d), name)
           m == IF e.cluster >= 2 THEN FreeChain(m0, e.cluster) ELSE m0
           n == RemoveDirEntry(m, Dir(d), name)
           w == FlushFat(n)
           done == DropInode(Table, e.cluster, e.is_dir)
           V == Vacant(DELETED)
<1>1. /\ m0 \in Machines /\ m0.fat = fat /\ m0.disk_fat = disk_fat /\ m0.dirs = dirs /\ m0.result = "ok"
      /\ m0.disk_sound = disk_sound /\ Remounts(m0)
  BY Start
<1>2. sound /\ Find(m0, Dir(d), name) # 0 /\ Finish(w, done, Table, Broken(w))
  BY NamesAssumption DEF Unlink, Removed
<1>3. PICK g, H, K, D : Good(fat, g, dirs, Table, H, K, D) /\ Backed(m0, g)
  BY <1>1, <1>2, SoundIs
<1>4. /\ Dir(d) \in D /\ HasChain(fat, Dir(d)) /\ Slots(fat, Dir(d)) = Slots(g, Dir(d))
      /\ fat \in Fats /\ Dir(d) \in Clusters /\ ClusterChain(fat, Dir(d)) = ClusterChain(g, Dir(d))
      /\ D \subseteq H /\ K \subseteq H /\ ChainsOK(fat, H) /\ DiskOK(g, dirs, K, D)
      /\ dirs \in DirTabs /\ Dir(d) \in H
  BY <1>3, DirIs, GoodParts
<1> HIDE DEF m0
<1>5. p \in Slots(fat, Dir(d)) /\ e = Ent(dirs, p) /\ Listed(e)
  BY <1>1, <1>2, <1>4, NamedIs
<1> HIDE DEF p, e
<1>6. /\ e \in RawEntries /\ p[1] \in Clusters /\ p[2] \in 1..SlotsPerCluster
      /\ EntryOK(g, K, D, e) /\ e.cluster # Dir(d)
  BY <1>4, <1>5, SlotFacts DEF DiskOK, AllEntriesOK
<1>7. /\ e.cluster \in Clusters \cup {0} /\ e.cluster # RootCluster /\ e.is_dir \in BOOLEAN
      /\ e.cluster # 0 => e.cluster \in H /\ (e.is_dir <=> e.cluster \in D)
  BY <1>4, <1>6, Numbers DEF EntryOK, RawEntries
<1>8. /\ m \in Machines /\ m.disk_fat = disk_fat /\ m.dirs = dirs /\ m.result = "ok"
      /\ m.disk_sound = disk_sound
      /\ e.cluster = 0 => m.fat = fat
      /\ e.cluster # 0 => Freed(fat, m.fat, e.cluster)
  <2>1. CASE e.cluster = 0
    BY <1>1, <2>1
  <2>2. CASE e.cluster # 0
    <3>1. e.cluster >= 2
      BY <1>7, <2>2, Numbers
    <3>2. m = FreeChain(m0, e.cluster)
      BY <3>1
    <3> HIDE DEF m
    <3> QED BY <1>1, <2>2, <3>2, FreeChainIs DEF SameHistory
  <2> QED BY <2>1, <2>2
<1> HIDE DEF m
<1>9. m.fat \in Fats /\ ClusterChain(m.fat, Dir(d)) = ClusterChain(fat, Dir(d)) /\ HasChain(m.fat, Dir(d))
  <2>1. m.fat \in Fats
    BY <1>8 DEF Machines
  <2>2. CASE e.cluster = 0
    BY <1>4, <1>8, <2>1, <2>2
  <2>3. CASE e.cluster # 0
    <3>1. \A x \in On(fat, Dir(d)) : x \in Clusters /\ x \notin On(fat, e.cluster)
      BY <1>4, <1>6, <1>7, <2>3, ChainElements
    <3>2. \A x \in On(fat, Dir(d)) : m.fat[x] = fat[x]
      BY <1>8, <2>3, <3>1 DEF Freed
    <3> QED BY <1>4, <2>1, <3>2, SameChain
  <2> QED BY <2>2, <2>3
<1>10. n = PutEntry(m, p, V)
  <2>1. Places(m, Dir(d)) = Places(m0, Dir(d)) /\ Find(m, Dir(d), name) = Find(m0, Dir(d), name)
    BY <1>1, <1>8, <1>9, SamePlaces
  <2>2. CleanDir(m.dirs, ClusterChain(m.fat, Dir(d)))
    BY <1>4, <1>8, <1>9 DEF DiskOK
  <2> QED BY <1>2, <1>8, <1>9, <2>1, <2>2, RemoveIs DEF p
<1> HIDE DEF n
<1>11. V \in RawEntries /\ ~Listed(V)
  BY BoundsAssumption DEF Vacant, RawDirEntry, RawEntries, Listed, IsFree
<1> HIDE DEF V
<1>12. /\ n \in Machines
       /\ \/ n.result = "ata" /\ Same(n, m)
          \/ /\ n.result = "ok" /\ n.dirs = Put(m.dirs, p, V)
             /\ n.fat = m.fat /\ n.disk_fat = m.disk_fat /\ SameHistory(n, m)
  BY <1>6, <1>8, <1>10, <1>11, PutEntryIs
<1>13. /\ w \in Machines /\ w.fat = n.fat /\ w.dirs = n.dirs
       /\ n.result # "ok" => w = n
       /\ n.result = "ok" => w.result \in {"ok", "ata"}
  BY <1>12, FlushIs
<1>14. CASE n.result = "ata" /\ Same(n, m)
  <2>1. Remounts(n)
    BY <1>1, <1>8, <1>14 DEF Remounts, Same, SameHistory
  <2>2. Broken(n) \in Machines /\ Survives(Broken(n), Table) /\ Remounts(Broken(n))
    BY <1>12, <2>1, BrokenIs
  <2> HIDE DEF done, w
  <2> QED BY <1>2, <1>13, <1>14, <2>1, <2>2, FinishOK
<1>15. CASE n.result = "ok" /\ n.dirs = Put(m.dirs, p, V) /\ n.fat = m.fat /\ n.disk_fat = m.disk_fat
            /\ SameHistory(n, m)
  <2>1. Good(fat, g, n.dirs, Table, H, K, D)
    BY <1>3, <1>4, <1>5, <1>8, <1>15, RemoveEntryOK DEF V
  <2>2. Good(fat, fat, n.dirs, Table, H, H, D)
    BY <2>1, FlushOK
  <2>3. /\ Good(fat, fat, n.dirs, done, H, H, D)
        /\ e.cluster # 0 => \A i \in DOMAIN done.inodes : done.inodes[i].first_cluster # e.cluster
    BY <1>7, <2>2, DropOK
  <2> HIDE DEF done
  <2>4. \E h, J, I, E : Good(n.fat, h, n.dirs, done, J, I, E)
    <3>1. CASE e.cluster = 0
      BY <1>8, <1>15, <2>3, <3>1
    <3>2. CASE e.cluster # 0
      <4>1. ASSUME NEW b \in D, NEW q \in Slots(fat, b), Listed(Ent(n.dirs, q))
            PROVE  Ent(n.dirs, q).cluster # e.cluster
        <5>1. Slots(fat, b) = Slots(g, b)
          BY <1>3, GoodParts
        <5>2. q[1] \in Clusters /\ q[2] \in 1..SlotsPerCluster /\ q = <<q[1], q[2]>> /\ p = <<p[1], p[2]>>
          BY <1>4, <1>5, <5>1, SlotFacts
        <5>3. Ent(n.dirs, q) = IF q[1] = p[1] /\ q[2] = p[2] THEN V ELSE Ent(dirs, q)
          BY <1>4, <1>6, <1>8, <1>11, <1>15, <5>2, PutIs DEF Ent
        <5>4. q # p /\ Ent(n.dirs, q) = Ent(dirs, q)
          BY <1>11, <4>1, <5>2, <5>3
        <5> QED BY <1>4, <1>5, <3>2, <4>1, <5>1, <5>4 DEF DiskOK, ListedOnce
      <4>2. Good(m.fat, m.fat, n.dirs, done, H \ {e.cluster}, H \ {e.cluster}, D \ {e.cluster})
        BY <1>7, <1>8, <1>9, <2>3, <3>2, <4>1, FreeHeadOK
      <4> QED BY <1>15, <4>2
    <3> QED BY <3>1, <3>2
  <2>5. PICK h, J, I, E : Good(n.fat, h, n.dirs, done, J, I, E)
    BY <2>4
  <2>6. Good(n.fat, n.fat, n.dirs, done, J, J, E)
    BY <2>5, FlushOK
  <2>7. w.result = "ok" => Survives(w, done)
    <3>1. w.result = "ok" => w.disk_fat = n.fat
      BY <1>12, <1>15, FlushIs
    <3>2. w.result = "ok" => Backed(w, n.fat)
      BY <1>12, <3>1 DEF Backed, Machines
    <3> QED BY <1>13, <2>6, <3>2, GoodSurvives
  <2>8. Remounts(w)
    <3>1. Flushed(n, w) /\ w.disk_fat \in Fats
      BY <1>12, <1>13, <1>15, FlushIs DEF Machines
    <3>2. ASSUME w.disk_sound, UpToDate(n, w.disk_fat)
          PROVE  Mountable(w.disk_fat, w.dirs)
      <4>1. Good(n.fat, w.disk_fat, n.dirs, done, J, J, E)
        BY <2>6, <3>1, <3>2, UpToDateOK DEF UpToDate
      <4> QED BY <1>13, <4>1, KeptIs
    <3>3. ASSUME n.disk_sound, w.disk_fat = n.disk_fat
          PROVE  Mountable(w.disk_fat, w.dirs)
      <4>1. g = w.disk_fat
        BY <1>1, <1>3, <1>8, <1>15, <3>3 DEF Backed, SameHistory
      <4> QED BY <1>13, <2>1, <4>1, KeptIs
    <3> QED BY <3>1, <3>2, <3>3 DEF Remounts, Flushed
  <2>9. Broken(w) \in Machines /\ Survives(Broken(w), Table) /\ Remounts(Broken(w))
    BY <1>13, <2>8, BrokenIs
  <2> HIDE DEF w
  <2> QED BY <1>2, <1>13, <1>15, <2>7, <2>8, <2>9, FinishOK
<1> QED BY <1>12, <1>14, <1>15

(***************************************************************************)
(* readdir: a fold over the slots of the directory.                        *)
(***************************************************************************)
Tables == [inodes : UNION {[I -> Inodes] : I \in SUBSET Nat}, next_inode : Nat]

LEMMA TableOKIn ==
  ASSUME NEW t, TableOK(t)
  PROVE  t \in Tables
<1>1. DOMAIN t.inodes \in SUBSET Nat /\ t.inodes \in [DOMAIN t.inodes -> Inodes]
  BY DEF TableOK
<1>2. t.inodes \in UNION {[I -> Inodes] : I \in SUBSET Nat}
  BY <1>1
<1>3. t = [inodes |-> t.inodes, next_inode |-> t.next_inode] /\ t.next_inode \in Nat
  BY DEF TableOK
<1> HIDE DEF Inodes
<1> QED BY <1>2, <1>3 DEF Tables

LEMMA InternAllOK ==
  ASSUME NEW m \in Machines, NEW d, HasChain(m.fat, d), NEW t,
         NEW f, NEW df, NEW H, NEW K, NEW D, Good(f, df, m.dirs, t, H, K, D),
         d \in D, Slots(m.fat, d) = Slots(df, d)
  PROVE  Good(f, df, m.dirs, InternAll(t, m, d), H, K, D)
<1> DEFINE Op(u, p) == IF Listed(At(m, p)) THEN InternEntry(u, At(m, p)) ELSE u
           S == {u \in Tables : Good(f, df, m.dirs, u, H, K, D)}
           E == Slots(df, d)
           s == Places(m, d)
           l == Len(Places(m, d))
           G == [x \in S \X E |-> Op(x[1], x[2])]
           IsFold(h) == h = [T \in SUBSET (1..l) |->
                              IF T = {} THEN t ELSE Op(h[T \ {Max(T)}], s[Max(T)])]
           it == CHOOSE h : IsFold(h)
<1>0. m.fat \in Fats
  BY DEF Machines
<1>1. l \in Nat /\ DOMAIN s = 1..l /\ \A k \in 1..l : s[k] \in E
  <2>1. l \in Nat /\ DOMAIN s = 1..l
    BY <1>0, PlacesAre
  <2>2. \A k \in 1..Len(Places(m, d)) : Places(m, d)[k] \in Slots(m.fat, d)
    BY <1>0, PlacesAre
  <2> QED BY <2>1, <2>2
<1>2. \A u \in S, p \in E : Op(u, p) \in S
  <2> SUFFICES ASSUME NEW u \in S, NEW p \in E
               PROVE  Op(u, p) \in S
    OBVIOUS
  <2>1. CASE Listed(At(m, p))
    <3>1. Op(u, p) = InternEntry(u, Ent(m.dirs, p)) /\ Listed(Ent(m.dirs, p))
      BY <2>1 DEF At, Ent
    <3>2. Good(f, df, m.dirs, u, H, K, D)
      OBVIOUS
    <3>3. Good(f, df, m.dirs, InternEntry(u, Ent(m.dirs, p)), H, K, D)
      BY <3>1, <3>2, InternEntryOK
    <3>4. InternEntry(u, Ent(m.dirs, p)) \in Tables
      BY <3>3, GoodParts, TableOKIn
    <3> HIDE DEF Op
    <3> QED BY <3>1, <3>3, <3>4
  <2>2. CASE ~Listed(At(m, p))
    BY <2>2
  <2> QED BY <2>1, <2>2
<1>3. t \in S
  BY GoodParts, TableOKIn
<1>4. InternAll(t, m, d) = it[1..l]
  BY <1>1 DEF InternAll, FoldLeft, MapThenFoldSet
<1> HIDE DEF S, Op, s, l, E
<1>5. G \in [S \X E -> S]
  BY <1>2
<1>6. PICK h : IsFoldOf(h, S, G, t, l, s)
  <2> HIDE DEF G
  <2> QED BY <1>1, <1>3, <1>5, FoldExists
<1>7. IsFold(h)
  <2>1. ASSUME NEW T \in SUBSET (1..l)
        PROVE  h[T] = IF T = {} THEN t ELSE Op(h[T \ {Max(T)}], s[Max(T)])
    <3>1. CASE T = {}
      BY <1>6, <3>1 DEF IsFoldOf
    <3>2. CASE T # {}
      <4>1. h[T \ {Max(T)}] \in S /\ s[Max(T)] \in E
        BY <1>1, <1>6, <3>2, MaxIn DEF IsFoldOf
      <4>2. G[<<h[T \ {Max(T)}], s[Max(T)]>>] = Op(h[T \ {Max(T)}], s[Max(T)])
        BY <4>1
      <4> HIDE DEF G
      <4> QED BY <1>6, <3>2, <4>2 DEF IsFoldOf
    <3> QED BY <3>1, <3>2
  <2> HIDE DEF G
  <2>2. h = [T \in SUBSET (1..l) |-> h[T]]
    BY <1>6 DEF IsFoldOf
  <2> QED BY <2>1, <2>2
<1>8. IsFold(it)
  <2> HIDE DEF IsFold
  <2> QED BY <1>7
<1> HIDE DEF it
<1>9. it[{}] \in S
  BY <1>3, <1>8
<1>10. ASSUME NEW k \in 0 .. l - 1, it[1..k] \in S
       PROVE  it[1 .. k + 1] \in S
  <2>1. 1 .. k + 1 \in SUBSET (1..l) /\ 1 .. k + 1 # {} /\ Max(1 .. k + 1) = k + 1
        /\ (1 .. k + 1) \ {k + 1} = 1..k
    BY <1>1, LastPosition
  <2>2. it[1 .. k + 1] = Op(it[(1 .. k + 1) \ {Max(1 .. k + 1)}], s[Max(1 .. k + 1)])
    BY <1>8, <2>1
  <2>3. it[1 .. k + 1] = Op(it[1..k], s[k + 1])
    BY <2>1, <2>2
  <2>4. s[k + 1] \in E
    <3>1. k + 1 \in 1..l
      BY <1>1
    <3> QED BY <1>1, <3>1
  <2> QED BY <1>2, <1>10, <2>3, <2>4
<1>11. it[1..l] \in S
  BY <1>1, <1>9, <1>10, FoldStaysIn
<1> QED BY <1>4, <1>11 DEF S

LEMMA ReaddirKeeps ==
  ASSUME Inv, NEW d \in Directories, Readdir(d)
  PROVE  Inv'
<1> DEFINE m == Machine(0)
           t == InternAll(Table, m, Dir(d))
<1>1. /\ m \in Machines /\ m.fat = fat /\ m.disk_fat = disk_fat /\ m.dirs = dirs
      /\ m.disk_sound = disk_sound
  BY Start
<1>2. sound /\ Install(m, t)
  BY DEF Readdir
<1> HIDE DEF m
<1>3. PICK g, H, K, D : Good(fat, g, dirs, Table, H, K, D) /\ Backed(m, g)
  BY <1>1, <1>2, SoundIs
<1>4. /\ Dir(d) \in D /\ HasChain(m.fat, Dir(d)) /\ Slots(m.fat, Dir(d)) = Slots(g, Dir(d))
      /\ Good(fat, g, m.dirs, Table, H, K, D)
  BY <1>1, <1>3, DirIs
<1>5. Good(m.fat, g, m.dirs, t, H, K, D)
  BY <1>1, <1>4, InternAllOK
<1> HIDE DEF t
<1>6. Survives(m, t) /\ Remounts(m)
  BY <1>3, <1>5, GoodSurvives
<1> QED BY <1>1, <1>2, <1>6, InstallOK

(***************************************************************************)
(* The machine is switched off and on again.                               *)
(***************************************************************************)
LEMMA RestartKeeps ==
  ASSUME Inv, Restart
  PROVE  Inv'
<1>1. Machine(0) \in Machines /\ Remounts(Machine(0))
  BY Start
<1>2. Mount(Machine(0))
  BY DEF Restart
<1> QED BY <1>1, <1>2, RemountOK

(***************************************************************************)
(* The chain of a file grows by one cluster in each round, and the other   *)
(* chains stay as they are.                                                *)
(***************************************************************************)
Grown(x, m, g, t, H, K, D) ==
  /\ x \in Machines /\ x.disk_fat = m.disk_fat /\ x.dirs = m.dirs /\ x.result \in {"ok", "err"}
  /\ SameHistory(x, m)
  /\ x.first \notin D /\ (x.first = m.first \/ (m.first = 0 /\ x.first \notin H))
  /\ \E J \in SUBSET Clusters :
       H \subseteq J /\ x.first \in J \cup {0} /\ Good(x.fat, g, m.dirs, t, J, K, D)

ChainLen(x) == Len(ClusterChain(x.fat, x.first))

LEMMA NoChain ==
  ASSUME NEW x, x.first = 0
  PROVE  ChainLen(x) = 0
<1>1. 0 \notin Clusters
  BY Numbers
<1>2. ClusterChain(x.fat, 0) = <<>>
  BY <1>1 DEF ClusterChain
<1> QED BY <1>2 DEF ChainLen

LEMMA GrowChainGrows ==
  ASSUME NEW m, NEW g, NEW t, NEW H, NEW K, NEW D, NEW x, Grown(x, m, g, t, H, K, D), NEW w, w = GrowChain(x)
  PROVE  /\ Grown(w, m, g, t, H, K, D)
         /\ x.result # "ok" => w = x
         /\ w.result = "ok" => ChainLen(x) \in Nat /\ ChainLen(w) = ChainLen(x) + 1
<1> DEFINE new == NextFree(x)
           a == AllocCluster(x)
<1>1. PICK J \in SUBSET Clusters :
        H \subseteq J /\ x.first \in J \cup {0} /\ Good(x.fat, g, m.dirs, t, J, K, D)
  BY DEF Grown
<1>2. /\ x \in Machines /\ x.disk_fat = m.disk_fat /\ x.dirs = m.dirs /\ x.result \in {"ok", "err"}
      /\ x.first \notin D /\ (x.first = m.first \/ (m.first = 0 /\ x.first \notin H))
      /\ SameHistory(x, m)
  BY DEF Grown
<1>3. /\ x.fat \in Fats /\ ChainsOK(x.fat, J) /\ D \subseteq J
      /\ \A h \in J : Len(ClusterChain(x.fat, h)) \in Nat
  BY <1>1, GoodParts
<1>4. CASE x.result # "ok"
  BY <1>4 DEF GrowChain
<1>5. CASE x.result = "ok" /\ FreeClusters(x) = {}
  <2>1. w = [x EXCEPT !.result = "err"]
    BY <1>5 DEF GrowChain, Fail
  <2>2. /\ w \in Machines /\ w.fat = x.fat /\ w.disk_fat = x.disk_fat /\ w.dirs = x.dirs
        /\ w.first = x.first /\ w.result = "err" /\ SameHistory(w, x)
    BY <1>2, <2>1 DEF Machines, SameHistory
  <2>3. SameHistory(w, m)
    BY <1>2, <2>2 DEF SameHistory
  <2> QED BY <1>1, <1>2, <1>5, <2>2, <2>3 DEF Grown
<1>6. CASE x.result = "ok" /\ FreeClusters(x) # {} /\ x.first = 0
  <2>1. w = [a EXCEPT !.first = new]
    BY <1>6 DEF GrowChain
  <2>2. /\ Allocated(x.fat, a.fat, new) /\ a \in Machines /\ a.disk_fat = x.disk_fat
        /\ a.dirs = x.dirs /\ a.result = x.result /\ SameHistory(a, x)
    BY <1>2, <1>6, AllocIs
  <2>3. new \in Clusters /\ a.fat \in Fats
    BY <2>2 DEF Allocated
  <2> HIDE DEF a, new
  <2>4. /\ w \in Machines /\ w.fat = a.fat /\ w.disk_fat = x.disk_fat /\ w.dirs = x.dirs
        /\ w.first = new /\ w.result = "ok" /\ SameHistory(w, m)
    BY <1>2, <1>6, <2>1, <2>2, <2>3 DEF Machines, SameHistory
  <2>5. PICK I : I = J \cup {new}
    OBVIOUS
  <2>6. /\ new \notin J /\ ChainsOK(a.fat, I) /\ ClusterChain(a.fat, new) = <<new>>
        /\ \A h \in J : ClusterChain(a.fat, h) = ClusterChain(x.fat, h)
    <3>1. x.fat \in Fats /\ ChainsOK(x.fat, J) /\ Allocated(x.fat, a.fat, new)
      BY <1>3, <2>2
    <3>2. /\ new \notin J /\ ChainsOK(a.fat, I)
          /\ ClusterChain(a.fat, new) = <<new>> /\ On(a.fat, new) = {new}
          /\ \A h \in J : /\ ClusterChain(a.fat, h) = ClusterChain(x.fat, h) /\ On(a.fat, h) = On(x.fat, h)
                          /\ new \notin On(x.fat, h)
      BY <2>5, <3>1, NewChain, SMTT(30)
    <3> QED BY <3>2
  <2>7. Good(a.fat, g, m.dirs, t, I, K, D)
    <3>1. J \subseteq I /\ (\A h \in J : Len(ClusterChain(x.fat, h)) <= Len(ClusterChain(a.fat, h)))
      BY <1>3, <2>5, <2>6
    <3>2. \A d \in D : ClusterChain(a.fat, d) = ClusterChain(x.fat, d)
      BY <1>3, <2>6
    <3> QED BY <1>1, <2>3, <2>6, <3>1, <3>2, MoreClusters
  <2>8. I \in SUBSET Clusters /\ H \subseteq I /\ w.first \in I \cup {0} /\ w.first \notin D /\ w.first \notin H
    BY <1>1, <1>3, <2>3, <2>4, <2>5, <2>6
  <2>9. m.first = 0
    BY <1>2, <1>6
  <2>10. Grown(w, m, g, t, H, K, D)
    BY <1>2, <2>4, <2>7, <2>8, <2>9 DEF Grown
  <2>11. ChainLen(x) = 0 /\ ChainLen(w) = 1
    BY <1>6, <2>4, <2>6, NoChain DEF ChainLen
  <2> QED BY <1>6, <2>10, <2>11
<1>7. CASE x.result = "ok" /\ FreeClusters(x) # {} /\ x.first # 0
  <2>1. w = Link(x, x.first)
    BY <1>7 DEF GrowChain, Link
  <2>2. x.first \in J /\ HasChain(x.fat, x.first)
    BY <1>1, <1>3, <1>7 DEF ChainsOK
  <2>3. /\ w \in Machines /\ LinkedTo(x.fat, w.fat, x.first, new)
        /\ w.disk_fat = x.disk_fat /\ w.dirs = x.dirs /\ w.first = x.first /\ w.result = x.result
        /\ SameHistory(w, x)
    BY <1>2, <1>7, <2>1, <2>2, LinkIs
  <2>4. w.fat \in Fats
    BY <2>3 DEF Machines
  <2> HIDE DEF new
  <2>5. /\ ChainsOK(w.fat, J) /\ ClusterChain(w.fat, x.first) = Append(ClusterChain(x.fat, x.first), new)
        /\ \A h \in J : h # x.first => ClusterChain(w.fat, h) = ClusterChain(x.fat, h)
    BY <1>3, <2>2, <2>3, <2>4, LongerChain DEF LinkedTo
  <2>6. ChainLen(x) \in Nat /\ ChainLen(w) = ChainLen(x) + 1
    <3>1. ClusterChain(x.fat, x.first) \in Seq(Clusters) /\ new \in Clusters
      BY <1>3, <2>2, <2>3, ChainElements DEF LinkedTo
    <3> QED BY <2>3, <2>5, <3>1 DEF ChainLen
  <2>7. Good(w.fat, g, m.dirs, t, J, K, D)
    <3>1. \A h \in J : Len(ClusterChain(x.fat, h)) <= Len(ClusterChain(w.fat, h))
      BY <1>3, <2>3, <2>5, <2>6 DEF ChainLen
    <3>2. \A d \in D : ClusterChain(w.fat, d) = ClusterChain(x.fat, d)
      BY <1>2, <1>3, <2>5
    <3>3. J \subseteq J
      OBVIOUS
    <3> QED BY <1>1, <2>4, <2>5, <3>1, <3>2, <3>3, MoreClusters
  <2>8. Grown(w, m, g, t, H, K, D)
    <3>1. SameHistory(w, m)
      BY <1>2, <2>3 DEF SameHistory
    <3> QED BY <1>1, <1>2, <2>3, <2>7, <3>1 DEF Grown
  <2> QED BY <1>7, <2>6, <2>8
<1> QED BY <1>4, <1>5, <1>6, <1>7

(***************************************************************************)
(* After the rounds that were missing the chain is long enough, or there   *)
(* were no free clusters left and the call returns an error.               *)
(***************************************************************************)
LEMMA CoverRangeGrows ==
  ASSUME NEW m, NEW g, NEW t, NEW H, NEW K, NEW D, Grown(m, m, g, t, H, K, D), NEW end \in Nat,
         NEW w, w = CoverRange(m, end)
  PROVE  /\ Grown(w, m, g, t, H, K, D)
         /\ w.result = "ok" => ChainLen(w) \in Nat /\ ChainLen(w) >= NeededClusters(end)
<1> DEFINE Op(x, k) == GrowChain(x)
           S == {x \in Machines : Grown(x, m, g, t, H, K, D)}
           missing == NeededClusters(end) - ChainLen(m)
           l == IF missing > 0 THEN missing ELSE 0
           s == [k \in 1..missing |-> k]
           G == [x \in S \X Int |-> Op(x[1], x[2])]
           IsFold(h) == h = [T \in SUBSET (1..l) |->
                              IF T = {} THEN m ELSE Op(h[T \ {Max(T)}], s[Max(T)])]
           it == CHOOSE h : IsFold(h)
           After(k) == {x \in S : x.result = "ok" => ChainLen(x) = ChainLen(m) + k}
<1>0. ChainLen(m) \in Nat
  <2>1. PICK J \in SUBSET Clusters :
          m.first \in J \cup {0} /\ Good(m.fat, g, m.dirs, t, J, K, D)
    BY DEF Grown
  <2>2. m.first # 0 => ChainLen(m) \in Nat
    BY <2>1, GoodParts DEF ChainLen
  <2> QED BY <2>2, NoChain
<1>1. NeededClusters(end) \in Nat
  <2>1. BytesPerCluster \in Nat \ {0} /\ end + BytesPerCluster - 1 \in Nat
    BY Numbers
  <2> DEFINE n == end + BytesPerCluster - 1
  <2> HIDE DEF n
  <2>2. n \div BytesPerCluster \in Nat
    BY <2>1 DEF n
  <2> QED BY <2>2 DEF NeededClusters, n
<1>2. /\ l \in Nat /\ 1..missing = 1..l /\ DOMAIN s = 1..l /\ \A k \in 1..l : s[k] \in Int
      /\ ChainLen(m) + l >= NeededClusters(end)
  BY <1>0, <1>1
<1>3. \A x \in S, k \in Int : Op(x, k) \in S
  <2> SUFFICES ASSUME NEW x \in S, NEW k \in Int
               PROVE  Op(x, k) \in S
    OBVIOUS
  <2>1. Grown(GrowChain(x), m, g, t, H, K, D)
    BY GrowChainGrows
  <2> QED BY <2>1 DEF Grown
<1>4. m \in S
  BY DEF Grown
<1>5. w = it[1..l]
  <2>1. w = FoldLeft(LAMBDA n, k : GrowChain(n), m, s)
    BY DEF CoverRange, ChainLen
  <2> HIDE DEF s
  <2> QED BY <1>2, <2>1 DEF FoldLeft, MapThenFoldSet
<1> HIDE DEF S, s, l, missing
<1>6. G \in [S \X Int -> S]
  BY <1>3
<1> HIDE DEF Op
<1>7. PICK h : IsFoldOf(h, S, G, m, l, s)
  <2> HIDE DEF G
  <2> QED BY <1>2, <1>4, <1>6, FoldExists
<1>8. IsFold(h)
  <2>1. ASSUME NEW T \in SUBSET (1..l)
        PROVE  h[T] = IF T = {} THEN m ELSE Op(h[T \ {Max(T)}], s[Max(T)])
    <3>1. CASE T = {}
      BY <1>7, <3>1 DEF IsFoldOf
    <3>2. CASE T # {}
      <4>1. h[T \ {Max(T)}] \in S /\ s[Max(T)] \in Int
        BY <1>2, <1>7, <3>2, MaxIn DEF IsFoldOf
      <4>2. G[<<h[T \ {Max(T)}], s[Max(T)]>>] = Op(h[T \ {Max(T)}], s[Max(T)])
        BY <4>1
      <4> HIDE DEF G
      <4> QED BY <1>7, <3>2, <4>2 DEF IsFoldOf
    <3> QED BY <3>1, <3>2
  <2> HIDE DEF G
  <2>2. h = [T \in SUBSET (1..l) |-> h[T]]
    BY <1>7 DEF IsFoldOf
  <2> QED BY <2>1, <2>2
<1>9. IsFold(it)
  <2> HIDE DEF IsFold
  <2> QED BY <1>8
<1> HIDE DEF it
<1>10. it[1..l] \in After(l)
  <2> DEFINE r == [k \in 0..l |-> it[1..k]]
             Fine == [k \in 0..l |-> After(k)]
  <2>1. r[0] \in Fine[0]
    <3>1. 1..0 = {} /\ 0 \in 0..l
      BY <1>2
    <3>2. it[{}] = m
      BY <1>9
    <3>3. m \in After(0)
      BY <1>0, <1>4
    <3> HIDE DEF After
    <3> QED BY <3>1, <3>2, <3>3
  <2>2. ASSUME NEW k \in 0 .. l - 1, r[k] \in Fine[k]
        PROVE  r[k + 1] \in Fine[k + 1]
    <3>1. 1 .. k + 1 \in SUBSET (1..l) /\ 1 .. k + 1 # {} /\ Max(1 .. k + 1) = k + 1
          /\ (1 .. k + 1) \ {k + 1} = 1..k
      BY <1>2, LastPosition
    <3>2. it[1 .. k + 1] = Op(it[(1 .. k + 1) \ {Max(1 .. k + 1)}], s[Max(1 .. k + 1)])
      BY <1>9, <3>1
    <3>3. it[1 .. k + 1] = GrowChain(it[1..k])
      BY <3>1, <3>2 DEF Op
    <3>4. k \in 0..l /\ k + 1 \in 0..l /\ k \in Nat
      BY <1>2
    <3> DEFINE x == it[1..k]
    <3>5. x \in After(k)
      BY <2>2, <3>4
    <3> HIDE DEF x
    <3>6. Grown(x, m, g, t, H, K, D) /\ (x.result = "ok" => ChainLen(x) = ChainLen(m) + k)
      BY <3>5 DEF S
    <3>7. /\ Grown(GrowChain(x), m, g, t, H, K, D)
          /\ x.result # "ok" => GrowChain(x) = x
          /\ GrowChain(x).result = "ok" => ChainLen(x) \in Nat /\ ChainLen(GrowChain(x)) = ChainLen(x) + 1
      BY <3>6, GrowChainGrows
    <3>8. GrowChain(x).result = "ok" => ChainLen(GrowChain(x)) = ChainLen(m) + (k + 1)
      BY <1>0, <3>4, <3>6, <3>7
    <3>9. GrowChain(x) \in After(k + 1)
      BY <3>7, <3>8 DEF S, Grown
    <3> HIDE DEF After
    <3> QED BY <3>3, <3>4, <3>9 DEF x
  <2>3. r[l] \in Fine[l]
    <3> HIDE DEF r, Fine
    <3> QED BY <1>2, <2>1, <2>2, Rounds
  <2> HIDE DEF After
  <2> QED BY <1>2, <2>3
<1>11. w \in S /\ (w.result = "ok" => ChainLen(w) = ChainLen(m) + l)
  BY <1>5, <1>10
<1> QED BY <1>0, <1>1, <1>2, <1>11 DEF S

(***************************************************************************)
(* The pieces of a write go to clusters of the file's own chain.           *)
(***************************************************************************)
LEMMA PieceIndex ==
  ASSUME NEW offset \in Nat, NEW end \in Nat, NEW pos \in offset .. end - 1
  PROVE  /\ (pos - offset) \div BytesPerCluster + 1 \in Nat \ {0}
         /\ (pos - offset) \div BytesPerCluster + 1 <= NeededClusters(end)
<1> DEFINE w == BytesPerCluster
           a == pos - offset
           q == a \div w
           r == a % w
           b == end + w - 1
<1>1. w \in Nat \ {0} /\ a \in Nat /\ b \in Nat /\ a + w <= b /\ a + w \in Nat
  BY Numbers
<1>2. q \in Nat /\ r \in 0 .. w - 1 /\ a = w * q + r
  <2> HIDE DEF w, a
  <2> QED BY <1>1
<1> HIDE DEF w, a, q, r, b
<1>3. w * (q + 1) + r = a + w
  <2>1. w * (q + 1) = w * q + w /\ w * q \in Nat
    BY <1>1, <1>2
  <2> DEFINE p == w * q
             p1 == w * (q + 1)
  <2> HIDE DEF p, p1
  <2>2. p1 = p + w /\ p \in Nat /\ a = p + r
    BY <1>2, <2>1 DEF p, p1
  <2>3. p1 + r = a + w
    BY <1>1, <1>2, <2>2
  <2> QED BY <2>3 DEF p1
<1>4. q + 1 \in Nat /\ (w * (q + 1) + r) \div w = q + 1
  BY <1>1, <1>2, DivMod
<1>5. (a + w) \div w = q + 1
  BY <1>3, <1>4
<1>6. (a + w) \div w <= b \div w
  BY <1>1, DivMono
<1>7. q + 1 \in Nat \ {0} /\ q + 1 <= b \div w
  BY <1>2, <1>5, <1>6
<1> QED BY <1>7 DEF NeededClusters, w, a, q, b

LEMMA WriteBytesIs ==
  ASSUME NEW m \in Machines, m.result = "ok", NEW c \in Clusters,
         NEW bytes \in [0 .. BytesPerCluster - 1 -> Bytes],
         NEW w, w = WriteBytes(m, c, bytes)
  PROVE  /\ w \in Machines
         /\ \/ w.result = "ata" /\ Same(w, m)
            \/ /\ w.result = "ok" /\ w.dirs = [m.dirs EXCEPT ![c] = Cleared]
               /\ w.fat = m.fat /\ w.disk_fat = m.disk_fat /\ w.first = m.first
              /\ SameHistory(w, m)
<1> DEFINE n == [m EXCEPT !.data[c] = bytes, !.dirs[c] = Cleared]
           dt == [m.data EXCEPT ![c] = bytes]
           dr == [m.dirs EXCEPT ![c] = Cleared]
<1>1. w = DiskWrite(m, n)
  BY DEF WriteBytes
<1>2. dt \in DataTabs /\ dr \in DirTabs
  <2>1. m.data \in DataTabs /\ m.dirs \in DirTabs
    BY DEF Machines
  <2>2. Cleared \in [1..SlotsPerCluster -> RawEntries]
    <3>1. RawDirEntry(LABEL, FALSE, 0, 0) \in RawEntries
      BY BoundsAssumption DEF RawDirEntry, RawEntries
    <3> QED BY <3>1, FirstOfIs
  <2>3. dt \in DataTabs
    BY <2>1 DEF DataTabs
  <2>4. dr \in DirTabs
    <3> HIDE DEF Cleared
    <3> QED BY <2>1, <2>2 DEF DirTabs
  <2> QED BY <2>3, <2>4
<1>3. n = [m EXCEPT !.data = dt, !.dirs = dr]
  BY DEF Machines
<1> HIDE DEF n, dt, dr
<1>4. /\ n \in Machines /\ n.fat = m.fat /\ n.disk_fat = m.disk_fat /\ n.dirs = dr
      /\ n.first = m.first /\ n.left = m.left /\ n.result = m.result /\ SameHistory(n, m)
  BY <1>2, <1>3 DEF Machines, SameHistory
<1>5. /\ w \in Machines
      /\ \/ w.result = "ata" /\ Same(w, m)
         \/ w.result = "ok" /\ Same(w, n)
  BY <1>1, <1>4, DiskWriteIs
<1> QED BY <1>4, <1>5 DEF Same, SameHistory, dr

Written(x, m, g, t, J, K, D) ==
  /\ x \in Machines /\ x.fat = m.fat /\ x.disk_fat = m.disk_fat /\ x.first = m.first
  /\ (x.result = "ok" => m.result = "ok") /\ SameHistory(x, m)
  /\ Good(m.fat, g, x.dirs, t, J, K, D)

LEMMA WritePieceOK ==
  ASSUME NEW m, NEW g, NEW t, NEW J, NEW K, NEW D, m.first \in J \cup {0}, m.first \notin D,
         NEW offset \in Nat, NEW end \in Nat, NEW byte \in Bytes, NEW pos \in offset .. end - 1,
         m.result = "ok" => ChainLen(m) \in Nat /\ ChainLen(m) >= NeededClusters(end),
         NEW x, Written(x, m, g, t, J, K, D), NEW w, w = WritePiece(x, offset, end, pos, byte)
  PROVE  Written(w, m, g, t, J, K, D)
<1>1. /\ x \in Machines /\ x.fat = m.fat /\ x.disk_fat = m.disk_fat /\ x.first = m.first
      /\ (x.result = "ok" => m.result = "ok") /\ SameHistory(x, m)
      /\ Good(m.fat, g, x.dirs, t, J, K, D)
  BY DEF Written
<1>2. CASE x.result # "ok" \/ ~StartsPiece(offset, pos)
  <2>1. w = x
    BY <1>2 DEF WritePiece
  <2> QED BY <2>1
<1>3. CASE x.result = "ok" /\ StartsPiece(offset, pos)
  <2> DEFINE j == (pos - offset) \div BytesPerCluster + 1
             c == ClusterChain(x.fat, x.first)[j]
             from == pos % BytesPerCluster
             take == IF end - pos < BytesPerCluster - from THEN end - pos ELSE BytesPerCluster - from
             written == from .. from + take - 1
             bytes == [k \in 0 .. BytesPerCluster - 1 |-> IF k \in written THEN byte ELSE x.data[c][k]]
  <2>1. w = WriteBytes(x, c, bytes)
    BY <1>3 DEF WritePiece
  <2> HIDE DEF written
  <2>2. j \in Nat \ {0} /\ j <= NeededClusters(end)
    BY PieceIndex
  <2> HIDE DEF j
  <2>3. NeededClusters(end) \in Int
    <3>1. BytesPerCluster \in Nat \ {0} /\ end + BytesPerCluster - 1 \in Nat
      BY Numbers
    <3> DEFINE n == end + BytesPerCluster - 1
    <3> HIDE DEF n
    <3>2. n \div BytesPerCluster \in Int
      BY <3>1 DEF n
    <3> QED BY <3>2 DEF NeededClusters, n
  <2>4. ChainLen(m) \in Nat /\ j \in 1..ChainLen(m)
    BY <1>1, <1>3, <2>2, <2>3
  <2>5. m.first \in J
    BY <2>4, NoChain
  <2>6. /\ m.fat \in Fats /\ ChainsOK(m.fat, J) /\ D \subseteq J /\ x.dirs \in DirTabs
        /\ \A d \in D : On(g, d) = On(m.fat, d)
    BY <1>1, GoodParts
  <2>7. c \in On(m.fat, m.first) /\ c \in Clusters
    <3>1. HasChain(m.fat, m.first)
      BY <2>5, <2>6, ChainElements
    <3>2. \A k \in 1..Len(ClusterChain(m.fat, m.first)) : ClusterChain(m.fat, m.first)[k] \in On(m.fat, m.first)
      BY <2>6, <3>1, OnChain
    <3>3. c \in On(m.fat, m.first)
      BY <1>1, <2>4, <3>2 DEF ChainLen
    <3> QED BY <2>6, <3>1, <3>3, OnChain
  <2> HIDE DEF c
  <2>8. bytes \in [0 .. BytesPerCluster - 1 -> Bytes]
    <3>1. x.data \in DataTabs
      BY <1>1 DEF Machines
    <3>2. \A k \in 0 .. BytesPerCluster - 1 : x.data[c][k] \in Bytes
      BY <2>7, <3>1 DEF DataTabs
    <3> QED BY <3>2
  <2> HIDE DEF bytes
  <2>9. /\ w \in Machines
        /\ \/ w.result = "ata" /\ Same(w, x)
           \/ /\ w.result = "ok" /\ w.dirs = [x.dirs EXCEPT ![c] = Cleared]
              /\ w.fat = x.fat /\ w.disk_fat = x.disk_fat /\ w.first = x.first
              /\ SameHistory(w, x)
    <3>1. x \in Machines /\ x.result = "ok" /\ c \in Clusters
      BY <1>1, <1>3, <2>7
    <3> QED BY <2>1, <2>8, <3>1, WriteBytesIs
  <2>10. CASE w.result = "ata" /\ Same(w, x)
    BY <1>1, <2>9, <2>10 DEF Same, SameHistory, Written
  <2>11. CASE w.result = "ok" /\ w.dirs = [x.dirs EXCEPT ![c] = Cleared]
              /\ w.fat = x.fat /\ w.disk_fat = x.disk_fat /\ w.first = x.first
              /\ SameHistory(w, x)
    <3>1. w.dirs \in DirTabs
      BY <2>9 DEF Machines
    <3>2. \A d \in D : \A b \in On(g, d) : w.dirs[b] = x.dirs[b]
      <4> SUFFICES ASSUME NEW d \in D, NEW b \in On(m.fat, d)
                   PROVE  w.dirs[b] = x.dirs[b]
        BY <2>6
      <4>1. d \in J /\ d # m.first
        BY <2>6
      <4>2. b # c /\ b \in Clusters
        BY <2>5, <2>6, <2>7, <4>1, ChainElements
      <4> QED BY <2>6, <2>7, <2>11, <4>2 DEF DirTabs
    <3>3. Good(m.fat, g, w.dirs, t, J, K, D)
      BY <1>1, <3>1, <3>2, OtherClusters
    <3> QED BY <1>1, <1>3, <2>9, <2>11, <3>3 DEF SameHistory, Written
  <2> QED BY <2>9, <2>10, <2>11
<1> QED BY <1>2, <1>3

LEMMA WriteDataOK ==
  ASSUME NEW m \in Machines, NEW g, NEW t, NEW J, NEW K, NEW D, m.first \in J \cup {0}, m.first \notin D,
         NEW offset \in Nat, NEW end \in Nat, offset <= end, NEW byte \in Bytes,
         m.result = "ok" => ChainLen(m) \in Nat /\ ChainLen(m) >= NeededClusters(end),
         Good(m.fat, g, m.dirs, t, J, K, D)
  PROVE  Written(WriteData(m, offset, end, byte), m, g, t, J, K, D)
<1> DEFINE Op(x, pos) == WritePiece(x, offset, end, pos, byte)
           S == {x \in Machines : Written(x, m, g, t, J, K, D)}
           E == offset .. end - 1
           l == end - offset
           s == [k \in 1..l |-> offset + k - 1]
           G == [x \in S \X E |-> Op(x[1], x[2])]
           IsFold(h) == h = [T \in SUBSET (1..l) |->
                              IF T = {} THEN m ELSE Op(h[T \ {Max(T)}], s[Max(T)])]
           it == CHOOSE h : IsFold(h)
<1>1. l \in Nat /\ DOMAIN s = 1..l /\ \A k \in 1..l : s[k] \in E
  OBVIOUS
<1>2. \A x \in S, pos \in E : Op(x, pos) \in S
  <2> SUFFICES ASSUME NEW x \in S, NEW pos \in E
               PROVE  Op(x, pos) \in S
    OBVIOUS
  <2>1. Written(WritePiece(x, offset, end, pos, byte), m, g, t, J, K, D)
    <3>1. Written(x, m, g, t, J, K, D)
      OBVIOUS
    <3> QED BY <3>1, WritePieceOK
  <2> QED BY <2>1 DEF Written
<1>3. m \in S
  BY DEF Written, SameHistory
<1>4. WriteData(m, offset, end, byte) = it[1..l]
  <2>1. WriteData(m, offset, end, byte) = FoldLeft(LAMBDA n, pos : WritePiece(n, offset, end, pos, byte), m, s)
    BY DEF WriteData
  <2> HIDE DEF s
  <2> QED BY <1>1, <2>1 DEF FoldLeft, MapThenFoldSet
<1> HIDE DEF S, s, l, E
<1>5. G \in [S \X E -> S]
  BY <1>2
<1> HIDE DEF Op
<1>6. PICK h : IsFoldOf(h, S, G, m, l, s)
  <2> HIDE DEF G
  <2> QED BY <1>1, <1>3, <1>5, FoldExists
<1>7. IsFold(h)
  <2>1. ASSUME NEW T \in SUBSET (1..l)
        PROVE  h[T] = IF T = {} THEN m ELSE Op(h[T \ {Max(T)}], s[Max(T)])
    <3>1. CASE T = {}
      BY <1>6, <3>1 DEF IsFoldOf
    <3>2. CASE T # {}
      <4>1. h[T \ {Max(T)}] \in S /\ s[Max(T)] \in E
        BY <1>1, <1>6, <3>2, MaxIn DEF IsFoldOf
      <4>2. G[<<h[T \ {Max(T)}], s[Max(T)]>>] = Op(h[T \ {Max(T)}], s[Max(T)])
        BY <4>1
      <4> HIDE DEF G
      <4> QED BY <1>6, <3>2, <4>2 DEF IsFoldOf
    <3> QED BY <3>1, <3>2
  <2> HIDE DEF G
  <2>2. h = [T \in SUBSET (1..l) |-> h[T]]
    BY <1>6 DEF IsFoldOf
  <2> QED BY <2>1, <2>2
<1>8. IsFold(it)
  <2> HIDE DEF IsFold
  <2> QED BY <1>7
<1> HIDE DEF it
<1>9. it[{}] \in S
  BY <1>3, <1>8
<1>10. ASSUME NEW k \in 0 .. l - 1, it[1..k] \in S
       PROVE  it[1 .. k + 1] \in S
  <2>1. 1 .. k + 1 \in SUBSET (1..l) /\ 1 .. k + 1 # {} /\ Max(1 .. k + 1) = k + 1
        /\ (1 .. k + 1) \ {k + 1} = 1..k
    BY <1>1, LastPosition
  <2>2. it[1 .. k + 1] = Op(it[(1 .. k + 1) \ {Max(1 .. k + 1)}], s[Max(1 .. k + 1)])
    BY <1>8, <2>1
  <2>3. it[1 .. k + 1] = Op(it[1..k], s[k + 1])
    BY <2>1, <2>2
  <2>4. s[k + 1] \in E
    <3>1. k + 1 \in 1..l
      BY <1>1
    <3> QED BY <1>1, <3>1
  <2> QED BY <1>2, <1>10, <2>3, <2>4
<1>11. it[1..l] \in S
  BY <1>1, <1>9, <1>10, FoldStaysIn
<1> QED BY <1>4, <1>11 DEF S

(***************************************************************************)
(* The walk through the tree.  A list of lists that are made of elements   *)
(* of S is made of elements of S.                                          *)
(***************************************************************************)
LEMMA Flattened ==
  ASSUME NEW S, NEW ss \in Seq(Seq(S))
  PROVE  FlattenSeq(ss) \in Seq(S)
<1> DEFINE Body(g, i) == IF i = 1 THEN ss[i] ELSE g[i - 1] \o ss[i]
           IsFlat(g, m) == /\ g = [i \in 1..m |-> Body(g, i)]
                           /\ \A i \in 1..m : g[i] \in Seq(S)
           l == Len(ss)
           Done == [m \in 0..l |-> {1}]
           ok == [m \in 0..l |-> IF \E g : IsFlat(g, m) THEN 1 ELSE 0]
<1>1. l \in Nat /\ \A i \in 1..l : ss[i] \in Seq(S)
  OBVIOUS
<1> HIDE DEF l
<1>2. ok[0] \in Done[0]
  <2> DEFINE g == [i \in 1..0 |-> <<>>]
  <2>1. IsFlat(g, 0)
    <3>1. 1..0 = {}
      OBVIOUS
    <3> HIDE DEF Body
    <3> QED BY <3>1
  <2> HIDE DEF IsFlat
  <2> QED BY <1>1, <2>1
<1>3. ASSUME NEW k \in 0 .. l - 1, ok[k] \in Done[k]
      PROVE  ok[k + 1] \in Done[k + 1]
  <2>1. k \in 0..l /\ k + 1 \in 0..l /\ k \in Nat /\ k + 1 \in 1..l
    BY <1>1
  <2>2. PICK g : IsFlat(g, k)
    <3> HIDE DEF IsFlat
    <3> QED BY <1>3, <2>1
  <2> DEFINE h == [i \in 1 .. k + 1 |-> Body(g, i)]
  <2>3. \A i \in 1..k : g[i] = Body(g, i) /\ g[i] \in Seq(S)
    <3> HIDE DEF Body
    <3> QED BY <2>2
  <2>4. ASSUME NEW i \in 1 .. k + 1
        PROVE  Body(g, i) = Body(h, i) /\ Body(g, i) \in Seq(S)
    <3>1. ss[i] \in Seq(S)
      BY <1>1, <2>1
    <3>2. CASE i = 1
      BY <3>1, <3>2
    <3>3. CASE i # 1
      <4>1. i - 1 \in 1..k /\ i - 1 \in 1 .. k + 1
        BY <2>1, <3>3
      <4>2. h[i - 1] = g[i - 1] /\ g[i - 1] \in Seq(S)
        <5> HIDE DEF Body
        <5> QED BY <2>3, <4>1
      <4> HIDE DEF h
      <4> QED BY <3>1, <3>3, <4>2
    <3> QED BY <3>2, <3>3
  <2>5. IsFlat(h, k + 1)
    <3>1. h = [i \in 1 .. k + 1 |-> Body(g, i)] /\ \A i \in 1 .. k + 1 : h[i] = Body(g, i)
      OBVIOUS
    <3> HIDE DEF h, Body
    <3> QED BY <2>4, <3>1
  <2> HIDE DEF IsFlat
  <2> QED BY <2>1, <2>5
<1>4. ok[l] \in Done[l]
  <2> HIDE DEF ok, Done
  <2> QED BY <1>1, <1>2, <1>3, Rounds
<1>5. PICK g : IsFlat(g, l)
  <2> HIDE DEF IsFlat
  <2> QED BY <1>1, <1>4
<1> DEFINE flat == CHOOSE f : f = [i \in 1..l |-> Body(f, i)]
<1>6. flat = [i \in 1..l |-> Body(flat, i)]
  <2>1. g = [i \in 1..l |-> Body(g, i)]
    BY <1>5
  <2> HIDE DEF Body
  <2> QED BY <2>1
<1>7. FlattenSeq(ss) = IF l = 0 THEN ss ELSE flat[l]
  BY DEF FlattenSeq, l
<1>8. CASE l = 0
  <2>1. FlattenSeq(ss) = ss /\ ss = <<>>
    BY <1>7, <1>8 DEF l
  <2> QED BY <2>1
<1>9. CASE l # 0
  <2> DEFINE Fine == [k \in 0..l |-> {1}]
             ok2 == [k \in 0..l |-> IF k = 0 \/ flat[k] \in Seq(S) THEN 1 ELSE 0]
  <2>0. \A i \in 1..l : flat[i] = Body(flat, i)
    <3> HIDE DEF Body, flat
    <3> QED BY <1>6
  <2> HIDE DEF flat
  <2>1. ok2[0] \in Fine[0]
    BY <1>1
  <2>2. ASSUME NEW k \in 0 .. l - 1, ok2[k] \in Fine[k]
        PROVE  ok2[k + 1] \in Fine[k + 1]
    <3>1. k \in 0..l /\ k + 1 \in 0..l /\ k + 1 \in 1..l /\ (k + 1) - 1 = k /\ ss[k + 1] \in Seq(S)
      BY <1>1
    <3>2. k = 0 \/ flat[k] \in Seq(S)
      BY <2>2, <3>1
    <3>3. flat[k + 1] = IF k + 1 = 1 THEN ss[k + 1] ELSE flat[k] \o ss[k + 1]
      BY <2>0, <3>1
    <3>4. flat[k + 1] \in Seq(S)
      <4>1. CASE k = 0
        BY <3>1, <3>3, <4>1
      <4>2. CASE k # 0
        <5>1. flat[k + 1] = flat[k] \o ss[k + 1]
          <6>1. k + 1 # 1
            BY <1>1, <4>2
          <6> QED BY <3>3, <6>1
        <5> QED BY <3>1, <3>2, <4>2, <5>1
      <4> QED BY <4>1, <4>2
    <3> QED BY <3>1, <3>4
  <2>3. ok2[l] \in Fine[l]
    <3> HIDE DEF ok2, Fine
    <3> QED BY <1>1, <2>1, <2>2, Rounds
  <2>4. flat[l] \in Seq(S)
    BY <1>1, <1>9, <2>3
  <2> QED BY <1>7, <1>9, <2>4
<1> QED BY <1>8, <1>9

Subdirs(m, found, d) ==
  LET places == Places(m, d)
      Below(e) == IF Listed(e) /\ e.is_dir /\ e.cluster >= 2 THEN found[e.cluster] ELSE <<>>
  IN FlattenSeq([k \in DOMAIN places |-> Below(At(m, places[k]))])

Tree(m) ==
  CHOOSE tree : tree = [n \in 0..NClusters |-> [d \in Clusters |->
                          IF n = 0 THEN <<>> ELSE <<d>> \o Subdirs(m, tree[n - 1], d)]]

LEMMA DirTreeIsTree ==
  ASSUME NEW m, NEW d
  PROVE  DirTree(m, d) = Tree(m)[NClusters][d]
BY DEF DirTree, Tree, Subdirs

LEMMA TreeUnfold ==
  ASSUME NEW m, NEW c \in Clusters, NEW n \in 0..NClusters
  PROVE  Tree(m)[n][c] = IF n = 0 THEN <<>> ELSE <<c>> \o Subdirs(m, Tree(m)[n - 1], c)
<1> DEFINE Body(g, i) == [d \in Clusters |-> IF i = 0 THEN <<>> ELSE <<d>> \o Subdirs(m, g[i - 1], d)]
           IsTree(g, k) == g = [i \in 0..k |-> Body(g, i)]
           Done == [k \in 0..NClusters |-> {1}]
           ok == [k \in 0..NClusters |-> IF \E g : IsTree(g, k) THEN 1 ELSE 0]
<1>0. NClusters \in Nat
  BY GeometryAssumption
<1>1. ok[0] \in Done[0]
  <2> DEFINE g == [i \in 0..0 |-> [d \in Clusters |-> <<>>]]
  <2>1. IsTree(g, 0)
    <3>1. \A i \in 0..0 : Body(g, i) = [d \in Clusters |-> <<>>]
      OBVIOUS
    <3> HIDE DEF Body
    <3> QED BY <3>1
  <2> HIDE DEF IsTree
  <2> QED BY <1>0, <2>1
<1>2. ASSUME NEW k \in 0 .. NClusters - 1, ok[k] \in Done[k]
      PROVE  ok[k + 1] \in Done[k + 1]
  <2>1. k \in 0..NClusters /\ k + 1 \in 0..NClusters
    BY <1>0
  <2>2. \E g : IsTree(g, k)
    <3> HIDE DEF IsTree
    <3> QED BY <1>2, <2>1
  <2>3. PICK g : IsTree(g, k)
    BY <2>2
  <2> DEFINE h == [i \in 0 .. k + 1 |-> Body(g, i)]
  <2>4. \A i \in 0..k : g[i] = Body(g, i)
    <3> HIDE DEF Body
    <3> QED BY <2>3
  <2>5. ASSUME NEW i \in 0 .. k + 1
        PROVE  Body(g, i) = Body(h, i)
    <3>1. CASE i = 0
      BY <3>1
    <3>2. CASE i # 0
      <4>1. i - 1 \in 0..k /\ i - 1 \in 0 .. k + 1
        BY <1>0, <3>2
      <4>2. h[i - 1] = g[i - 1]
        <5> HIDE DEF Body
        <5> QED BY <2>4, <4>1
      <4> HIDE DEF h
      <4> QED BY <4>2
    <3> QED BY <3>1, <3>2
  <2>6. IsTree(h, k + 1)
    <3>1. h = [i \in 0 .. k + 1 |-> Body(g, i)]
      OBVIOUS
    <3> HIDE DEF h, Body
    <3> QED BY <2>5, <3>1
  <2> HIDE DEF IsTree
  <2> QED BY <2>1, <2>6
<1>3. ok[NClusters] \in Done[NClusters]
  <2> HIDE DEF ok, Done
  <2> QED BY <1>0, <1>1, <1>2, Rounds
<1>4. \E g : IsTree(g, NClusters)
  <2> HIDE DEF IsTree
  <2> QED BY <1>0, <1>3
<1>5. IsTree(Tree(m), NClusters)
  <2>1. Tree(m) = CHOOSE g : IsTree(g, NClusters)
    BY DEF Tree
  <2> HIDE DEF IsTree
  <2> QED BY <1>4, <2>1
<1>6. Tree(m)[n] = Body(Tree(m), n)
  <2> HIDE DEF Body
  <2> QED BY <1>5
<1> QED BY <1>6

(***************************************************************************)
(* What an invariant calls the directories are all that the walk finds.    *)
(***************************************************************************)
Closed(m, D) ==
  /\ m.fat \in Fats /\ D \subseteq Clusters /\ RootCluster \in D
  /\ \A d \in D : HasChain(m.fat, d)
  /\ \A d \in D : \A p \in Slots(m.fat, d) : Listed(At(m, p)) /\ At(m, p).is_dir => At(m, p).cluster \in D

LEMMA TreeStaysIn ==
  ASSUME NEW m, NEW D, Closed(m, D)
  PROVE  DirTree(m, RootCluster) \in Seq(D)
<1> DEFINE Done == [k \in 0..NClusters |-> {1}]
           ok == [k \in 0..NClusters |-> IF \A d \in D : Tree(m)[k][d] \in Seq(D) THEN 1 ELSE 0]
<1>0. NClusters \in Nat
  BY GeometryAssumption
<1>1. ok[0] \in Done[0]
  <2>1. ASSUME NEW d \in D
        PROVE  Tree(m)[0][d] \in Seq(D)
    <3>1. 0 \in 0..NClusters /\ d \in Clusters
      BY <1>0 DEF Closed
    <3>2. Tree(m)[0][d] = <<>>
      BY <3>1, TreeUnfold
    <3>3. <<>> \in Seq(D)
      OBVIOUS
    <3> QED BY <3>2, <3>3
  <2>2. \A d \in D : Tree(m)[0][d] \in Seq(D)
    BY <2>1
  <2> QED BY <1>0, <2>2
<1>2. ASSUME NEW k \in 0 .. NClusters - 1, ok[k] \in Done[k]
      PROVE  ok[k + 1] \in Done[k + 1]
  <2>1. k \in 0..NClusters /\ k + 1 \in 0..NClusters /\ k + 1 # 0 /\ (k + 1) - 1 = k
    BY <1>0
  <2>2. \A d \in D : Tree(m)[k][d] \in Seq(D)
    BY <1>2, <2>1
  <2>3. ASSUME NEW d \in D
        PROVE  Tree(m)[k + 1][d] \in Seq(D)
    <3> DEFINE P == Places(m, d)
               found == Tree(m)[k]
               Below(e) == IF Listed(e) /\ e.is_dir /\ e.cluster >= 2 THEN found[e.cluster] ELSE <<>>
               ss == [j \in DOMAIN P |-> Below(At(m, P[j]))]
    <3>1. d \in Clusters /\ m.fat \in Fats /\ HasChain(m.fat, d)
      BY DEF Closed
    <3>2. Tree(m)[k + 1][d] = <<d>> \o Subdirs(m, found, d)
      BY <2>1, <3>1, TreeUnfold
    <3>3. Subdirs(m, found, d) = FlattenSeq(ss)
      BY DEF Subdirs
    <3>4. DOMAIN P = 1..Len(P) /\ Len(P) \in Nat /\ \A j \in 1..Len(P) : P[j] \in Slots(m.fat, d)
      <4>1. DOMAIN P = 1..Len(P) /\ Len(P) \in Nat
        BY <3>1, PlacesAre
      <4>2. \A j \in 1..Len(Places(m, d)) : Places(m, d)[j] \in Slots(m.fat, d)
        BY <3>1, PlacesAre
      <4> QED BY <4>1, <4>2
    <3> HIDE DEF P, found
    <3>5. ASSUME NEW j \in 1..Len(P)
          PROVE  Below(At(m, P[j])) \in Seq(D)
      <4>1. CASE Listed(At(m, P[j])) /\ At(m, P[j]).is_dir /\ At(m, P[j]).cluster >= 2
        <5>1. At(m, P[j]).cluster \in D
          BY <3>4, <4>1 DEF Closed
        <5>2. found[At(m, P[j]).cluster] \in Seq(D)
          BY <2>2, <5>1 DEF found
        <5> QED BY <4>1, <5>2
      <4>2. CASE ~(Listed(At(m, P[j])) /\ At(m, P[j]).is_dir /\ At(m, P[j]).cluster >= 2)
        BY <4>2
      <4> QED BY <4>1, <4>2
    <3> HIDE DEF Below
    <3>6. ss \in Seq(Seq(D))
      BY <3>4, <3>5
    <3> HIDE DEF ss
    <3>7. FlattenSeq(ss) \in Seq(D)
      BY <3>6, Flattened
    <3> QED BY <3>2, <3>3, <3>7
  <2> QED BY <2>1, <2>3
<1>3. ok[NClusters] \in Done[NClusters]
  <2> HIDE DEF ok, Done
  <2> QED BY <1>0, <1>1, <1>2, Rounds
<1>4. Tree(m)[NClusters][RootCluster] \in Seq(D)
  BY <1>0, <1>3 DEF Closed
<1> QED BY <1>4, DirTreeIsTree

LEMMA GoodClosed ==
  ASSUME NEW m, NEW df, NEW K, NEW D, DiskOK(df, m.dirs, K, D), m.fat \in Fats,
         \A d \in D : HasChain(m.fat, d) /\ Slots(m.fat, d) = Slots(df, d)
  PROVE  Closed(m, D)
<1>1. D \subseteq Clusters /\ RootCluster \in D
  BY DEF DiskOK, ChainsOK
<1>2. ASSUME NEW d \in D, NEW p \in Slots(m.fat, d), Listed(At(m, p)), At(m, p).is_dir
      PROVE  At(m, p).cluster \in D
  <2>1. At(m, p) = Ent(m.dirs, p)
    BY DEF At, Ent
  <2>2. EntryOK(df, K, D, Ent(m.dirs, p))
    BY <1>2, <2>1 DEF DiskOK, AllEntriesOK
  <2> QED BY <1>2, <2>1, <2>2 DEF EntryOK
<1> QED BY <1>1, <1>2 DEF Closed

WithSize(e, size) == [e EXCEPT !.size = size]

SizeWritten(m, D, c, size, w) ==
  \E d \in D : \E p \in Slots(m.fat, d) :
    /\ m.result = "ok" /\ Listed(Ent(m.dirs, p)) /\ Ent(m.dirs, p).cluster = c
    /\ w = PutEntry(m, p, WithSize(Ent(m.dirs, p), size))

LEMMA UpdateSizeIs ==
  ASSUME NEW m, NEW D, Closed(m, D), NEW c, NEW size, NEW w, w = UpdateSize(m, c, size)
  PROVE  w = m \/ SizeWritten(m, D, c, size, w)
<1> DEFINE tree == DirTree(m, RootCluster)
           ss == [k \in DOMAIN tree |-> Places(m, tree[k])]
           places == FlattenSeq(ss)
           I == {i \in 1..Len(places) : Listed(At(m, places[i])) /\ At(m, places[i]).cluster = c}
           at == SelectInSeq(places, LAMBDA p : Listed(At(m, p)) /\ At(m, p).cluster = c)
           U == UNION {Slots(m.fat, d) : d \in D}
<1>1. tree \in Seq(D)
  BY TreeStaysIn
<1>2. w = IF m.result # "ok" \/ at = 0 THEN m
          ELSE PutEntry(m, places[at], WithSize(At(m, places[at]), size))
  BY DEF UpdateSize, WithSize
<1>3. at = IF I # {} THEN Min(I) ELSE 0
  BY DEF SelectInSeq
<1> HIDE DEF tree, at
<1>4. ss \in Seq(Seq(U))
  <2>1. DOMAIN tree = 1..Len(tree) /\ Len(tree) \in Nat /\ \A k \in 1..Len(tree) : tree[k] \in D
    BY <1>1
  <2>2. ASSUME NEW d \in D
        PROVE  Places(m, d) \in Seq(U)
    <3>1. Places(m, d) \in Seq(Slots(m.fat, d))
      BY PlacesAre DEF Closed
    <3>2. Slots(m.fat, d) \subseteq U
      OBVIOUS
    <3> HIDE DEF U
    <3> QED BY <3>1, <3>2
  <2> HIDE DEF U
  <2> QED BY <2>1, <2>2
<1> HIDE DEF ss
<1>5. places \in Seq(U)
  <2> HIDE DEF U
  <2> QED BY <1>4, Flattened
<1> HIDE DEF places
<1>6. CASE m.result # "ok" \/ I = {}
  BY <1>2, <1>3, <1>6
<1>7. CASE m.result = "ok" /\ I # {}
  <2>1. I \in SUBSET Nat
    OBVIOUS
  <2>2. at \in I
    <3> HIDE DEF I
    <3> QED BY <1>3, <1>7, <2>1, MinOfNat
  <2>3. at \in 1..Len(places) /\ Listed(At(m, places[at])) /\ At(m, places[at]).cluster = c
    BY <2>2
  <2>4. at # 0 /\ places[at] \in U
    <3> HIDE DEF U, I
    <3> QED BY <1>5, <2>3
  <2>5. w = PutEntry(m, places[at], WithSize(At(m, places[at]), size))
    BY <1>2, <1>7, <2>4
  <2>6. At(m, places[at]) = Ent(m.dirs, places[at])
    BY DEF At, Ent
  <2> HIDE DEF I
  <2> QED BY <1>7, <2>3, <2>4, <2>5, <2>6 DEF SizeWritten
<1> QED BY <1>6, <1>7

(***************************************************************************)
(* write.  The clusters that a size needs hold it.                         *)
(***************************************************************************)
LEMMA NeededCovers ==
  ASSUME NEW end \in Nat, NEW n \in Nat, NeededClusters(end) <= n
  PROVE  end <= BytesPerCluster * n
<1> DEFINE w == BytesPerCluster
           b == end + w - 1
           q == b \div w
           r == b % w
<1>1. w \in Nat \ {0} /\ b \in Nat
  BY Numbers
<1>2. q \in Nat /\ r \in 0 .. w - 1 /\ b = w * q + r /\ q <= n
  <2>1. q <= n
    BY DEF NeededClusters
  <2>2. q \in Nat /\ r \in 0 .. w - 1 /\ b = w * q + r
    <3> HIDE DEF w, b
    <3> QED BY <1>1
  <2> QED BY <2>1, <2>2
<1>3. b = end + w - 1
  OBVIOUS
<1> HIDE DEF w, b, q, r
<1>4. w * q <= w * n /\ w * q \in Nat /\ w * n \in Nat
  <2>1. PICK k \in Nat : n = q + k
    <3>1. n - q \in Nat /\ n = q + (n - q)
      BY <1>2
    <3> QED BY <3>1
  <2>2. w * n = w * q + w * k /\ w * k \in Nat /\ w * q \in Nat
    BY <1>1, <1>2, <2>1
  <2> DEFINE wn == w * n
             wq == w * q
             wk == w * k
  <2> HIDE DEF wn, wq, wk
  <2>3. wn = wq + wk /\ wk \in Nat /\ wq \in Nat
    BY <2>2 DEF wn, wq, wk
  <2>4. wq <= wn /\ wq \in Nat /\ wn \in Nat
    BY <2>3
  <2> QED BY <2>4 DEF wn, wq
<1>5. end <= w * n
  <2> DEFINE wn == w * n
             wq == w * q
  <2> HIDE DEF wn, wq
  <2>1. wq <= wn /\ wq \in Nat /\ wn \in Nat /\ b = wq + r
    BY <1>2, <1>4 DEF wn, wq
  <2>2. end <= wn
    BY <1>1, <1>2, <1>3, <2>1
  <2> QED BY <2>2 DEF wn
<1> QED BY <1>5 DEF w

(***************************************************************************)
(* The inode takes over the first cluster and the size.                    *)
(***************************************************************************)
Resized(t, i, first, size) == [t EXCEPT !.inodes[i].first_cluster = first, !.inodes[i].size = size]

TakesOver(u, t, i, first, size) ==
  /\ u = [inodes |-> u.inodes, next_inode |-> u.next_inode] /\ u.next_inode = t.next_inode
  /\ DOMAIN u.inodes = DOMAIN t.inodes /\ u.inodes = [j \in DOMAIN t.inodes |-> u.inodes[j]]
  /\ \A j \in DOMAIN t.inodes : j # i => u.inodes[j] = t.inodes[j]
  /\ u.inodes[i].first_cluster = first /\ u.inodes[i].size = size
  /\ u.inodes[i].is_dir = t.inodes[i].is_dir /\ u.inodes[i] \in Inodes

LEMMA WrittenInode ==
  ASSUME NEW t, TableOK(t), NEW i \in DOMAIN t.inodes, NEW first \in Clusters \cup {0}, NEW size \in 0..MaxSize
  PROVE  TakesOver(Resized(t, i, first, size), t, i, first, size)
<1> DEFINE u == Resized(t, i, first, size)
<1> DEFINE o == t.inodes[i]
           ino == [o EXCEPT !.first_cluster = first, !.size = size]
           table == [t.inodes EXCEPT ![i] = ino]
<1>1. /\ t = [inodes |-> t.inodes, next_inode |-> t.next_inode]
      /\ t.inodes \in [DOMAIN t.inodes -> Inodes] /\ o \in Inodes
  BY DEF TableOK
<1>2. /\ ino \in Inodes /\ ino.first_cluster = first /\ ino.size = size /\ ino.is_dir = o.is_dir
  BY <1>1 DEF Inodes
<1>3. u = [inodes |-> table, next_inode |-> t.next_inode]
  <2>1. t.inodes = [j \in DOMAIN t.inodes |-> t.inodes[j]]
    BY <1>1
  <2>2. u = [t EXCEPT !.inodes = table]
    BY <1>1, <2>1 DEF Resized
  <2> HIDE DEF table, u
  <2> QED BY <1>1, <2>2
<1> HIDE DEF ino, u
<1>4. DOMAIN table = DOMAIN t.inodes /\ table[i] = ino /\ \A j \in DOMAIN t.inodes : j # i => table[j] = t.inodes[j]
  OBVIOUS
<1>5. table = [j \in DOMAIN t.inodes |-> table[j]]
  OBVIOUS
<1> HIDE DEF table
<1>6. u.inodes = table /\ u.next_inode = t.next_inode
  BY <1>3
<1>7. TakesOver(u, t, i, first, size)
  BY <1>2, <1>3, <1>4, <1>5, <1>6 DEF TakesOver
<1> QED BY <1>7 DEF u

LEMMA WrittenTable ==
  ASSUME NEW f, NEW df, NEW dr, NEW t, NEW J, NEW K, NEW D, Good(f, df, dr, t, J, K, D),
         NEW H, K \subseteq H, H \subseteq J,
         \A j \in DOMAIN t.inodes : t.inodes[j].first_cluster \in H \cup {0},
         NEW i \in DOMAIN t.inodes, ~t.inodes[i].is_dir,
         NEW first \in J \cup {0}, first \notin D,
         first = t.inodes[i].first_cluster \/ (t.inodes[i].first_cluster = 0 /\ first \notin H),
         NEW size \in 0..MaxSize, t.inodes[i].size <= size, first = 0 => size = 0,
         first # 0 /\ size # t.inodes[i].size => Covered(f, first, size),
         NEW u, u = Resized(t, i, first, size)
  PROVE  /\ Good(f, df, dr, u, J, K, D) /\ DOMAIN u.inodes = DOMAIN t.inodes
         /\ u.inodes[i].first_cluster = first /\ u.inodes[i].size = size /\ u.next_inode = t.next_inode
         /\ first # 0 => Covered(f, first, size)
<1> DEFINE o == t.inodes[i]
<1>1. /\ TableOK(t) /\ InodesOK(f, t, J, D) /\ Agree(df, dr, t, D) /\ ChainsOK(f, J) /\ RootCluster \in D
      /\ DiskOK(df, dr, K, D) /\ D \subseteq J /\ f \in Fats
      /\ \A h \in J : Len(ClusterChain(f, h)) \in Nat
  BY GoodParts
<1>2. J \subseteq Clusters /\ 0 \notin Clusters
  BY <1>1, Numbers DEF ChainsOK
<1>3. /\ u = [inodes |-> u.inodes, next_inode |-> u.next_inode] /\ u.next_inode = t.next_inode
      /\ DOMAIN u.inodes = DOMAIN t.inodes /\ u.inodes = [j \in DOMAIN t.inodes |-> u.inodes[j]]
      /\ \A j \in DOMAIN t.inodes : j # i => u.inodes[j] = t.inodes[j]
      /\ u.inodes[i].first_cluster = first /\ u.inodes[i].size = size
      /\ u.inodes[i].is_dir = o.is_dir /\ u.inodes[i] \in Inodes
  <2>1. first \in Clusters \cup {0}
    BY <1>2
  <2>2. TakesOver(u, t, i, first, size)
    BY <1>1, <2>1, WrittenInode
  <2> QED BY <2>2 DEF TakesOver
<1>4. i # 1
  <2>1. 1 \in DOMAIN t.inodes /\ t.inodes[1].first_cluster = RootCluster /\ RootCluster # 0
    BY <1>1, Numbers DEF TableOK
  <2>2. InodeOK(f, J, D, t.inodes[1])
    BY <1>1, <2>1 DEF InodesOK
  <2>3. t.inodes[1].is_dir
    BY <1>1, <2>1, <2>2 DEF InodeOK
  <2> QED BY <2>3
<1>5. /\ o.size \in Nat
      /\ \/ o.first_cluster = 0 /\ o.size = 0
         \/ o.first_cluster \in J /\ Covered(f, o.first_cluster, o.size)
  <2>1. InodeOK(f, J, D, o) /\ o \in Inodes
    BY <1>1 DEF InodesOK, TableOK
  <2>2. o.size \in 0..MaxSize
    BY <2>1 DEF Inodes
  <2>3. o.size \in Nat
    BY <2>2, BoundsAssumption
  <2> QED BY <2>1, <2>3 DEF InodeOK
<1>6. first # 0 => Covered(f, first, size)
  <2>1. CASE first # 0 /\ size = o.size /\ first = o.first_cluster
    BY <1>2, <1>5, <2>1
  <2>2. CASE first # 0 /\ size = o.size /\ first # o.first_cluster
    <3>1. size = 0 /\ Len(ClusterChain(f, first)) \in Nat /\ BytesPerCluster \in Nat
      BY <1>1, <1>2, <1>5, <2>2, Numbers
    <3> DEFINE n == Len(ClusterChain(f, first))
    <3> HIDE DEF n
    <3>2. BytesPerCluster * n \in Nat
      BY <3>1 DEF n
    <3>3. size <= BytesPerCluster * n
      <4> DEFINE wn == BytesPerCluster * n
      <4> HIDE DEF wn
      <4>1. wn \in Nat
        BY <3>2 DEF wn
      <4>2. size <= wn
        BY <3>1, <4>1
      <4> QED BY <4>2 DEF wn
    <3> QED BY <3>3 DEF Covered, n
  <2> QED BY <2>1, <2>2
<1>7. InodeOK(f, J, D, u.inodes[i])
  BY <1>3, <1>6 DEF InodeOK
<1>8. \A j \in DOMAIN t.inodes : j # i => t.inodes[j].first_cluster # u.inodes[i].first_cluster
  <2> SUFFICES ASSUME NEW j \in DOMAIN t.inodes, j # i, t.inodes[j].first_cluster = first
               PROVE  FALSE
    BY <1>3
  <2>1. first # o.first_cluster
    BY <1>1 DEF InodesOK
  <2> QED BY <2>1
<1>9. \A d \in D : \A p \in Slots(df, d) :
        /\ Listed(Ent(dr, p)) /\ Ent(dr, p).cluster # 0 /\ Ent(dr, p).cluster = u.inodes[i].first_cluster
        => Ent(dr, p).size <= u.inodes[i].size
  <2> SUFFICES ASSUME NEW d \in D, NEW p \in Slots(df, d), Listed(Ent(dr, p)), Ent(dr, p).cluster # 0,
                      Ent(dr, p).cluster = first
               PROVE  Ent(dr, p).size <= size
    BY <1>3
  <2>1. Ent(dr, p).cluster \in H /\ Ent(dr, p) \in RawEntries
    <3>1. EntryOK(df, K, D, Ent(dr, p))
      BY <1>1 DEF DiskOK, AllEntriesOK
    <3>2. Ent(dr, p).cluster \in H
      BY <3>1 DEF EntryOK
    <3> QED BY <1>1, <3>2, SlotFacts
  <2>2. first = o.first_cluster
    BY <2>1
  <2>3. Ent(dr, p).size <= o.size
    BY <1>1, <2>2 DEF Agree
  <2>4. Ent(dr, p).size \in Nat
    <3>1. Ent(dr, p).size \in 0..MaxSize
      BY <2>1 DEF RawEntries
    <3> QED BY <3>1, BoundsAssumption
  <2>5. size \in Nat
    BY BoundsAssumption
  <2> QED BY <1>5, <2>3, <2>4, <2>5
<1>10. Good(f, df, dr, u, J, K, D)
  BY <1>3, <1>4, <1>7, <1>8, <1>9, SetInodeOK, ZenonT(60)
<1> QED BY <1>3, <1>6, <1>10

(***************************************************************************)
(* The size in the entry, the last write to the disk.                      *)
(***************************************************************************)
EntryPut(w, m, p, e) ==
  /\ w \in Machines
  /\ \/ w.result = "ata" /\ Same(w, m)
     \/ /\ w.result = "ok" /\ w.dirs = Put(m.dirs, p, e)
        /\ w.fat = m.fat /\ w.disk_fat = m.disk_fat /\ SameHistory(w, m)

LEMMA PutEntryPuts ==
  ASSUME NEW m \in Machines, m.result = "ok", NEW p, p[1] \in Clusters, p[2] \in 1..SlotsPerCluster,
         NEW e \in RawEntries, NEW w, w = PutEntry(m, p, e)
  PROVE  EntryPut(w, m, p, e)
BY PutEntryIs DEF EntryPut

LEMMA NewSizeOK ==
  ASSUME NEW m \in Machines, m.result = "ok", NEW f, f = m.fat, f = m.disk_fat, NEW t, NEW H, NEW D,
         Good(f, f, m.dirs, t, H, H, D), NEW i \in DOMAIN t.inodes,
         NEW first, t.inodes[i].first_cluster = first, NEW size \in 0..MaxSize, t.inodes[i].size = size,
         first # 0 => Covered(f, first, size), first = 0 => size = 0,
         NEW w, w = UpdateSize(m, first, size)
  PROVE  /\ w \in Machines /\ w.result \in {"ok", "ata"}
         /\ Survives(w, t) /\ Remounts(w)
<1>1. /\ f \in Fats /\ ChainsOK(f, H) /\ D \subseteq H /\ DiskOK(f, m.dirs, H, D) /\ InodesOK(f, t, H, D)
      /\ m.dirs \in DirTabs
  BY GoodParts
<1>2. Closed(m, D)
  <2>1. \A d \in D : HasChain(m.fat, d) /\ Slots(m.fat, d) = Slots(f, d)
    BY <1>1 DEF ChainsOK
  <2> QED BY <1>1, <2>1, GoodClosed
<1>3. ASSUME NEW n \in Machines, n.fat = f, n.disk_fat = f, n.dirs = m.dirs
      PROVE  Survives(n, t) /\ Remounts(n)
  <2>1. Backed(n, f)
    BY <1>1, <1>3 DEF Backed
  <2>2. Good(n.fat, f, n.dirs, t, H, H, D)
    BY <1>3
  <2> QED BY <2>1, <2>2, GoodSurvives
<1>4. CASE w = m
  BY <1>3, <1>4
<1>5. ASSUME NEW d \in D, NEW p \in Slots(m.fat, d), Listed(Ent(m.dirs, p)), Ent(m.dirs, p).cluster = first,
             w = PutEntry(m, p, WithSize(Ent(m.dirs, p), size))
      PROVE  /\ w \in Machines /\ w.result \in {"ok", "ata"}
             /\ Survives(w, t) /\ Remounts(w)
  <2> DEFINE o == Ent(m.dirs, p)
             e == WithSize(Ent(m.dirs, p), size)
  <2>1. /\ p \in Slots(f, d) /\ p[1] \in Clusters /\ p[2] \in 1..SlotsPerCluster /\ o \in RawEntries
    BY <1>1, <1>5, SlotFacts
  <2>2. e \in RawEntries /\ e.cluster = first /\ e.size = size /\ e.is_dir = o.is_dir
    BY <1>5, <2>1 DEF RawEntries, WithSize
  <2>3. w = PutEntry(m, p, e)
    BY <1>5
  <2>4. e = [Ent(m.dirs, p) EXCEPT !.size = size]
    BY DEF WithSize
  <2> HIDE DEF e
  <2>5. EntryOK(f, H, D, e)
    <3>1. EntryOK(f, H, D, o)
      BY <1>1, <1>5, <2>1 DEF DiskOK, AllEntriesOK
    <3>2. CASE first = 0
      <4>1. ~o.is_dir
        BY <1>5, <3>1, <3>2, <1>1, Numbers DEF EntryOK, ChainsOK
      <4> QED BY <2>2, <3>2, <4>1 DEF EntryOK
    <3>3. CASE first # 0
      BY <1>5, <2>2, <3>1, <3>3 DEF EntryOK
    <3> QED BY <3>2, <3>3
  <2>6. e.cluster # 0 =>
          \A j \in DOMAIN t.inodes :
            ~t.inodes[j].is_dir /\ t.inodes[j].first_cluster = e.cluster => size <= t.inodes[j].size
    <3> SUFFICES ASSUME NEW j \in DOMAIN t.inodes, t.inodes[j].first_cluster = e.cluster
                 PROVE  size <= t.inodes[j].size
      OBVIOUS
    <3>1. j = i
      BY <1>1, <2>2 DEF InodesOK
    <3>2. size \in Nat
      BY BoundsAssumption
    <3> QED BY <3>1, <3>2
  <2>7. Good(f, f, Put(m.dirs, p, e), t, H, H, D)
    BY <1>5, <2>1, <2>4, <2>5, <2>6, ResizeEntryOK
  <2>9. EntryPut(w, m, p, e)
    <3>1. m.result = "ok" /\ p[1] \in Clusters /\ p[2] \in 1..SlotsPerCluster
      BY <2>1
    <3>2. e \in RawEntries
      BY <2>2
    <3> HIDE DEF o
    <3> QED BY <2>3, <3>1, <3>2, PutEntryPuts
  <2>10. CASE w.result = "ata" /\ Same(w, m)
    <3>1. w \in Machines /\ w.fat = f /\ w.disk_fat = f /\ w.dirs = m.dirs
      BY <2>9, <2>10 DEF Same, EntryPut
    <3> QED BY <1>3, <2>10, <3>1
  <2>11. CASE w.result = "ok" /\ w.dirs = Put(m.dirs, p, e) /\ w.fat = f /\ w.disk_fat = f
    <3>1. Backed(w, f)
      BY <1>1, <2>11 DEF Backed
    <3>2. Good(w.fat, f, w.dirs, t, H, H, D)
      BY <2>7, <2>11
    <3>3. w \in Machines
      BY <2>9 DEF EntryPut
    <3> QED BY <2>11, <3>1, <3>2, <3>3, GoodSurvives
  <2> QED BY <2>9, <2>10, <2>11 DEF EntryPut
<1>6. w = m \/ SizeWritten(m, D, first, size, w)
  BY <1>2, UpdateSizeIs
<1> QED BY <1>4, <1>5, <1>6 DEF SizeWritten

LEMMA WriteKeeps ==
  ASSUME Inv, NEW i \in Files, NEW offset \in 0..inodes[i].size, NEW end \in offset..MaxSize,
         NEW byte \in Bytes, NEW left \in Nat, Write(i, offset, end, byte, left)
  PROVE  Inv'
<1> DEFINE c == inodes[i].first_cluster
           m0 == [Machine(left) EXCEPT !.first = c]
           m1 == CoverRange(m0, end)
           m2 == WriteData(m1, offset, end, byte)
           size == IF m2.result = "ok" /\ end > inodes[i].size THEN end ELSE inodes[i].size
           t == Resized(Table, i, m2.first, size)
           m3 == FlushFat(m2)
           w == UpdateSize(m3, m2.first, size)
<1>1. sound /\ Finish(w, t, t, w)
  BY DEF Write, Resized
<1>2. PICK g, H, K, D : /\ Good(fat, g, dirs, Table, H, K, D)
                        /\ \A m : m.disk_sound = disk_sound /\ m.disk_fat = disk_fat => Backed(m, g)
  BY <1>1, SoundIs
<1>3. /\ K \subseteq H /\ D \subseteq H /\ TableOK(Table) /\ InodesOK(fat, Table, H, D)
      /\ Table.inodes = inodes /\ 0 \notin Clusters /\ H \in SUBSET Clusters
  <2>1. Table.inodes = inodes
    BY DEF Table
  <2>2. K \subseteq H /\ D \subseteq H /\ TableOK(Table) /\ InodesOK(fat, Table, H, D) /\ ChainsOK(fat, H)
    BY <1>2, GoodParts
  <2> QED BY <2>1, <2>2, Numbers DEF ChainsOK
<1>4. /\ i \in DOMAIN inodes /\ ~inodes[i].is_dir /\ inodes[i] \in Inodes
      /\ InodeOK(fat, H, D, inodes[i])
      /\ \A j \in DOMAIN inodes : inodes[j].first_cluster \in H \cup {0}
  <2>1. i \in DOMAIN inodes /\ ~inodes[i].is_dir
    BY DEF Files
  <2>2. inodes[i] \in Inodes
    BY <1>3, <2>1 DEF TableOK
  <2>3. InodeOK(fat, H, D, inodes[i])
    BY <1>3, <2>1 DEF InodesOK
  <2>4. ASSUME NEW j \in DOMAIN inodes
        PROVE  inodes[j].first_cluster \in H \cup {0}
    <3>1. InodeOK(fat, H, D, inodes[j])
      BY <1>3 DEF InodesOK
    <3> QED BY <3>1 DEF InodeOK
  <2> QED BY <2>1, <2>2, <2>3, <2>4
<1>5. /\ c \in H \cup {0} /\ c \notin D /\ inodes[i].size \in 0..MaxSize /\ inodes[i].size \in Nat
      /\ c = 0 => inodes[i].size = 0
      /\ MaxSize \in Nat /\ offset \in Nat /\ end \in Nat /\ offset <= end /\ end <= MaxSize
  <2>1. c \in H \cup {0} /\ c \notin D /\ (c = 0 => inodes[i].size = 0)
    BY <1>3, <1>4 DEF InodeOK
  <2>2. inodes[i].size \in 0..MaxSize
    BY <1>4 DEF Inodes
  <2>3. inodes[i].size \in Nat /\ MaxSize \in Nat
    BY <2>2, BoundsAssumption
  <2> QED BY <2>1, <2>2, <2>3
<1>6. /\ m0 \in Machines /\ m0.fat = fat /\ m0.disk_fat = disk_fat /\ m0.dirs = dirs
      /\ m0.result = "ok" /\ m0.first = c /\ m0.disk_sound = disk_sound
  <2>1. Machine(left) \in Machines /\ Machine(left).fat = fat /\ Machine(left).disk_fat = disk_fat
        /\ Machine(left).dirs = dirs /\ Machine(left).result = "ok" /\ Machine(left).disk_sound = disk_sound
    BY Start
  <2>2. c \in Clusters \cup {0}
    BY <1>3, <1>5
  <2> HIDE DEF c
  <2> QED BY <2>1, <2>2 DEF Machines
<1> HIDE DEF m0, c
<1>7. Grown(m0, m0, g, Table, H, K, D)
  <2>1. H \subseteq H
    OBVIOUS
  <2> QED BY <1>2, <1>3, <1>5, <1>6, <2>1 DEF Grown, SameHistory
<1>8. /\ Grown(m1, m0, g, Table, H, K, D)
      /\ m1.result = "ok" => ChainLen(m1) \in Nat /\ ChainLen(m1) >= NeededClusters(end)
  BY <1>5, <1>7, CoverRangeGrows
<1> HIDE DEF m1
<1>9. PICK J \in SUBSET Clusters :
        /\ H \subseteq J /\ m1.first \in J \cup {0} /\ Good(m1.fat, g, m0.dirs, Table, J, K, D)
  BY <1>8 DEF Grown
<1>10. /\ m1 \in Machines /\ m1.disk_fat = disk_fat /\ m1.dirs = dirs
       /\ m1.first \notin D /\ (m1.first = c \/ (c = 0 /\ m1.first \notin H))
       /\ m1.disk_sound = disk_sound
  BY <1>6, <1>8 DEF Grown, SameHistory
<1>11. Written(m2, m1, g, Table, J, K, D)
  <2>1. Good(m1.fat, g, m1.dirs, Table, J, K, D)
    BY <1>6, <1>9, <1>10
  <2> QED BY <1>5, <1>8, <1>9, <1>10, <2>1, WriteDataOK
<1> HIDE DEF m2
<1>12. /\ m2 \in Machines /\ m2.fat = m1.fat /\ m2.disk_fat = disk_fat /\ m2.first = m1.first
       /\ m2.result = "ok" => m1.result = "ok"
       /\ m2.disk_sound = disk_sound
       /\ Good(m2.fat, g, m2.dirs, Table, J, K, D)
  BY <1>10, <1>11 DEF Written, SameHistory
<1>13. /\ size \in 0..MaxSize /\ inodes[i].size <= size
       /\ m2.first = 0 => size = 0
       /\ m2.first # 0 /\ size # inodes[i].size => Covered(m2.fat, m2.first, size)
  <2>1. size \in 0..MaxSize /\ inodes[i].size <= size
    BY <1>5
  <2>2. CASE m2.result = "ok" /\ end > inodes[i].size
    <3>1. size = end /\ ChainLen(m1) \in Nat /\ NeededClusters(end) <= ChainLen(m1)
      <4>1. ChainLen(m1) \in Nat /\ ChainLen(m1) >= NeededClusters(end)
        BY <1>8, <1>12, <2>2
      <4>2. size = end
        BY <2>2
      <4> QED BY <4>1, <4>2
    <3> HIDE DEF size
    <3>2. end <= BytesPerCluster * ChainLen(m1)
      BY <1>5, <3>1, NeededCovers
    <3>3. Covered(m2.fat, m2.first, size)
      BY <1>12, <3>1, <3>2 DEF Covered, ChainLen
    <3>4. m2.first = 0 => size = 0
      <4>1. m2.first = 0 => ChainLen(m1) = 0
        BY <1>12, NoChain
      <4>2. BytesPerCluster * 0 = 0
        BY Numbers
      <4> QED BY <1>5, <3>1, <3>2, <4>1, <4>2
    <3> QED BY <2>1, <3>3, <3>4 DEF size
  <2>3. CASE ~(m2.result = "ok" /\ end > inodes[i].size)
    <3>1. size = inodes[i].size
      BY <2>3
    <3>2. m2.first = 0 => c = 0
      BY <1>10, <1>12
    <3> QED BY <1>5, <2>1, <3>1, <3>2
  <2> QED BY <2>2, <2>3
<1> HIDE DEF size
<1>14. /\ Good(m2.fat, g, m2.dirs, t, J, K, D) /\ i \in DOMAIN t.inodes
       /\ t.inodes[i].first_cluster = m2.first /\ t.inodes[i].size = size
       /\ m2.first # 0 => Covered(m2.fat, m2.first, size)
  <2>1. m2.first \in J \cup {0} /\ m2.first \notin D /\ (m2.first = c \/ (c = 0 /\ m2.first \notin H))
    BY <1>9, <1>10, <1>12
  <2>2. /\ Table.inodes[i].first_cluster = c /\ Table.inodes[i].size = inodes[i].size
        /\ ~Table.inodes[i].is_dir /\ i \in DOMAIN Table.inodes
        /\ \A j \in DOMAIN Table.inodes : Table.inodes[j].first_cluster \in H \cup {0}
    BY <1>3, <1>4 DEF c
  <2>3. /\ Good(m2.fat, g, m2.dirs, t, J, K, D) /\ DOMAIN t.inodes = DOMAIN Table.inodes
        /\ t.inodes[i].first_cluster = m2.first /\ t.inodes[i].size = size /\ t.next_inode = Table.next_inode
        /\ m2.first # 0 => Covered(m2.fat, m2.first, size)
    BY <1>3, <1>9, <1>12, <1>13, <2>1, <2>2, WrittenTable
  <2> QED BY <2>2, <2>3
<1> HIDE DEF t
<1>15. Backed(m2, g) /\ Survives(m2, t) /\ Remounts(m2)
  <2>1. Backed(m2, g)
    BY <1>2, <1>12
  <2> QED BY <1>14, <2>1, GoodSurvives
<1>16. CASE m2.result # "ok"
  <2>1. m3 = m2
    BY <1>12, <1>16, FlushIs
  <2>2. w = m2
    BY <1>16, <2>1 DEF UpdateSize
  <2> HIDE DEF m3, w
  <2> QED BY <1>1, <1>12, <1>15, <2>2, FinishOK
<1>17. CASE m2.result = "ok"
  <2>1. /\ m3 \in Machines /\ m3.fat = m2.fat /\ m3.dirs = m2.dirs
        /\ m3.result = "ata" \/ (m3.result = "ok" /\ m3.disk_fat = m2.fat)
    BY <1>12, <1>17, FlushIs
  <2>2. Survives(m3, t) /\ Remounts(m3)
    BY <1>12, <1>14, <1>15, <1>17, FlushKeeps
  <2> HIDE DEF m3
  <2>3. CASE m3.result = "ata"
    <3>1. w = m3
      BY <2>3 DEF UpdateSize
    <3> HIDE DEF w
    <3> QED BY <1>1, <2>1, <2>2, <3>1, FinishOK
  <2>4. CASE m3.result = "ok" /\ m3.disk_fat = m2.fat
    <3>1. Good(m3.fat, m3.fat, m3.dirs, t, J, J, D)
      BY <1>14, <2>1, FlushOK
    <3>2. /\ m3.fat = m3.disk_fat /\ (m2.first # 0 => Covered(m3.fat, m2.first, size))
      BY <1>14, <2>1, <2>4
    <3>3. w \in Machines /\ Survives(w, t) /\ Remounts(w)
      BY <1>13, <1>14, <2>1, <2>4, <3>1, <3>2, NewSizeOK
    <3> HIDE DEF w
    <3> QED BY <1>1, <3>3, FinishOK
  <2> QED BY <2>1, <2>3, <2>4
<1> QED BY <1>16, <1>17

-----------------------------------------------------------------------------
(***************************************************************************)
(* The disk that build.rs makes: the root directory and a file.            *)
(***************************************************************************)
LEMMA ImageNames ==
  /\ ImageFile \in Names /\ ImageFile \notin {END, DELETED, LABEL, DOT, DOTDOT}
  /\ LABEL \notin {END, DELETED, DOT, DOTDOT}
<1>1. ImageFile \in Names
  BY NamesAssumption DEF ImageFile
<1> QED BY <1>1, NamesAssumption DEF LABEL, END, DELETED, DOT, DOTDOT

LEMMA ImageRootIs ==
  /\ ImageRoot \in [1..SlotsPerCluster -> RawEntries]
  /\ ImageRoot[1] = RawDirEntry(LABEL, FALSE, 0, 0) /\ 1 \in 1..SlotsPerCluster
  /\ ImageRoot[2] = RawDirEntry(ImageFile, FALSE, 3, BytesPerCluster) /\ 2 \in 1..SlotsPerCluster
  /\ \A b \in 1..SlotsPerCluster : b \notin {1, 2} => ImageRoot[b] = Vacant(END)
<1> DEFINE l == RawDirEntry(LABEL, FALSE, 0, 0)
           e == RawDirEntry(ImageFile, FALSE, 3, BytesPerCluster)
<1>1. l \in RawEntries /\ e \in RawEntries
  <2>1. 3 \in Clusters /\ 0 \in 0..MaxSize /\ BytesPerCluster \in 0..MaxSize
    BY GeometryAssumption, BoundsAssumption DEF Clusters
  <2> QED BY <2>1, ImageNames DEF RawDirEntry, RawEntries
<1>2. Cleared \in [1..SlotsPerCluster -> RawEntries] /\ \A b \in 1..SlotsPerCluster : Cleared[b] = Vacant(END)
  BY <1>1, FirstOfIs DEF Cleared
<1>3. 1 \in 1..SlotsPerCluster /\ 2 \in 1..SlotsPerCluster
  BY Numbers
<1>4. ImageRoot = [Cleared EXCEPT ![1] = l, ![2] = e]
  BY DEF ImageRoot
<1> HIDE DEF l, e, Cleared
<1>5. ImageRoot \in [1..SlotsPerCluster -> RawEntries]
  BY <1>1, <1>2, <1>3, <1>4
<1>6. ImageRoot[1] = l /\ ImageRoot[2] = e
  BY <1>2, <1>3, <1>4
<1>7. \A b \in 1..SlotsPerCluster : b \notin {1, 2} => ImageRoot[b] = Vacant(END)
  BY <1>2, <1>3, <1>4
<1> QED BY <1>3, <1>5, <1>6, <1>7 DEF l, e

ImageDirs == [c \in Clusters |-> IF c = RootCluster THEN ImageRoot ELSE Cleared]

LEMMA ImageChains ==
  /\ ImageFat \in Fats /\ ChainsOK(ImageFat, {RootCluster, 3})
  /\ ClusterChain(ImageFat, RootCluster) = <<RootCluster>> /\ ClusterChain(ImageFat, 3) = <<3>>
  /\ On(ImageFat, RootCluster) = {RootCluster} /\ On(ImageFat, 3) = {3}
<1>1. 3 \in Clusters /\ RootCluster \in Clusters /\ RootCluster # 3
  BY GeometryAssumption DEF Clusters, RootCluster
<1>2. ImageFat \in Fats
  BY DEF ImageFat, Fats
<1>3. ASSUME NEW h \in {RootCluster, 3}
      PROVE  /\ ClusterChain(ImageFat, h) = <<h>> /\ On(ImageFat, h) = {h} /\ HasChain(ImageFat, h)
  <2>1. h \in Clusters /\ ImageFat[h] = EOC
    BY <1>1 DEF ImageFat
  <2>2. IsChain(ImageFat, h, <<h>>)
    <3>1. <<h>> \in Seq(Clusters) /\ Len(<<h>>) = 1 /\ <<h>>[1] = h
      BY <2>1
    <3>2. 1 \in 1..NClusters
      BY Numbers
    <3> QED BY <2>1, <3>1, <3>2 DEF IsChain
  <2>3. ClusterChain(ImageFat, h) = <<h>>
    BY <1>2, <2>2, ChainIs
  <2>4. ToSet(<<h>>) = {h}
    BY DEF ToSet
  <2> QED BY <2>2, <2>3, <2>4 DEF HasChain, On
<1>4. ChainsOK(ImageFat, {RootCluster, 3})
  BY <1>1, <1>3 DEF ChainsOK
<1> QED BY <1>2, <1>3, <1>4

LEMMA ImageOK ==
  DiskOK(ImageFat, ImageDirs, {RootCluster, 3}, {RootCluster})
<1> DEFINE K == {RootCluster, 3}
           D == {RootCluster}
           f == ImageFat
           dr == ImageDirs
<1>1. 3 \in Clusters /\ RootCluster \in Clusters /\ RootCluster # 3 /\ RootCluster # 0 /\ 3 # 0
  BY GeometryAssumption DEF Clusters, RootCluster
<1>2. dr \in DirTabs /\ dr[RootCluster] = ImageRoot
  <2>1. Cleared \in [1..SlotsPerCluster -> RawEntries]
    <3>1. RawDirEntry(LABEL, FALSE, 0, 0) \in RawEntries
      BY ImageRootIs
    <3> QED BY <3>1, FirstOfIs
  <2> QED BY <1>1, <2>1, ImageRootIs DEF ImageDirs, DirTabs
<1>3. ASSUME NEW p \in Slots(f, RootCluster)
      PROVE  /\ p = <<RootCluster, p[2]>> /\ p[2] \in 1..SlotsPerCluster
             /\ Ent(dr, p) = ImageRoot[p[2]]
  BY <1>2, ImageChains DEF Slots, Ent
<1>4. ~Listed(Vacant(END)) /\ IsFree(Vacant(END)) /\ Vacant(END).name = END
  BY DEF Vacant, RawDirEntry, Listed, IsFree
<1>5. ASSUME NEW p \in Slots(f, RootCluster), Listed(Ent(dr, p))
      PROVE  /\ EntryOK(f, K, D, Ent(dr, p)) /\ Ent(dr, p).cluster # RootCluster
             /\ Ent(dr, p).cluster # 0 => p[2] = 2
  <2>1. p[2] \in {1, 2}
    BY <1>3, <1>4, <1>5, ImageRootIs
  <2>2. CASE p[2] = 1
    <3>1. Ent(dr, p).cluster = 0 /\ ~Ent(dr, p).is_dir /\ Ent(dr, p).size = 0
      BY <1>3, <2>2, ImageRootIs DEF RawDirEntry
    <3> QED BY <1>1, <3>1 DEF EntryOK
  <2>3. CASE p[2] = 2
    <3>1. Ent(dr, p).cluster = 3 /\ ~Ent(dr, p).is_dir /\ Ent(dr, p).size = BytesPerCluster
      BY <1>3, <2>3, ImageRootIs DEF RawDirEntry
    <3>2. Covered(f, 3, BytesPerCluster)
      BY ImageChains, Numbers, SMTT(30) DEF Covered
    <3> QED BY <1>1, <2>3, <3>1, <3>2 DEF EntryOK
  <2> QED BY <2>1, <2>2, <2>3
<1>6. AllEntriesOK(f, dr, K, D)
  BY <1>5 DEF AllEntriesOK
<1>7. ListedOnce(f, dr, D)
  <2> SUFFICES ASSUME NEW p \in Slots(f, RootCluster), NEW q \in Slots(f, RootCluster),
                      Listed(Ent(dr, p)), Listed(Ent(dr, q)),
                      Ent(dr, p).cluster = Ent(dr, q).cluster, Ent(dr, p).cluster # 0
               PROVE  p = q
    BY DEF ListedOnce
  <2>1. p[2] = 2 /\ q[2] = 2
    BY <1>5
  <2>2. p = <<RootCluster, p[2]>> /\ q = <<RootCluster, q[2]>>
    BY <1>3
  <2> QED BY <2>1, <2>2
<1>8. CleanDir(dr, ClusterChain(f, RootCluster))
  <2> DEFINE s == <<RootCluster>>
  <2>1. Len(s) = 1 /\ s[1] = RootCluster
    OBVIOUS
  <2>2. ASSUME NEW a \in 1..SlotsPerCluster, NEW b \in 1..SlotsPerCluster, a < b
        PROVE  /\ ImageRoot[a].name = END => IsFree(ImageRoot[b])
               /\ ~IsFree(ImageRoot[b]) => ImageRoot[a].name # ImageRoot[b].name
    <3>1. CASE b = 2
      <4>1. a = 1
        BY <2>2, <3>1
      <4>2. ImageRoot[a].name = LABEL /\ ImageRoot[b].name = ImageFile
        BY <3>1, <4>1, ImageRootIs DEF RawDirEntry
      <4> QED BY <4>2, ImageNames
    <3>2. CASE b # 2
      <4>1. b \notin {1, 2}
        BY <2>2, <3>2
      <4> QED BY <1>4, <4>1, ImageRootIs
    <3> QED BY <3>1, <3>2
  <2>3. CleanDir(dr, s)
    <3> HIDE DEF s
    <3> SUFFICES ASSUME NEW j \in 1..Len(s), NEW k \in 1..Len(s),
                        NEW a \in 1..SlotsPerCluster, NEW b \in 1..SlotsPerCluster, Earlier(j, a, k, b)
                 PROVE  /\ dr[s[j]][a].name = END => IsFree(dr[s[k]][b])
                        /\ ~IsFree(dr[s[k]][b]) => dr[s[j]][a].name # dr[s[k]][b].name
      BY DEF CleanDir
    <3>1. j = 1 /\ k = 1 /\ a < b
      BY <2>1 DEF Earlier
    <3> QED BY <1>2, <2>1, <2>2, <3>1
  <2> QED BY <2>3, ImageChains
<1> QED BY <1>2, <1>6, <1>7, <1>8, ImageChains DEF DiskOK

LEMMA InitInv == Init => Inv
<1> SUFFICES ASSUME Init
             PROVE  Inv
  OBVIOUS
<1>1. fat = ImageFat /\ disk_fat = ImageFat /\ dirs = ImageDirs
  BY DEF Init, ImageDirs
<1>2. Table = MountedTable /\ next_inode = 2
  BY MountedIs DEF Init, Table
<1>3. Good(ImageFat, ImageFat, ImageDirs, MountedTable, {RootCluster, 3}, {RootCluster, 3}, {RootCluster})
  BY ImageOK, MountOK
<1>4. Kept(fat, disk_fat, dirs, Table) /\ Mountable(disk_fat, dirs)
  BY <1>1, <1>2, <1>3, KeptIs
<1>5. data \in DataTabs
  BY BytesAssumption DEF Init, DataTabs
<1>6. next_inode <= MaxInode + 1 /\ sound \in BOOLEAN /\ disk_sound \in BOOLEAN
  BY <1>2, BoundsAssumption DEF Init
<1>7. fat \in Fats /\ disk_fat \in Fats /\ dirs \in DirTabs
  BY <1>1, <1>3, GoodParts, ImageOK DEF DiskOK
<1> QED BY <1>4, <1>5, <1>6, <1>7 DEF Inv

(***************************************************************************)
(* Every step keeps the invariant, whatever disk write of it was the last, *)
(* and whether it did not succeed for an error or for want of power.       *)
(***************************************************************************)
LEMMA NextInv ==
  ASSUME Inv, [Next]_vars
  PROVE  Inv'
<1>1. CASE UNCHANGED vars
  BY <1>1 DEF vars, Inv, Kept, Table
<1>2. ASSUME NEW d \in Directories, Readdir(d)
      PROVE  Inv'
  BY <1>2, ReaddirKeeps
<1>3. ASSUME NEW d \in Directories, NEW name \in Names, Lookup(d, name)
      PROVE  Inv'
  BY <1>3, LookupKeeps
<1>4. 0..MaxDiskWrites \subseteq Nat
  BY BoundsAssumption
<1>5. ASSUME NEW d \in Directories, NEW name \in Names, NEW left \in 0..MaxDiskWrites,
             Create(d, name, left) \/ Mkdir(d, name, left)
      PROVE  Inv'
  BY <1>4, <1>5, CreateKeeps, MkdirKeeps
<1>6. ASSUME NEW d \in Directories, NEW name \in Names \cup {DOT, DOTDOT}, NEW left \in 0..MaxDiskWrites,
             Unlink(d, name, left)
      PROVE  Inv'
  BY <1>4, <1>6, UnlinkKeeps, UnlinkDotsKeeps
<1>7. ASSUME NEW i \in Files, WriteSome(i)
      PROVE  Inv'
  <2>1. PICK offset \in 0..inodes[i].size : \E end \in offset..MaxSize :
          \E byte \in Bytes : \E left \in 0..MaxDiskWrites : Write(i, offset, end, byte, left)
    BY <1>7 DEF WriteSome
  <2>2. PICK end \in offset..MaxSize, byte \in Bytes, left \in 0..MaxDiskWrites :
          Write(i, offset, end, byte, left)
    BY <2>1
  <2> QED BY <1>4, <2>2, WriteKeeps
<1>8. CASE Restart
  BY <1>8, RestartKeeps
<1> QED BY <1>1, <1>2, <1>3, <1>5, <1>6, <1>7, <1>8 DEF Next

LEMMA Invariance == Spec => []Inv
<1>1. Inv /\ [Next]_vars => Inv'
  BY NextInv
<1> QED BY <1>1, InitInv, PTL DEF Spec

-----------------------------------------------------------------------------
(***************************************************************************)
(* What the invariant says of the tables and of the tree.                  *)
(***************************************************************************)
LEMMA NowIs ==
  ASSUME Inv
  PROVE  /\ Now.fat = fat /\ Now.dirs = dirs /\ AsOnDisk.fat = disk_fat /\ AsOnDisk.dirs = dirs
BY DEF Now, AsOnDisk, Machine

LEMMA TreeClosed ==
  ASSUME Inv, NEW g, NEW H, NEW K, NEW D, Good(fat, g, dirs, Table, H, K, D)
  PROVE  Closed(Now, D)
<1>1. /\ fat \in Fats /\ ChainsOK(fat, H) /\ DiskOK(g, dirs, K, D) /\ D \subseteq H
      /\ \A d \in D : Slots(g, d) = Slots(fat, d)
  BY GoodParts
<1> QED BY <1>1, NowIs, GoodClosed DEF ChainsOK

LEMMA DiskTreeClosed ==
  ASSUME Inv, disk_sound
  PROVE  \E K, D \in SUBSET Clusters :
           DiskOK(disk_fat, dirs, K, D) /\ ChainsOK(disk_fat, K) /\ Closed(AsOnDisk, D)
<1>1. PICK K \in SUBSET Clusters, D \in SUBSET Clusters : DiskOK(disk_fat, dirs, K, D)
  BY DEF Inv, Mountable
<1>2. disk_fat \in Fats /\ Good(disk_fat, disk_fat, dirs, MountedTable, K, K, D)
  BY <1>1, MountOK DEF Inv
<1>3. ChainsOK(disk_fat, K) /\ D \subseteq K
  BY <1>2, GoodParts
<1>4. Closed(AsOnDisk, D)
  BY <1>1, <1>2, <1>3, NowIs, GoodClosed DEF ChainsOK
<1> QED BY <1>1, <1>3, <1>4

LEMMA EntriesAre ==
  ASSUME NEW m, NEW D, Closed(m, D), NEW x \in Entries(m)
  PROVE  \E d \in D : \E p \in Slots(m.fat, d) : x = [place |-> p, entry |-> Ent(m.dirs, p)] /\ Listed(Ent(m.dirs, p))
<1> DEFINE tree == DirTree(m, RootCluster)
<1>1. PICK p \in UNION {ToSet(Places(m, d)) : d \in ToSet(tree)} :
        Listed(At(m, p)) /\ x = [place |-> p, entry |-> At(m, p)]
  BY DEF Entries
<1>2. tree \in Seq(D)
  BY TreeStaysIn
<1> HIDE DEF tree
<1>3. PICK d \in ToSet(tree) : p \in ToSet(Places(m, d))
  BY <1>1
<1>4. d \in D
  BY <1>2, <1>3 DEF ToSet
<1>5. Places(m, d) \in Seq(Slots(m.fat, d))
  BY <1>4, PlacesAre DEF Closed
<1>6. p \in Slots(m.fat, d)
  BY <1>3, <1>5 DEF ToSet
<1> QED BY <1>1, <1>4, <1>6 DEF At, Ent

LEMMA ChainIsWhole ==
  ASSUME NEW f \in Fats, NEW h, HasChain(f, h)
  PROVE  Whole(f, h)
<1> DEFINE s == ClusterChain(f, h)
<1>1. f[Last(s)] = EOC
  BY OnChain
<1>2. IsInjective(s)
  <2>1. DOMAIN s = 1..Len(s)
    BY OnChain
  <2>2. \A j, k \in 1..Len(s) : s[j] = s[k] => j = k
    BY DEF HasChain, IsChain
  <2> HIDE DEF s
  <2> QED BY <2>1, <2>2 DEF IsInjective
<1> QED BY <1>1, <1>2 DEF Whole

(***************************************************************************)
(* Two entries of the tree have clusters of their own.                     *)
(***************************************************************************)
LEMMA TreeLinked ==
  ASSUME NEW m, NEW df, NEW K, NEW D, Closed(m, D), DiskOK(df, m.dirs, K, D),
         NEW J, K \subseteq J, ChainsOK(m.fat, J), \A d \in D : Slots(m.fat, d) = Slots(df, d)
  PROVE  /\ Linked(m)
         /\ \A x \in Entries(m) : EntryOK(df, K, D, x.entry)
<1>1. m.fat \in Fats /\ RootCluster \in J
  BY DEF Closed, DiskOK
<1>2. \A h \in J : Whole(m.fat, h)
  BY <1>1, ChainIsWhole DEF ChainsOK
<1>3. \A g, h \in J : g # h => Apart(m.fat, g, h)
  BY DEF ChainsOK, Apart, On
<1>4. \A x \in Entries(m) : EntryOK(df, K, D, x.entry)
  <2> SUFFICES ASSUME NEW x \in Entries(m)
               PROVE  EntryOK(df, K, D, x.entry)
    OBVIOUS
  <2>d. PICK d \in D : \E p \in Slots(m.fat, d) :
          x = [place |-> p, entry |-> Ent(m.dirs, p)] /\ Listed(Ent(m.dirs, p))
    BY EntriesAre
  <2>1. PICK p \in Slots(m.fat, d) :
          x = [place |-> p, entry |-> Ent(m.dirs, p)] /\ Listed(Ent(m.dirs, p))
    BY <2>d
  <2>2. EntryOK(df, K, D, Ent(m.dirs, p))
    BY <2>1 DEF DiskOK, AllEntriesOK
  <2> QED BY <2>1, <2>2
<1>5. \A x \in Entries(m) : x.entry.cluster >= 2 => x.entry.cluster \in J \ {RootCluster}
  <2> SUFFICES ASSUME NEW x \in Entries(m), x.entry.cluster >= 2
               PROVE  x.entry.cluster \in J \ {RootCluster}
    OBVIOUS
  <2>1. EntryOK(df, K, D, x.entry)
    BY <1>4
  <2>2. x.entry.cluster # 0
    OBVIOUS
  <2> QED BY <2>1, <2>2 DEF EntryOK
<1>6. ASSUME NEW x \in Entries(m), NEW y \in Entries(m), x # y, x.entry.cluster >= 2, y.entry.cluster >= 2
      PROVE  x.entry.cluster # y.entry.cluster
  <2>d. PICK d \in D : \E p \in Slots(m.fat, d) :
          x = [place |-> p, entry |-> Ent(m.dirs, p)] /\ Listed(Ent(m.dirs, p))
    BY EntriesAre
  <2>1. PICK p \in Slots(m.fat, d) :
          x = [place |-> p, entry |-> Ent(m.dirs, p)] /\ Listed(Ent(m.dirs, p))
    BY <2>d
  <2>a. PICK b \in D : \E q \in Slots(m.fat, b) :
          y = [place |-> q, entry |-> Ent(m.dirs, q)] /\ Listed(Ent(m.dirs, q))
    BY EntriesAre
  <2>2. PICK q \in Slots(m.fat, b) :
          y = [place |-> q, entry |-> Ent(m.dirs, q)] /\ Listed(Ent(m.dirs, q))
    BY <2>a
  <2>3. x.entry = Ent(m.dirs, p) /\ y.entry = Ent(m.dirs, q) /\ p # q /\ Ent(m.dirs, p).cluster # 0
    BY <1>6, <2>1, <2>2
  <2>4. ListedOnce(df, m.dirs, D)
    BY DEF DiskOK
  <2> QED BY <2>1, <2>2, <2>3, <2>4 DEF ListedOnce
<1>7. Linked(m)
  BY <1>1, <1>2, <1>3, <1>5, <1>6 DEF Linked
<1> QED BY <1>4, <1>7

LEMMA InvTypeOK ==
  ASSUME Inv
  PROVE  TypeOK
<1>1. /\ fat \in [Clusters -> Clusters \cup {FREE, EOC}] /\ disk_fat \in [Clusters -> Clusters \cup {FREE, EOC}]
      /\ data \in [Clusters -> [0 .. BytesPerCluster - 1 -> Bytes]]
      /\ sound \in BOOLEAN /\ disk_sound \in BOOLEAN
  BY DEF Inv, Fats, DataTabs
<1>2. \A c \in Clusters : \A s \in 1..SlotsPerCluster : dirs[c][s] \in RawEntries
  BY DEF Inv, DirTabs
<1>3. ASSUME sound
      PROVE  /\ next_inode \in 2 .. MaxInode + 1 /\ DOMAIN inodes \subseteq 1 .. next_inode - 1
             /\ \A i \in DOMAIN inodes :
                  inodes[i].first_cluster \in Clusters \cup {0} /\ inodes[i].size \in 0..MaxSize
             /\ 1 \in DOMAIN inodes /\ inodes[1].first_cluster = RootCluster /\ inodes[1].is_dir
  <2>1. PICK g, H, K, D : Good(fat, g, dirs, Table, H, K, D)
    BY <1>3, SoundIs
  <2>2. RootCluster \in D /\ TableOK(Table) /\ InodesOK(fat, Table, H, D)
    BY <2>1, GoodParts
  <2>3. Table.inodes = inodes /\ Table.next_inode = next_inode
    BY DEF Table
  <2>4. /\ next_inode \in Nat /\ next_inode >= 2 /\ DOMAIN inodes \subseteq 1 .. next_inode - 1
        /\ inodes \in [DOMAIN inodes -> Inodes] /\ 1 \in DOMAIN inodes /\ inodes[1].first_cluster = RootCluster
    BY <2>2, <2>3 DEF TableOK
  <2>5. next_inode \in 2 .. MaxInode + 1
    BY <2>4, BoundsAssumption DEF Inv
  <2>6. InodeOK(fat, H, D, inodes[1])
    BY <2>2, <2>3, <2>4 DEF InodesOK
  <2>7. inodes[1].is_dir
    BY <2>2, <2>4, <2>6, Numbers DEF InodeOK
  <2>8. \A i \in DOMAIN inodes : inodes[i].first_cluster \in Clusters \cup {0} /\ inodes[i].size \in 0..MaxSize
    BY <2>4 DEF Inodes
  <2> QED BY <2>4, <2>5, <2>7, <2>8
<1> QED BY <1>1, <1>2, <1>3 DEF TypeOK, RawEntries

LEMMA InvChainsDisjoint ==
  ASSUME Inv
  PROVE  ChainsDisjoint
<1> SUFFICES ASSUME sound
             PROVE  ChainsDisjoint
  BY DEF ChainsDisjoint
<1>1. PICK g, H, K, D : Good(fat, g, dirs, Table, H, K, D)
  BY SoundIs
<1>2. /\ fat \in Fats /\ ChainsOK(fat, H) /\ InodesOK(fat, Table, H, D) /\ K \subseteq H
      /\ DiskOK(g, dirs, K, D) /\ \A d \in D : Slots(g, d) = Slots(fat, d)
  BY <1>1, GoodParts
<1>3. Now.fat = fat /\ Now.dirs = dirs /\ Closed(Now, D)
  BY <1>1, NowIs, TreeClosed
<1>4. Linked(Now) /\ \A x \in Entries(Now) : EntryOK(g, K, D, x.entry)
  BY <1>2, <1>3, TreeLinked
<1>5. \A i \in DOMAIN inodes : inodes[i].first_cluster >= 2 => inodes[i].first_cluster \in H
  <2> SUFFICES ASSUME NEW i \in DOMAIN inodes, inodes[i].first_cluster >= 2
               PROVE  inodes[i].first_cluster \in H
    OBVIOUS
  <2>1. InodeOK(fat, H, D, inodes[i])
    BY <1>2 DEF InodesOK, Table
  <2>2. inodes[i].first_cluster # 0
    OBVIOUS
  <2> QED BY <2>1, <2>2 DEF InodeOK
<1>6. \A x \in Entries(Now) : x.entry.cluster >= 2 => x.entry.cluster \in H
  <2> SUFFICES ASSUME NEW x \in Entries(Now), x.entry.cluster >= 2
               PROVE  x.entry.cluster \in H
    OBVIOUS
  <2>1. EntryOK(g, K, D, x.entry)
    BY <1>4
  <2>2. x.entry.cluster # 0
    OBVIOUS
  <2> QED BY <1>2, <2>1, <2>2 DEF EntryOK
<1>7. \A h \in H : Whole(fat, h)
  BY <1>2, ChainIsWhole DEF ChainsOK
<1>8. \A a, b \in H : a # b => Apart(fat, a, b)
  BY <1>2 DEF ChainsOK, Apart, On
<1> QED BY <1>4, <1>5, <1>6, <1>7, <1>8 DEF ChainsDisjoint

LEMMA InvRestartSafe ==
  ASSUME Inv
  PROVE  RestartSafe
<1> SUFFICES ASSUME disk_sound
             PROVE  RestartSafe
  BY DEF RestartSafe
<1>1. PICK K, D \in SUBSET Clusters :
        DiskOK(disk_fat, dirs, K, D) /\ ChainsOK(disk_fat, K) /\ Closed(AsOnDisk, D)
  BY DiskTreeClosed
<1>2. DiskOK(disk_fat, dirs, K, D) /\ ChainsOK(disk_fat, K)
  BY <1>1
<1>3. AsOnDisk.fat = disk_fat /\ AsOnDisk.dirs = dirs /\ Closed(AsOnDisk, D)
  BY <1>1, NowIs
<1>4. K \subseteq K /\ \A d \in D : Slots(AsOnDisk.fat, d) = Slots(disk_fat, d)
  BY <1>3
<1>5. Linked(AsOnDisk) /\ \A x \in Entries(AsOnDisk) : EntryOK(disk_fat, K, D, x.entry)
  BY <1>2, <1>3, <1>4, TreeLinked
<1>6. ASSUME NEW x \in Entries(AsOnDisk), ~x.entry.is_dir
      PROVE  x.entry.size <= BytesPerCluster * Len(ClusterChain(disk_fat, x.entry.cluster))
  <2>1. EntryOK(disk_fat, K, D, x.entry)
    BY <1>5
  <2>2. CASE x.entry.cluster = 0 /\ x.entry.size = 0
    <3>1. ClusterChain(disk_fat, 0) = <<>>
      BY Numbers DEF ClusterChain
    <3>2. Len(ClusterChain(disk_fat, x.entry.cluster)) = 0
      BY <2>2, <3>1
    <3>3. BytesPerCluster * 0 = 0
      BY Numbers
    <3> QED BY <2>2, <3>2, <3>3
  <2>3. CASE Covered(disk_fat, x.entry.cluster, x.entry.size)
    BY <2>3 DEF Covered
  <2> QED BY <1>6, <2>1, <2>2, <2>3 DEF EntryOK
<1> QED BY <1>5, <1>6 DEF RestartSafe

LEMMA InvSizesAgree ==
  ASSUME Inv
  PROVE  SizesAgree
<1> SUFFICES ASSUME sound
             PROVE  SizesAgree
  BY DEF SizesAgree
<1>1. PICK g, H, K, D : Good(fat, g, dirs, Table, H, K, D)
  BY SoundIs
<1>2. /\ InodesOK(fat, Table, H, D) /\ Agree(g, dirs, Table, D)
      /\ \A d \in D : Slots(g, d) = Slots(fat, d)
  BY <1>1, GoodParts
<1>3. Now.fat = fat /\ Now.dirs = dirs /\ Closed(Now, D)
  BY <1>1, NowIs, TreeClosed
<1>4. ASSUME NEW i \in Files
      PROVE  inodes[i].size <= BytesPerCluster * Len(ClusterChain(fat, inodes[i].first_cluster))
  <2>1. i \in DOMAIN inodes /\ ~inodes[i].is_dir
    BY DEF Files
  <2>2. InodeOK(fat, H, D, inodes[i])
    BY <1>2, <2>1 DEF InodesOK, Table
  <2>3. CASE inodes[i].first_cluster = 0 /\ inodes[i].size = 0
    <3>1. ClusterChain(fat, 0) = <<>>
      BY Numbers DEF ClusterChain
    <3>2. Len(ClusterChain(fat, inodes[i].first_cluster)) = 0
      BY <2>3, <3>1
    <3>3. BytesPerCluster * 0 = 0
      BY Numbers
    <3> QED BY <2>3, <3>2, <3>3
  <2>4. CASE Covered(fat, inodes[i].first_cluster, inodes[i].size)
    BY <2>4 DEF Covered
  <2> QED BY <2>1, <2>2, <2>3, <2>4 DEF InodeOK
<1>5. ASSUME NEW i \in Files, NEW x \in Entries(Now), x.entry.cluster >= 2,
             x.entry.cluster = inodes[i].first_cluster
      PROVE  x.entry.size <= inodes[i].size
  <2>1. PICK d \in D : \E p \in Slots(Now.fat, d) :
          x = [place |-> p, entry |-> Ent(Now.dirs, p)] /\ Listed(Ent(Now.dirs, p))
    BY <1>3, EntriesAre
  <2>2. PICK p \in Slots(Now.fat, d) :
          x = [place |-> p, entry |-> Ent(Now.dirs, p)] /\ Listed(Ent(Now.dirs, p))
    BY <2>1
  <2>3. p \in Slots(g, d) /\ x.entry = Ent(dirs, p) /\ Listed(Ent(dirs, p)) /\ x.entry.cluster # 0
    BY <1>2, <1>3, <1>5, <2>2
  <2>4. i \in DOMAIN inodes /\ ~inodes[i].is_dir
    BY DEF Files
  <2> QED BY <1>2, <1>5, <2>3, <2>4 DEF Agree, Table
<1> QED BY <1>4, <1>5 DEF SizesAgree

LEMMA InvDirectoriesClean ==
  ASSUME Inv
  PROVE  DirectoriesClean
<1> SUFFICES ASSUME sound
             PROVE  DirectoriesClean
  BY DEF DirectoriesClean
<1>1. PICK g, H, K, D : Good(fat, g, dirs, Table, H, K, D)
  BY SoundIs
<1>2. Now.fat = fat /\ Now.dirs = dirs /\ Closed(Now, D)
  BY <1>1, NowIs, TreeClosed
<1>3. DirTree(Now, RootCluster) \in Seq(D)
  BY <1>2, TreeStaysIn
<1>4. ASSUME NEW d \in D
      PROVE  LET P == Places(Now, d)
                 name == [k \in DOMAIN P |-> At(Now, P[k]).name]
             IN \A j, k \in DOMAIN P : j < k =>
                  /\ name[j] = END => name[k] \in {END, DELETED}
                  /\ name[k] \notin {END, DELETED} => name[j] # name[k]
  <2> DEFINE P == Places(Now, d)
             s == ClusterChain(fat, d)
             name == [k \in DOMAIN P |-> At(Now, P[k]).name]
  <2>1. fat \in Fats /\ HasChain(fat, d)
    BY <1>2 DEF Closed
  <2>2. CleanDir(dirs, s)
    <3>1. CleanDir(dirs, ClusterChain(g, d)) /\ ClusterChain(g, d) = s
      BY <1>1, GoodParts DEF DiskOK
    <3> QED BY <3>1
  <2>3. DOMAIN P = 1..Len(P) /\ Len(P) = Len(s) * SlotsPerCluster /\ Len(s) \in Nat
    BY <1>2, <2>1, PlacesAre
  <2>4. \A n \in 1..Len(Places(Now, d)) : Places(Now, d)[n] = <<ClusterChain(Now.fat, d)[Row(n)], Col(n)>>
    BY <1>2, <2>1, PlacesAre
  <2>5. \A n \in 1..Len(P) : P[n] = <<s[Row(n)], Col(n)>>
    BY <1>2, <2>4
  <2> HIDE DEF P, s
  <2>6. ASSUME NEW j \in DOMAIN P, NEW k \in DOMAIN P, j < k
        PROVE  /\ name[j] = END => name[k] \in {END, DELETED}
               /\ name[k] \notin {END, DELETED} => name[j] # name[k]
    <3>1. j \in 1 .. Len(s) * SlotsPerCluster /\ k \in 1 .. Len(s) * SlotsPerCluster
      BY <2>3
    <3>2. Earlier(Row(j), Col(j), Row(k), Col(k))
      BY <2>3, <2>6, <3>1, RowColOrder DEF Earlier
    <3>3. /\ Row(j) \in 1..Len(s) /\ Row(k) \in 1..Len(s)
          /\ Col(j) \in 1..SlotsPerCluster /\ Col(k) \in 1..SlotsPerCluster
      BY <2>3, <3>1, RowCol
    <3>4. name[j] = dirs[s[Row(j)]][Col(j)].name /\ name[k] = dirs[s[Row(k)]][Col(k)].name
      BY <1>2, <2>3, <2>5 DEF At
    <3>5. /\ dirs[s[Row(j)]][Col(j)].name = END => IsFree(dirs[s[Row(k)]][Col(k)])
          /\ ~IsFree(dirs[s[Row(k)]][Col(k)]) => dirs[s[Row(j)]][Col(j)].name # dirs[s[Row(k)]][Col(k)].name
      BY <2>2, <3>2, <3>3 DEF CleanDir
    <3> HIDE DEF name
    <3> QED BY <3>4, <3>5 DEF IsFree
  <2> QED BY <2>6 DEF P
<1>5. \A d \in ToSet(DirTree(Now, RootCluster)) : d \in D
  <2> DEFINE tree == DirTree(Now, RootCluster)
  <2> HIDE DEF tree
  <2>1. tree \in Seq(D)
    BY <1>3 DEF tree
  <2>2. \A d \in ToSet(tree) : d \in D
    BY <2>1 DEF ToSet
  <2> QED BY <2>2 DEF tree
<1> QED BY <1>4, <1>5 DEF DirectoriesClean

-----------------------------------------------------------------------------
(***************************************************************************)
(* The theorems.  They hold for every number of clusters, slots, sectors   *)
(* and inodes, every set of names of files, every number of disk writes    *)
(* after which the disk or the power fails, in every operation.            *)
(***************************************************************************)

(***************************************************************************)
(* The tables of the driver and of the disk stay typed: every entry of a   *)
(* directory, every link of the FAT and, while the tree is sound, every    *)
(* inode that create, mkdir, unlink, write and a restart leave behind is   *)
(* one that the code can read.                                             *)
(***************************************************************************)
THEOREM TablesTyped == Spec => []TypeOK
<1>1. Inv => TypeOK
  BY InvTypeOK
<1> QED BY <1>1, Invariance, PTL

(***************************************************************************)
(* No two files, and no file and directory, share a cluster, also if one   *)
(* of them is known only from an inode number: alloc_cluster takes what    *)
(* free_chain gave back, and unlink forgets the inode of the file whose    *)
(* clusters it frees.  Three faults of the code end that, and only these:  *)
(* unlink of "." or "..", an error of the disk in unlink or in the write   *)
(* that extends a directory, and a mount of a disk that disk_sound tells   *)
(* to be torn.                                                             *)
(***************************************************************************)
THEOREM ClustersHaveOneOwner == Spec => []ChainsDisjoint
<1>1. Inv => ChainsDisjoint
  BY InvChainsDisjoint
<1> QED BY <1>1, Invariance, PTL

(***************************************************************************)
(* Everything that readdir lists can be removed: write_dir_entry never     *)
(* leaves an entry behind a slot at which the scan of remove_dir_entry     *)
(* ends, and no name is in a directory twice, up to one of the faults      *)
(* named above.                                                            *)
(***************************************************************************)
THEOREM ListedIsRemovable == Spec => []DirectoriesClean
<1>1. Inv => DirectoriesClean
  BY InvDirectoriesClean
<1> QED BY <1>1, Invariance, PTL

(***************************************************************************)
(* When power is lost between two disk writes, each a sector of the FAT, a *)
(* directory or data: the disk that init finds then is a sound tree, in    *)
(* which every entry names a chain of its own that is as long as the size  *)
(* it gives, unless disk_sound is FALSE.  disk_sound turns FALSE only in a *)
(* write of the FAT that stops when some of the clusters in use are up to  *)
(* date on the disk and others are not, in mkdir once its entry is there,  *)
(* by an error of the disk that leaves create or mkdir with a FAT that is  *)
(* not that of the disk, and by unlink of "." or "..".                     *)
(***************************************************************************)
THEOREM RestartFindsSoundTree == Spec => []RestartSafe
<1>1. Inv => RestartSafe
  BY InvRestartSafe
<1> QED BY <1>1, Invariance, PTL

(***************************************************************************)
(* The size of a file never exceeds its clusters, and the one on the disk  *)
(* never exceeds the one in memory, although a write that fails, for want  *)
(* of clusters or because the disk does, stops between the steps that      *)
(* extend the chain and the one that stores the size; up to one of the     *)
(* faults named at ClustersHaveOneOwner.                                   *)
(***************************************************************************)
THEOREM SizesCovered == Spec => []SizesAgree
<1>1. Inv => SizesAgree
  BY InvSizesAgree
<1> QED BY <1>1, Invariance, PTL
=============================================================================
