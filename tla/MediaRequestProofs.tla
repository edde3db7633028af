-------------------------- MODULE MediaRequestProofs --------------------------
(***************************************************************************)
(* Artwork requests on any card in which no two games have one artwork     *)
(* file, for any answers of the server, any number of threads and retries; *)
(* and the library of any card, found by the scan from folder to folder.   *)
(***************************************************************************)
EXTENDS MediaRequest, TLAPS, FiniteSetTheorems, SequenceTheorems

(* A set of natural numbers has a least element, which Min returns.        *)
LEMMA MinIsLeast ==
    ASSUME NEW S \in SUBSET Nat, S # {}
    PROVE  Min(S) \in S /\ \A y \in S : Min(S) <= y
<1> DEFINE Less == {ss \in Nat \X Nat : ss[1] < ss[2]}
<1>1. IsWellFoundedOn(Less, Nat)
  BY NatLessThanWellFounded DEF OpToRel
<1> HIDE DEF Less
<1>2. PICK x \in S : \A y \in S : ~(<<y, x>> \in Less)
  BY <1>1, WFMin
<1>3. ASSUME NEW y \in S PROVE x <= y
  <2>1. <<y, x>> \in Less <=> y < x
    BY DEF Less
  <2>2. x \in Nat /\ y \in Nat
    OBVIOUS
  <2> QED
    BY ONLY <1>2, <2>1, <2>2, y \in S
<1> QED
  BY <1>3 DEF Min

-----------------------------------------------------------------------------
(* resolve_media.                                                          *)

\* What the server may answer.
IsAnswer(medias) == IsSequence(medias) /\ \A k \in DOMAIN medias : medias[k] # NoMedia

(* The places of a list are numbered from one.                             *)
LEMMA SequenceDomain ==
    ASSUME NEW s, IsSequence(s)
    PROVE  Len(s) \in Nat /\ DOMAIN s = 1..Len(s)
BY LenProperties DEF IsSequence

(* The media of a type, from the best region there is.                     *)
LEMMA FirstInRegion ==
    ASSUME NEW medias, IsAnswer(medias), NEW t \in DOMAIN Types,
           NEW r \in DOMAIN Regions, InRegion(medias, t, r) # {}
    PROVE  \E q \in DOMAIN Regions, k \in DOMAIN medias :
              /\ FirstOfType(medias, t) = medias[k] /\ k \in InRegion(medias, t, q)
              /\ \A u \in DOMAIN Regions : InRegion(medias, t, u) # {} => q <= u
<1> DEFINE regions == {q \in DOMAIN Regions : InRegion(medias, t, q) # {}}
<1>1. /\ regions \subseteq Nat /\ regions # {} /\ r \in regions
  BY SequenceDomain, PrioritiesAssumption
<1>2. PICK q \in regions : q = Min(regions) /\ \A u \in regions : q <= u
  BY <1>1, MinIsLeast
<1>3. /\ InRegion(medias, t, q) # {} /\ InRegion(medias, t, q) \subseteq DOMAIN medias
      /\ DOMAIN medias \subseteq Nat
  <2>1. DOMAIN medias \subseteq Nat
    BY SequenceDomain DEF IsAnswer
  <2>2. InRegion(medias, t, q) \subseteq DOMAIN medias
    BY DEF InRegion, OfType
  <2> QED
    BY <1>2, <2>1, <2>2
<1>4. FirstOfType(medias, t) = medias[Min(InRegion(medias, t, q))]
  BY <1>1, <1>2 DEF FirstOfType
<1> QED
  BY <1>2, <1>3, <1>4, MinIsLeast

(* Without one in a listed region, it is the first if that has a url.      *)
LEMMA FirstAnywhere ==
    ASSUME NEW medias, IsAnswer(medias), NEW t \in DOMAIN Types,
           \A r \in DOMAIN Regions : InRegion(medias, t, r) = {},
           FirstOfType(medias, t) # NoMedia
    PROVE  \E k \in DOMAIN medias :
              /\ FirstOfType(medias, t) = medias[k]
              /\ medias[k].type = Types[t] /\ medias[k].url # NoUrl
              /\ \A j \in DOMAIN medias : j < k => medias[j].type # Types[t]
<1> DEFINE k == Min(OfType(medias, t))
<1>1. {r \in DOMAIN Regions : InRegion(medias, t, r) # {}} = {}
  OBVIOUS
<1>2. FirstOfType(medias, t) = IF OfType(medias, t) # {} /\ medias[k].url # NoUrl
                               THEN medias[k] ELSE NoMedia
  BY <1>1 DEF FirstOfType
<1>3. OfType(medias, t) \subseteq Nat
  BY SequenceDomain DEF OfType, IsAnswer
<1>4. OfType(medias, t) # {} =>
         k \in OfType(medias, t) /\ \A j \in OfType(medias, t) : k <= j
  BY <1>3, MinIsLeast
<1>5. OfType(medias, t) # {} /\ medias[k].url # NoUrl
  BY <1>2
<1>6. ASSUME NEW j \in DOMAIN medias, j < k PROVE medias[j].type # Types[t]
  <2>1. j \in Nat /\ k \in Nat
    BY <1>3, <1>4, <1>5, SequenceDomain DEF IsAnswer
  <2> HIDE DEF k
  <2> QED
    BY <1>4, <1>5, <1>6, <2>1 DEF OfType
<1> QED
  BY <1>2, <1>4, <1>5, <1>6 DEF OfType

(* The first type with a media is taken.                                   *)
LEMMA ResolveIsFirst ==
    ASSUME NEW medias, IsAnswer(medias),
           NEW t \in DOMAIN Types, FirstOfType(medias, t) # NoMedia
    PROVE  \E i \in DOMAIN Types :
              /\ i <= t /\ ResolveMedia(medias) = FirstOfType(medias, i)
              /\ FirstOfType(medias, i) # NoMedia
              /\ \A u \in DOMAIN Types : FirstOfType(medias, u) # NoMedia => i <= u
<1> DEFINE found == {i \in DOMAIN Types : FirstOfType(medias, i) # NoMedia}
<1>1. found \subseteq Nat /\ found # {} /\ t \in found
  BY SequenceDomain, PrioritiesAssumption
<1>2. Min(found) \in found /\ \A u \in found : Min(found) <= u
  BY <1>1, MinIsLeast
<1>3. ResolveMedia(medias) = FirstOfType(medias, Min(found))
  BY <1>1 DEF ResolveMedia
<1> QED
  BY <1>1, <1>2, <1>3

(* A media of a listed region keeps the search from failing.               *)
LEMMA ListedIsFound ==
    ASSUME NEW medias, IsAnswer(medias), NEW k \in DOMAIN medias,
           medias[k].url # NoUrl,
           NEW t \in DOMAIN Types, Types[t] = medias[k].type,
           \E r \in DOMAIN Regions : Regions[r] = medias[k].region
    PROVE  \E r \in DOMAIN Regions :
              /\ r = Min({i \in DOMAIN Regions : Regions[i] = medias[k].region})
              /\ InRegion(medias, t, r) # {}
              /\ FirstOfType(medias, t) # NoMedia
<1> DEFINE places == {i \in DOMAIN Regions : Regions[i] = medias[k].region}
<1>1. places \subseteq Nat /\ places # {}
  BY SequenceDomain, PrioritiesAssumption
<1>2. PICK r \in places : r = Min(places)
  BY <1>1, MinIsLeast
<1>3. k \in InRegion(medias, t, r)
  BY <1>2 DEF InRegion, OfType
<1>4. FirstOfType(medias, t) # NoMedia
  BY <1>2, <1>3, FirstInRegion DEF IsAnswer
<1> QED
  BY <1>2, <1>3, <1>4

(* So does the first of its type, of whatever region.                      *)
LEMMA FirstIsFound ==
    ASSUME NEW medias, IsAnswer(medias), NEW k \in DOMAIN medias,
           medias[k].url # NoUrl,
           NEW t \in DOMAIN Types, Types[t] = medias[k].type,
           \A j \in DOMAIN medias : j < k => medias[j].type # medias[k].type
    PROVE  FirstOfType(medias, t) # NoMedia
<1>1. CASE \E r \in DOMAIN Regions : InRegion(medias, t, r) # {}
  BY <1>1, FirstInRegion DEF IsAnswer
<1>2. CASE ~\E r \in DOMAIN Regions : InRegion(medias, t, r) # {}
  <2> DEFINE first == Min(OfType(medias, t))
  <2>1. k \in OfType(medias, t) /\ OfType(medias, t) \subseteq Nat
    BY SequenceDomain DEF OfType, IsAnswer
  <2>2. first \in OfType(medias, t) /\ first <= k
    BY <2>1, MinIsLeast
  <2>3. first = k
    <3>1. first \in DOMAIN medias /\ medias[first].type = medias[k].type
      BY <2>2 DEF OfType
    <3>2. ~(first < k)
      BY <3>1
    <3>3. first \in Nat /\ k \in Nat
      BY <2>1, <2>2
    <3> HIDE DEF first
    <3> QED
      BY <2>2, <3>2, <3>3
  <2>4. {r \in DOMAIN Regions : InRegion(medias, t, r) # {}} = {}
    BY <1>2
  <2>5. FirstOfType(medias, t) = medias[k]
    BY <2>1, <2>3, <2>4 DEF FirstOfType
  <2> QED
    BY <2>5 DEF IsAnswer
<1> QED
  BY <1>1, <1>2

(* A usable media keeps the search from failing, and its rank says where   *)
(* its type and its region stand.                                          *)
LEMMA UsableIsFound ==
    ASSUME NEW medias, IsAnswer(medias), NEW m \in Usable(medias)
    PROVE  \E t \in DOMAIN Types, place \in 0..Len(Regions) :
              /\ Rank(m) = (Len(Regions) + 1) * t + place
              /\ FirstOfType(medias, t) # NoMedia
              /\ place # Len(Regions) => InRegion(medias, t, place + 1) # {}
<1> DEFINE types == {i \in DOMAIN Types : Types[i] = m.type}
           places == {i \in DOMAIN Regions : Regions[i] = m.region}
<1>1. PICK k \in DOMAIN medias :
         /\ m = medias[k] /\ medias[k].url # NoUrl /\ types # {}
         /\ \/ places # {}
            \/ \A j \in DOMAIN medias : j < k => medias[j].type # medias[k].type
  BY DEF Usable
<1>2. types \subseteq Nat
  BY SequenceDomain, PrioritiesAssumption
<1>3. PICK t \in types : t = Min(types)
  BY <1>1, <1>2, MinIsLeast
<1>4. Len(Regions) \in Nat /\ DOMAIN Regions = 1..Len(Regions)
  BY SequenceDomain, PrioritiesAssumption
<1>5. CASE places # {}
  <2>1. PICK r \in DOMAIN Regions :
           /\ r = Min(places) /\ InRegion(medias, t, r) # {}
           /\ FirstOfType(medias, t) # NoMedia
    <3>1. /\ k \in DOMAIN medias /\ t \in DOMAIN Types /\ medias[k].type = Types[t]
          /\ medias[k].url # NoUrl
          /\ places = {i \in DOMAIN Regions : Regions[i] = medias[k].region}
      BY <1>1, <1>3
    <3> HIDE DEF places
    <3> QED
      BY <1>5, <3>1, ListedIsFound
  <2>2. Rank(m) = (Len(Regions) + 1) * t + (r - 1)
    BY <1>3, <1>5, <2>1 DEF Rank
  <2>3. r - 1 \in 0..Len(Regions) /\ (r - 1) + 1 = r
    BY <1>4, <2>1
  <2> QED
    BY <1>3, <2>1, <2>2, <2>3
<1>6. CASE places = {}
  <2>1. FirstOfType(medias, t) # NoMedia
    BY <1>1, <1>3, <1>6, FirstIsFound
  <2>2. Rank(m) = (Len(Regions) + 1) * t + Len(Regions)
    BY <1>3, <1>6 DEF Rank
  <2>3. PICK place \in 0..Len(Regions) : place = Len(Regions)
    <3> DEFINE limit == Len(Regions)
    <3>1. limit \in Nat
      BY <1>4
    <3> HIDE DEF limit
    <3>2. limit \in 0..limit
      BY <3>1
    <3> QED
      BY <3>2 DEF limit
  <2>4. t \in DOMAIN Types
    BY <1>3
  <2> QED
    BY <2>1, <2>2, <2>3, <2>4
<1> QED
  BY <1>5, <1>6

(* A better type counts more than any region.                              *)
LEMMA Scaled ==
    ASSUME NEW n \in Nat, NEW i \in Nat, NEW k \in Nat, i <= k
    PROVE  (n + 1) * i <= (n + 1) * k
OBVIOUS

(* What was chosen is the best of what the server has.                     *)
LEMMA ChosenIsBest ==
    ASSUME NEW medias, IsAnswer(medias), ResolveMedia(medias) # NoMedia
    PROVE  /\ IsBest(ResolveMedia(medias), medias)
           /\ \E k \in DOMAIN medias : ResolveMedia(medias) = medias[k]
<1> DEFINE best == ResolveMedia(medias)
           limit == Len(Regions)
<1>0. limit \in Nat /\ DOMAIN Regions = 1..limit /\ DOMAIN Types \subseteq Nat
  BY SequenceDomain, PrioritiesAssumption
<1>1. \E t \in DOMAIN Types : FirstOfType(medias, t) # NoMedia
  BY DEF ResolveMedia
<1>2. PICK t \in DOMAIN Types :
         /\ best = FirstOfType(medias, t) /\ FirstOfType(medias, t) # NoMedia
         /\ \A u \in DOMAIN Types : FirstOfType(medias, u) # NoMedia => t <= u
  BY <1>1, ResolveIsFirst
<1>3. \E k \in DOMAIN medias :
          /\ best = medias[k] /\ best.type = Types[t] /\ best.url # NoUrl
          /\ \/ \E r \in DOMAIN Regions : Regions[r] = best.region
             \/ \A j \in DOMAIN medias : j < k => medias[j].type # Types[t]
          /\ (\E r \in DOMAIN Regions : InRegion(medias, t, r) # {}) =>
                \E q \in DOMAIN Regions :
                    /\ best.region = Regions[q]
                    /\ \A r \in DOMAIN Regions : InRegion(medias, t, r) # {} => q <= r
  <2>1. CASE \E r \in DOMAIN Regions : InRegion(medias, t, r) # {}
    BY <1>2, <2>1, FirstInRegion DEF InRegion, OfType
  <2>2. CASE ~\E r \in DOMAIN Regions : InRegion(medias, t, r) # {}
    BY <1>2, <2>2, FirstAnywhere
  <2> QED
    BY <2>1, <2>2
<1>4. /\ Rank(best) \in Int /\ Rank(best) <= (limit + 1) * t + limit
      /\ \A q \in DOMAIN Regions :
            best.region = Regions[q] => Rank(best) <= (limit + 1) * t + q - 1
  <2> DEFINE types == {i \in DOMAIN Types : Types[i] = best.type}
             places == {i \in DOMAIN Regions : Regions[i] = best.region}
  <2>1. /\ types \subseteq Nat /\ t \in types
        /\ places \subseteq 1..limit /\ places \subseteq Nat
    BY <1>0, <1>3
  <2>2. PICK i \in types : i = Min(types) /\ i <= t
    BY <2>1, MinIsLeast
  <2>3. (limit + 1) * i <= (limit + 1) * t
    BY <1>0, <2>1, <2>2, Scaled
  <2>4. (limit + 1) * i \in Int /\ (limit + 1) * t \in Int
    BY <1>0, <2>1, <2>2
  <2>5. CASE places = {}
    <3>1. Rank(best) = (limit + 1) * i + limit
      BY <2>2, <2>5 DEF Rank
    <3> QED
      BY ONLY <1>0, <2>3, <2>4, <2>5, <3>1
  <2>6. CASE places # {}
    <3>1. PICK j \in places : j = Min(places) /\ \A q \in places : j <= q
      BY <2>1, <2>6, MinIsLeast
    <3>2. Rank(best) = (limit + 1) * i + (j - 1)
      BY <2>2, <2>6, <3>1 DEF Rank
    <3>3. j \in 1..limit
      BY <2>1
    <3>4. Rank(best) \in Int /\ Rank(best) <= (limit + 1) * t + limit
      BY ONLY <1>0, <2>3, <2>4, <3>2, <3>3
    <3>5. ASSUME NEW q \in DOMAIN Regions, best.region = Regions[q]
          PROVE  Rank(best) <= (limit + 1) * t + q - 1
      <4>1. j <= q /\ q \in Nat
        BY <1>0, <3>1, <3>5
      <4> QED
        BY ONLY <1>0, <2>3, <2>4, <3>2, <3>3, <4>1
    <3> QED
      BY <3>4, <3>5
  <2> QED
    BY <2>5, <2>6
<1>6. ASSUME NEW m \in Usable(medias) PROVE Rank(best) <= Rank(m)
  <2>1. PICK i \in DOMAIN Types, place \in 0..limit :
           /\ Rank(m) = (limit + 1) * i + place /\ t <= i
           /\ place # limit => InRegion(medias, i, place + 1) # {}
    BY <1>2, UsableIsFound
  <2>0. i \in Nat /\ t \in Nat /\ place \in Int
    <3> HIDE DEF limit
    <3> QED
      BY <1>0, <2>1
  <2>2. CASE i = t /\ place # limit
    <3>1. place + 1 \in DOMAIN Regions
      <4> HIDE DEF limit
      <4> QED
        BY <1>0, <2>0, <2>1, <2>2
    <3>2. PICK q \in DOMAIN Regions : best.region = Regions[q] /\ q <= place + 1
      BY <1>3, <2>1, <2>2, <3>1
    <3>3. Rank(best) <= (limit + 1) * t + q - 1
      BY <1>4, <3>2
    <3> DEFINE base == (limit + 1) * t
    <3>4. base \in Int
      BY <1>0
    <3>5. Rank(best) <= base + q - 1 /\ Rank(m) = base + place /\ q \in Nat
      <4>1. q \in 1..limit
        BY <1>0, <3>2
      <4> HIDE DEF limit, best
      <4> QED
        BY <1>0, <2>1, <2>2, <3>3, <4>1
    <3>6. Rank(best) \in Int /\ q <= place + 1
      BY <1>4, <3>2
    <3> HIDE DEF base, best, limit
    <3> QED
      BY ONLY <2>0, <3>4, <3>5, <3>6
  <2>3. CASE i = t /\ place = limit
    <3> HIDE DEF limit, best
    <3> QED
      BY <1>4, <2>1, <2>3
  <2>4. CASE i # t
    <3>1. i \in Nat /\ t \in Nat /\ t + 1 <= i
      BY <2>0, <2>1, <2>4
    <3>2. (limit + 1) * (t + 1) <= (limit + 1) * i
      BY <1>0, <3>1, Scaled
    <3>3. (limit + 1) * (t + 1) = (limit + 1) * t + limit + 1
      BY <1>0, <3>1
    <3> DEFINE lower == (limit + 1) * t
               upper == (limit + 1) * i
    <3>4. lower \in Int /\ upper \in Int
      BY <1>0, <3>1
    <3>5. lower + limit + 1 <= upper
      BY ONLY <3>2, <3>3
    <3>6. Rank(best) <= lower + limit /\ Rank(m) = upper + place
      BY <1>4, <2>1
    <3> HIDE DEF lower, upper, best, limit
    <3>7. limit \in Nat /\ place \in 0..limit /\ Rank(best) \in Int
      BY ONLY <1>0, <1>4, <2>1
    <3> QED
      BY ONLY <3>4, <3>5, <3>6, <3>7
  <2> QED
    BY <2>2, <2>3, <2>4
<1>7. best \in Usable(medias)
  BY <1>3 DEF Usable
<1> QED
  BY <1>3, <1>6, <1>7 DEF IsBest

(* Nothing is chosen only if nothing usable is there.                      *)
LEMMA NothingIsMissed ==
    ASSUME NEW medias, IsAnswer(medias), ResolveMedia(medias) = NoMedia
    PROVE  Usable(medias) = {}
<1> SUFFICES ASSUME NEW m \in Usable(medias) PROVE FALSE
  OBVIOUS
<1>1. PICK t \in DOMAIN Types : FirstOfType(medias, t) # NoMedia
  BY UsableIsFound
<1> QED
  BY <1>1, ResolveIsFirst

-----------------------------------------------------------------------------
(* The scan of a console folder.                                           *)

(* Counting from zero reaches every number.                                *)
LEMMA NatSets ==
    ASSUME NEW S, 0 \in S, \A n \in Nat : n \in S => n + 1 \in S PROVE Nat \subseteq S
<1> SUFFICES ASSUME Nat \ S # {} PROVE FALSE
  OBVIOUS
<1>1. PICK m \in Nat \ S : \A k \in Nat \ S : ~(<<k, m>> \in OpToRel(<, Nat))
  BY NatLessThanWellFounded, WFMin
<1>2. m \in Nat /\ m # 0
  OBVIOUS
<1>3. m - 1 \in Nat /\ (m - 1) + 1 = m
  BY <1>2
<1>4. m - 1 \in Nat \ S
  BY <1>1, <1>3
<1>5. <<m - 1, m>> \in OpToRel(<, Nat)
  BY <1>2, <1>3 DEF OpToRel
<1> QED
  BY <1>1, <1>4, <1>5

(* The beginnings of a path.                                               *)
LEMMA Beginnings ==
    ASSUME NEW C, NEW p \in Seq(C), NEW k \in 1..Len(p)
    PROVE  /\ SubSeq(p, 1, k) \in Seq(C) /\ Len(SubSeq(p, 1, k)) = k
           /\ \A i \in 1..k : SubSeq(p, 1, k)[i] = p[i]
           /\ \A i \in 1..k : SubSeq(SubSeq(p, 1, k), 1, i) = SubSeq(p, 1, i)
           /\ k < Len(p) => /\ p[k + 1] \in C
                            /\ SubSeq(p, 1, k + 1) = Append(SubSeq(p, 1, k), p[k + 1])
<1>0. Len(p) \in Nat /\ k \in Nat
  BY LenProperties
<1>1. \A i \in 1..k : p[i] \in C
  BY <1>0, ElementOfSeq
<1>2. /\ SubSeq(p, 1, k) \in Seq(C) /\ Len(SubSeq(p, 1, k)) = k
      /\ \A i \in 1..k : SubSeq(p, 1, k)[i] = p[i]
  BY <1>0, <1>1, SubSeqProperties
<1>3. ASSUME NEW i \in 1..k PROVE SubSeq(SubSeq(p, 1, k), 1, i) = SubSeq(p, 1, i)
  <2>1. /\ 1 \in 1..Len(p) /\ k \in 1..Len(p) /\ 1 \in 1..(k - 1 + 1) /\ i \in 1..(k - 1 + 1)
        /\ 1 + 1 - 1 = 1 /\ 1 + i - 1 = i
    BY <1>0
  <2> QED
    BY <2>1, SubSeqOfSubSeq
<1>4. ASSUME k < Len(p) PROVE p[k + 1] \in C
  <2>1. k + 1 \in 1..Len(p)
    BY <1>0, <1>4
  <2> QED
    BY <2>1, ElementOfSeq
<1>5. ASSUME k < Len(p)
      PROVE SubSeq(p, 1, k + 1) = Append(SubSeq(p, 1, k), p[k + 1])
  <2>1. 1 \in 1..Len(p) /\ k + 1 \in 1..Len(p) /\ (k + 1) - 1 = k
    BY <1>0, <1>5
  <2>2. SubSeq(p, 1, k + 1) = SubSeq(p, 1, k) \o <<p[k + 1]>>
    BY <2>1, SubSeqRecursiveSecond
  <2> QED
    BY <1>2, <1>4, <1>5, <2>2, AppendIsConcat
<1> QED
  BY <1>2, <1>3, <1>4, <1>5

\* The names on a card.
PartsOn(tree) == UNION {{path[n] : n \in DOMAIN path} : path \in DOMAIN tree}

(* The entries of a card are paths, and what is below a folder is there.   *)
LEMMA CardPaths ==
    ASSUME NEW tree, IsCard(tree)
    PROVE  /\ \A p \in DOMAIN tree :
                  /\ p \in Seq(PartsOn(tree)) /\ Len(p) \in Nat \ {0}
                  /\ NameOf(p) \in PartsOn(tree)
           /\ \A name \in PartsOn(tree) : IsSequence(name) /\ name \notin {<<>>, <<"">>}
<1>1. ASSUME NEW p \in DOMAIN tree
      PROVE  /\ p \in Seq(PartsOn(tree)) /\ Len(p) \in Nat \ {0}
             /\ \A n \in DOMAIN p : p[n] \in PartsOn(tree)
             /\ DOMAIN p = 1..Len(p)
  <2>1. p \in Seq({p[n] : n \in DOMAIN p}) /\ Len(p) > 0
    BY DEF IsCard, IsSequence
  <2>2. {p[n] : n \in DOMAIN p} \subseteq PartsOn(tree)
    BY DEF PartsOn
  <2> QED
    BY <2>1, <2>2, SeqMonotonic, LenProperties
<1>2. \A p \in DOMAIN tree : NameOf(p) \in PartsOn(tree)
  BY <1>1 DEF NameOf
<1>3. \A p \in DOMAIN tree : \A n \in DOMAIN p : IsSequence(p[n]) /\ p[n] \notin {<<>>, <<"">>}
  BY <1>1 DEF IsCard
<1>4. \A name \in PartsOn(tree) : IsSequence(name) /\ name \notin {<<>>, <<"">>}
  <2> SUFFICES ASSUME NEW name \in PartsOn(tree)
               PROVE  IsSequence(name) /\ name \notin {<<>>, <<"">>}
    OBVIOUS
  <2>1. PICK p \in DOMAIN tree : name \in {p[n] : n \in DOMAIN p}
    BY DEF PartsOn
  <2>2. PICK n \in DOMAIN p : name = p[n]
    BY <2>1
  <2> QED
    BY <1>3, <2>2
<1> QED
  BY <1>1, <1>2, <1>4

(* A name is in a folder when its path is on the card.                     *)
LEMMA ChildIsEntry ==
    ASSUME NEW tree, IsCard(tree), NEW dir \in DOMAIN tree, NEW name
    PROVE  name \in Children(tree, dir) <=>
               name \in PartsOn(tree) /\ Append(dir, name) \in DOMAIN tree
<1> DEFINE C == PartsOn(tree)
<1>0. dir \in Seq(C) /\ Len(dir) \in Nat \ {0}
  BY CardPaths
<1> HIDE DEF C
<1>1. ASSUME name \in Children(tree, dir)
      PROVE name \in C /\ Append(dir, name) \in DOMAIN tree
  <2>1. PICK p \in DOMAIN tree : Front(p) = dir /\ NameOf(p) = name
    BY <1>1 DEF Children
  <2>2. p \in Seq(C) /\ Len(p) \in Nat \ {0} /\ p[Len(p)] = name /\ name \in C
    BY <2>1, CardPaths DEF NameOf, C
  <2>3. SubSeq(p, 1, Len(p) - 1) = dir
    BY <2>1 DEF Front
  <2>4. Len(p) # 1
    <3> SUFFICES ASSUME Len(p) = 1 PROVE FALSE
      OBVIOUS
    <3>1. SubSeq(p, 1, 0) = <<>>
      BY SubSeqEmpty
    <3> QED
      BY <1>0, <2>3, <3>1
  <2> DEFINE k == Len(p) - 1
  <2>5. k \in 1..Len(p) /\ k + 1 = Len(p) /\ k < Len(p)
    <3>1. Len(p) \in Nat /\ Len(p) # 0
      BY <2>2
    <3> QED
      BY ONLY <2>4, <3>1
  <2>6. SubSeq(p, 1, k) = dir /\ p[k + 1] = name
    BY <2>2, <2>3, <2>5
  <2> HIDE DEF k
  <2>7. SubSeq(p, 1, Len(p)) = Append(dir, name)
    BY <2>2, <2>5, <2>6, Beginnings
  <2> QED
    BY <2>1, <2>2, <2>7, SubSeqFull
<1>2. ASSUME name \in C, Append(dir, name) \in DOMAIN tree
      PROVE  name \in Children(tree, dir)
  <2> DEFINE p == Append(dir, name)
  <2>1. /\ p \in Seq(C) /\ Len(p) = Len(dir) + 1 /\ p[Len(p)] = name
        /\ \A i \in 1..Len(dir) : p[i] = dir[i]
    BY <1>0, <1>2, AppendProperties
  <2>2. Len(dir) \in 1..Len(p) /\ Len(p) - 1 = Len(dir)
    BY <1>0, <2>1
  <2> HIDE DEF p
  <2>3. Front(p) = dir
    <3>1. /\ Front(p) \in Seq(C) /\ Len(Front(p)) = Len(dir)
          /\ \A i \in 1..Len(dir) : Front(p)[i] = dir[i]
      BY <2>1, <2>2, Beginnings DEF Front
    <3> QED
      BY <1>0, <3>1, SeqEqual
  <2>4. p \in DOMAIN tree /\ Len(p) > 0
    BY <1>0, <1>2, <2>1 DEF p
  <2> QED
    BY <2>1, <2>3, <2>4 DEF Children, NameOf
<1> QED
  BY <1>1, <1>2 DEF C

\* The games below a folder: no step on the way is left out of the listing
\* or is a game itself.
IsDisc(tree, p) == IsMultiDisc(tree, p) \/ IsCueFolder(tree, p)
IsGame(tree, p) ==
    IsDisc(tree, p) \/ (tree[p] = "file" /\ ~IsNonGame(Base(NameOf(p))))
Below(tree, dir, show) ==
    {p \in DOMAIN tree :
        /\ Len(p) > Len(dir) /\ SubSeq(p, 1, Len(dir)) = dir
        /\ \A n \in (Len(dir) + 1)..Len(p) : Listed(p[n], show)
        /\ \A n \in (Len(dir) + 1)..(Len(p) - 1) : ~IsDisc(tree, SubSeq(p, 1, n))
        /\ IsGame(tree, p)}
RowOf(tree, p) ==
    Row(tree, p, IF IsDisc(tree, p) THEN Base(NameOf(p)) ELSE StripExtension(Base(NameOf(p))))
\* What is below the entry name of a folder.
BelowEntry(tree, path, show) ==
    IF ~IsDisc(tree, path) /\ tree[path] = "dir" THEN Below(tree, path, show)
    ELSE IF IsGame(tree, path) THEN {path} ELSE {}

(* A game below a folder is an entry of it, or below one that is a folder. *)
LEMMA BelowIsBelowEntry ==
    ASSUME NEW tree, IsCard(tree), NEW show, NEW dir \in DOMAIN tree, NEW p \in Below(tree, dir, show)
    PROVE  \E name \in Children(tree, dir) :
              Listed(name, show) /\ p \in BelowEntry(tree, Append(dir, name), show)
<1> DEFINE C == PartsOn(tree)
           k == Len(dir)
           path == SubSeq(p, 1, k + 1)
<1>0. /\ dir \in Seq(C) /\ p \in Seq(C) /\ k \in Nat /\ k # 0 /\ Len(p) \in Nat
      /\ p \in DOMAIN tree
  BY CardPaths DEF Below
<1>1. k < Len(p) /\ SubSeq(p, 1, k) = dir
  BY DEF Below
<1>2. k \in 1..Len(p) /\ k + 1 \in 1..Len(p)
  BY <1>0, <1>1
<1> HIDE DEF C, k
<1>3. /\ p[k + 1] \in C
      /\ SubSeq(p, 1, k + 1) = Append(SubSeq(p, 1, k), p[k + 1])
  BY <1>0, <1>1, <1>2, Beginnings
<1>4. path = Append(dir, p[k + 1])
  BY <1>1, <1>3
<1>5. Len(path) = k + 1 /\ \A i \in 1..(k + 1) : path[i] = p[i]
  BY <1>0, <1>2, Beginnings
<1>6. Listed(p[k + 1], show)
  BY <1>0, <1>1 DEF Below, k
<1>7. k + 1 = Len(p) => path = p
  BY <1>0, SubSeqFull
<1>8. path \in DOMAIN tree /\ (k + 1 # Len(p) => tree[path] = "dir")
  <2>1. CASE k + 1 = Len(p)
    BY <1>0, <1>7, <2>1
  <2>2. CASE k + 1 # Len(p)
    <3>1. k + 1 \in 1..Len(p) /\ k + 1 < Len(p)
      BY <1>0, <1>2, <2>2
    <3> QED
      BY <1>0, <3>1 DEF IsCard, IsDir, Has
  <2> QED
    BY <2>1, <2>2
<1>9. p \in BelowEntry(tree, path, show)
  <2>1. IsGame(tree, p)
    BY DEF Below
  <2>2. CASE k + 1 = Len(p)
    <3>1. IsDisc(tree, p) \/ tree[p] # "dir"
      BY <2>1 DEF IsGame
    <3> QED
      BY <1>7, <2>1, <2>2, <3>1 DEF BelowEntry
  <2>3. CASE k + 1 # Len(p)
    <3>1. Len(p) > Len(path) /\ k + 1 \in (k + 1)..(Len(p) - 1)
      BY <1>0, <1>1, <1>5, <2>3
    <3>2. ~IsDisc(tree, path)
      BY <3>1 DEF Below, k
    <3>3. SubSeq(p, 1, Len(path)) = path
      BY <1>5
    <3>4. /\ \A n \in (Len(path) + 1)..Len(p) : n \in (k + 1)..Len(p)
          /\ \A n \in (Len(path) + 1)..(Len(p) - 1) : n \in (k + 1)..(Len(p) - 1)
      BY <1>0, <1>5
    <3>5. p \in Below(tree, path, show)
      <4> HIDE DEF path
      <4> QED
        BY <1>0, <2>1, <3>1, <3>3, <3>4 DEF Below, k
    <3> QED
      BY <1>8, <2>3, <3>2, <3>5 DEF BelowEntry
  <2> QED
    BY <2>2, <2>3
<1>10. p[k + 1] \in Children(tree, dir)
  BY <1>3, <1>4, <1>8, ChildIsEntry DEF C
<1> QED
  BY <1>4, <1>6, <1>9, <1>10

(* And what is below an entry of a folder is below the folder.             *)
LEMMA EntryIsBelow ==
    ASSUME NEW tree, IsCard(tree), NEW show, NEW dir \in DOMAIN tree,
           NEW name \in Children(tree, dir), Listed(name, show),
           NEW p \in BelowEntry(tree, Append(dir, name), show)
    PROVE  p \in Below(tree, dir, show)
<1> DEFINE C == PartsOn(tree)
           k == Len(dir)
           path == Append(dir, name)
<1>0. /\ dir \in Seq(C) /\ k \in Nat /\ k # 0
      /\ name \in C /\ path \in DOMAIN tree
  BY CardPaths, ChildIsEntry
<1> HIDE DEF C
<1>1. /\ path \in Seq(C) /\ Len(path) = k + 1 /\ path[k + 1] = name
      /\ \A i \in 1..k : path[i] = dir[i]
  BY <1>0, AppendProperties
<1>2. SubSeq(path, 1, k) = dir
  <2>1. k \in 1..Len(path)
    BY <1>0, <1>1
  <2> HIDE DEF path, k
  <2>2. /\ SubSeq(path, 1, k) \in Seq(C) /\ Len(SubSeq(path, 1, k)) = k
        /\ \A i \in 1..k : SubSeq(path, 1, k)[i] = dir[i]
    BY <1>1, <2>1, Beginnings
  <2> QED
    BY <1>0, <2>2, SeqEqual DEF k
<1>3. CASE ~IsDisc(tree, path) /\ tree[path] = "dir"
  <2>1. p \in Below(tree, path, show)
    BY <1>3 DEF BelowEntry
  <2>2. /\ p \in DOMAIN tree /\ p \in Seq(C) /\ Len(p) \in Nat
        /\ Len(p) > k + 1 /\ SubSeq(p, 1, k + 1) = path
        /\ \A n \in (k + 2)..Len(p) : Listed(p[n], show)
        /\ \A n \in (k + 2)..(Len(p) - 1) : ~IsDisc(tree, SubSeq(p, 1, n))
        /\ IsGame(tree, p)
    <3> HIDE DEF path
    <3>1. (k + 1) + 1 = k + 2
      BY <1>0
    <3>2. Len(path) = k + 1 /\ Len(path) + 1 = k + 2
      BY <1>0, <1>1
    <3>3. p \in DOMAIN tree
      BY <2>1 DEF Below
    <3> HIDE DEF k
    <3> QED
      BY <2>1, <3>2, <3>3, CardPaths DEF Below, C
  <2>3. k + 1 \in 1..Len(p) /\ k \in 1..(k + 1) /\ k + 1 \in 1..(k + 1)
    BY <1>0, <2>2
  <2>4. /\ \A i \in 1..(k + 1) : SubSeq(p, 1, k + 1)[i] = p[i]
        /\ \A i \in 1..(k + 1) : SubSeq(SubSeq(p, 1, k + 1), 1, i) = SubSeq(p, 1, i)
    <3> HIDE DEF k
    <3> QED
      BY <2>2, <2>3, Beginnings
  <2>5. p[k + 1] = name /\ SubSeq(p, 1, k) = dir
    <3> HIDE DEF path, k
    <3> QED
      BY <1>1, <1>2, <2>2, <2>3, <2>4
  <2>6. \A n \in (k + 1)..Len(p) : Listed(p[n], show)
    <3> SUFFICES ASSUME NEW n \in (k + 1)..Len(p) PROVE Listed(p[n], show)
      OBVIOUS
    <3>1. n = k + 1 \/ n \in (k + 2)..Len(p)
      BY <1>0, <2>2
    <3> QED
      BY <2>2, <2>5, <3>1
  <2>7. \A n \in (k + 1)..(Len(p) - 1) : ~IsDisc(tree, SubSeq(p, 1, n))
    <3> SUFFICES ASSUME NEW n \in (k + 1)..(Len(p) - 1) PROVE ~IsDisc(tree, SubSeq(p, 1, n))
      OBVIOUS
    <3>1. n = k + 1 \/ n \in (k + 2)..(Len(p) - 1)
      BY <1>0, <2>2
    <3> HIDE DEF path
    <3> QED
      BY <1>3, <2>2, <3>1
  <2>8. Len(p) > k
    BY <1>0, <2>2
  <2> QED
    BY <2>2, <2>5, <2>6, <2>7, <2>8 DEF Below
<1>4. CASE IsDisc(tree, path) \/ tree[path] # "dir"
  <2>1. p = path /\ IsGame(tree, path)
    BY <1>4 DEF BelowEntry
  <2>2. \A n \in (k + 1)..Len(path) : n = k + 1
    BY <1>0, <1>1
  <2>3. (k + 1)..(Len(path) - 1) = {}
    BY <1>0, <1>1
  <2>4. Len(path) > k
    BY <1>0, <1>1
  <2> HIDE DEF path
  <2> QED
    BY <1>0, <1>1, <1>2, <2>1, <2>2, <2>3, <2>4 DEF Below
<1> QED
  BY <1>3, <1>4

\* scan_roms_internal, with what it returns for the folders of a folder.
Folders(tree) == {p \in DOMAIN tree : IsDir(tree, p)}
RowsBelow(tree, dir, show) == {RowOf(tree, p) : p \in Below(tree, dir, show)}
ScanEntry(tree, rows, path, name) ==
    IF IsMultiDisc(tree, path) \/ IsCueFolder(tree, path)
       THEN {Row(tree, path, Base(name))}
    ELSE IF tree[path] = "dir" THEN rows[path]
    ELSE IF tree[path] = "broken" \/ IsNonGame(Base(name)) THEN {}
    ELSE {Row(tree, path, StripExtension(Base(name)))}
ScanFolder(tree, rows, dir, show) ==
    UNION {ScanEntry(tree, rows, Append(dir, name), name) :
              name \in {x \in Children(tree, dir) : Listed(x, show)}}

(* One call lists what is below an entry of its folder.                    *)
LEMMA EntryIsScanned ==
    ASSUME NEW tree, IsCard(tree), NEW show, NEW rows, NEW dir \in Folders(tree),
           NEW name \in Children(tree, dir),
           LET path == Append(dir, name)
           IN path \in Folders(tree) => rows[path] = RowsBelow(tree, path, show)
    PROVE  ScanEntry(tree, rows, Append(dir, name), name) =
               {RowOf(tree, p) : p \in BelowEntry(tree, Append(dir, name), show)}
<1> DEFINE path == Append(dir, name)
<1>0. /\ dir \in DOMAIN tree /\ dir \in Seq(PartsOn(tree)) /\ Len(dir) \in Nat
      /\ name \in PartsOn(tree) /\ path \in DOMAIN tree
  BY CardPaths, ChildIsEntry DEF Folders
<1>1. NameOf(path) = name
  <2>1. Len(path) = Len(dir) + 1 /\ path[Len(dir) + 1] = name
    BY <1>0, AppendProperties
  <2> QED
    BY <2>1 DEF NameOf
<1>2. tree[path] \in {"file", "dir", "broken"}
  BY <1>0 DEF IsCard
<1> HIDE DEF path
<1>3. CASE IsDisc(tree, path)
  <2>1. BelowEntry(tree, path, show) = {path}
    BY <1>3 DEF BelowEntry, IsGame
  <2>2. RowOf(tree, path) = Row(tree, path, Base(name))
    BY <1>1, <1>3 DEF RowOf
  <2>3. ScanEntry(tree, rows, path, name) = {Row(tree, path, Base(name))}
    BY <1>3 DEF ScanEntry, IsDisc
  <2> QED
    BY <2>1, <2>2, <2>3 DEF path
<1>4. CASE ~IsDisc(tree, path) /\ tree[path] = "dir"
  <2>1. path \in Folders(tree)
    BY <1>0, <1>4 DEF Folders, IsDir, Has
  <2>2. ScanEntry(tree, rows, path, name) = rows[path]
    BY <1>4 DEF ScanEntry, IsDisc
  <2>3. BelowEntry(tree, path, show) = Below(tree, path, show)
    BY <1>4 DEF BelowEntry
  <2> QED
    BY <2>1, <2>2, <2>3 DEF RowsBelow, path
<1>5. CASE ~IsDisc(tree, path) /\ tree[path] # "dir" /\ IsGame(tree, path)
  <2>1. BelowEntry(tree, path, show) = {path}
    BY <1>5 DEF BelowEntry
  <2>2. RowOf(tree, path) = Row(tree, path, StripExtension(Base(name)))
    BY <1>1, <1>5 DEF RowOf
  <2>3. ScanEntry(tree, rows, path, name) = {Row(tree, path, StripExtension(Base(name)))}
    BY <1>1, <1>5 DEF ScanEntry, IsDisc, IsGame
  <2> QED
    BY <2>1, <2>2, <2>3 DEF path
<1>6. CASE ~IsDisc(tree, path) /\ tree[path] # "dir" /\ ~IsGame(tree, path)
  <2>1. BelowEntry(tree, path, show) = {}
    BY <1>6 DEF BelowEntry
  <2>2. ScanEntry(tree, rows, path, name) = {}
    BY <1>1, <1>2, <1>6 DEF ScanEntry, IsDisc, IsGame
  <2> QED
    BY <2>1, <2>2 DEF path
<1> QED
  BY <1>3, <1>4, <1>5, <1>6

(* And so what is below its folder, if it does for the folders in it.      *)
LEMMA FolderIsScanned ==
    ASSUME NEW tree, IsCard(tree), NEW show, NEW rows, NEW dir \in Folders(tree),
           \A name \in Children(tree, dir) :
               LET path == Append(dir, name)
               IN path \in Folders(tree) => rows[path] = RowsBelow(tree, path, show)
    PROVE  ScanFolder(tree, rows, dir, show) = RowsBelow(tree, dir, show)
<1> DEFINE listed == {x \in Children(tree, dir) : Listed(x, show)}
<1>0. dir \in DOMAIN tree
  BY DEF Folders
<1>1. \A name \in listed : ScanEntry(tree, rows, Append(dir, name), name) =
          {RowOf(tree, p) : p \in BelowEntry(tree, Append(dir, name), show)}
  BY EntryIsScanned
<1>2. \A row \in ScanFolder(tree, rows, dir, show) : row \in RowsBelow(tree, dir, show)
  <2> SUFFICES ASSUME NEW row \in ScanFolder(tree, rows, dir, show)
               PROVE  row \in RowsBelow(tree, dir, show)
    OBVIOUS
  <2>1. PICK name \in listed : row \in ScanEntry(tree, rows, Append(dir, name), name)
    BY DEF ScanFolder
  <2>2. PICK p \in BelowEntry(tree, Append(dir, name), show) : row = RowOf(tree, p)
    BY <1>1, <2>1
  <2>3. p \in Below(tree, dir, show)
    BY <1>0, EntryIsBelow
  <2> QED
    BY <2>2, <2>3 DEF RowsBelow
<1>3. \A row \in RowsBelow(tree, dir, show) : row \in ScanFolder(tree, rows, dir, show)
  <2> SUFFICES ASSUME NEW row \in RowsBelow(tree, dir, show)
               PROVE  row \in ScanFolder(tree, rows, dir, show)
    OBVIOUS
  <2>1. PICK p \in Below(tree, dir, show) : row = RowOf(tree, p)
    BY DEF RowsBelow
  <2>2. PICK name \in listed : p \in BelowEntry(tree, Append(dir, name), show)
    BY <1>0, BelowIsBelowEntry
  <2>3. row \in ScanEntry(tree, rows, Append(dir, name), name)
    BY <1>1, <2>1, <2>2
  <2> QED
    BY <2>3 DEF ScanFolder
<1> QED
  BY <1>2, <1>3

(* The paths of a card are not longer than some number.                    *)
LEMMA DepthIsBounded ==
    ASSUME NEW tree, IsCard(tree)
    PROVE  \E depth \in Nat : \A p \in DOMAIN tree : Len(p) <= depth
<1>1. PICK n \in Nat : ExistsSurjection(1..n, DOMAIN tree)
  BY FS_NatSurjection DEF IsCard
<1>2. PICK f : f \in Surjection(1..n, DOMAIN tree)
  BY <1>1 DEF ExistsSurjection
<1>3. /\ \A i \in 1..n : f[i] \in DOMAIN tree
      /\ \A p \in DOMAIN tree : \E i \in 1..n : f[i] = p
  BY <1>2 DEF Surjection
<1> DEFINE depthOf == [i \in 1..n |-> Len(f[i])]
           S == {k \in Nat : \E depth \in Nat : \A i \in 1..n : i <= k => depthOf[i] <= depth}
<1>4. \A i \in 1..n : depthOf[i] \in Nat
  BY <1>3, CardPaths
<1> HIDE DEF depthOf
<1>5. 0 \in S
  OBVIOUS
<1>6. ASSUME NEW k \in Nat, k \in S PROVE k + 1 \in S
  <2>1. PICK depth \in Nat : \A i \in 1..n : i <= k => depthOf[i] <= depth
    BY <1>6
  <2> DEFINE new == IF k + 1 \in 1..n THEN depthOf[k + 1] ELSE 0
             more == IF new > depth THEN new ELSE depth
  <2>2. new \in Nat
    BY <1>4
  <2>3. more \in Nat /\ more >= depth /\ more >= new
    BY <2>2
  <2>4. ASSUME NEW i \in 1..n, i <= k + 1 PROVE depthOf[i] <= more
    <3>1. CASE i = k + 1
      BY <2>3, <3>1
    <3>2. CASE i <= k
      <4>1. depthOf[i] <= depth /\ depthOf[i] \in Nat
        BY <1>4, <2>1, <3>2
      <4> QED
        BY <2>3, <4>1
    <3> QED
      BY <2>4, <3>1, <3>2
  <2> QED
    BY <2>3, <2>4
<1> HIDE DEF S
<1>7. n \in S
  BY <1>5, <1>6, NatSets
<1>8. PICK depth \in Nat : \A i \in 1..n : i <= n => depthOf[i] <= depth
  BY <1>7 DEF S
<1>9. \A i \in 1..n : Len(f[i]) <= depth
  BY <1>8 DEF depthOf
<1> QED
  BY <1>3, <1>9

(* A scan that goes through all folders lists what is below each.          *)
LEMMA ScanIsUnique ==
    ASSUME NEW tree, IsCard(tree), NEW show, NEW rows,
           \A dir \in Folders(tree) : rows[dir] = ScanFolder(tree, rows, dir, show)
    PROVE  \A dir \in Folders(tree) : rows[dir] = RowsBelow(tree, dir, show)
<1>1. PICK depth \in Nat : \A p \in DOMAIN tree : Len(p) <= depth
  BY DepthIsBounded
<1> DEFINE S == {k \in Nat : \A dir \in Folders(tree) :
                     Len(dir) + k > depth => rows[dir] = RowsBelow(tree, dir, show)}
<1>2. \A dir \in Folders(tree) : Len(dir) \in Nat /\ Len(dir) <= depth /\ dir \in DOMAIN tree
  BY <1>1, CardPaths DEF Folders
<1>3. 0 \in S
  BY <1>2
<1>4. ASSUME NEW k \in Nat, k \in S PROVE k + 1 \in S
  <2> SUFFICES ASSUME NEW dir \in Folders(tree), Len(dir) + (k + 1) > depth
               PROVE  rows[dir] = RowsBelow(tree, dir, show)
    OBVIOUS
  <2>1. ASSUME NEW name \in Children(tree, dir), Append(dir, name) \in Folders(tree)
        PROVE  rows[Append(dir, name)] = RowsBelow(tree, Append(dir, name), show)
    <3>1. dir \in DOMAIN tree /\ dir \in Seq(PartsOn(tree)) /\ name \in PartsOn(tree)
      BY <1>2, CardPaths, ChildIsEntry
    <3>2. Len(Append(dir, name)) = Len(dir) + 1
      BY <3>1, AppendProperties
    <3>3. Len(Append(dir, name)) + k > depth
      BY <1>2, <3>2
    <3> QED
      BY <1>4, <2>1, <3>3
  <2>2. ScanFolder(tree, rows, dir, show) = RowsBelow(tree, dir, show)
    BY <2>1, FolderIsScanned
  <2> QED
    BY <2>2
<1> HIDE DEF S
<1>5. depth + 1 \in S
  BY <1>3, <1>4, NatSets
<1>6. \A dir \in Folders(tree) : Len(dir) + (depth + 1) > depth
  BY <1>2
<1> QED
  BY <1>5, <1>6 DEF S

(* ScanRoms returns the games below the console folder.                    *)
LEMMA ScanFindsGames ==
    ASSUME NEW tree, IsCard(tree), NEW show, NEW dir \in Folders(tree)
    PROVE  ScanRoms(tree, dir, show) = RowsBelow(tree, dir, show)
<1> DEFINE rows == CHOOSE f : f = [d \in Folders(tree) |-> ScanFolder(tree, f, d, show)]
           all == [d \in Folders(tree) |-> RowsBelow(tree, d, show)]
<1>1. \A d \in Folders(tree) : ScanFolder(tree, all, d, show) = RowsBelow(tree, d, show)
  BY FolderIsScanned
<1>2. all = [d \in Folders(tree) |-> ScanFolder(tree, all, d, show)]
  BY <1>1
<1>3. rows = [d \in Folders(tree) |-> ScanFolder(tree, rows, d, show)]
  <2> HIDE DEF all
  <2> QED
    BY <1>2
<1>4. ScanRoms(tree, dir, show) = rows[dir]
  BY Zenon DEF ScanRoms, Folders, ScanFolder, ScanEntry
<1> HIDE DEF rows
<1>5. \A d \in Folders(tree) : rows[d] = ScanFolder(tree, rows, d, show)
  BY <1>3
<1> QED
  BY <1>4, <1>5, ScanIsUnique

(* The console folder is at the top of its card.                           *)
LEMMA ConsoleAtTop ==
    ASSUME NEW c \in DOMAIN Cards
    PROVE  LET dir == Console(c)
           IN dir \in Folders(Cards[c]) /\ Len(dir) = 1 /\ dir = <<NameOf(dir)>>
<1>1. Console(c) \in ScanConsoleDirs(Cards[c], TRUE)
  BY CardsAssumption DEF Console
<1>2. PICK name : Console(c) = <<name>> /\ IsDir(Cards[c], Console(c))
  BY <1>1 DEF ScanConsoleDirs
<1>3. Len(<<name>>) = 1 /\ <<name>>[1] = name
  OBVIOUS
<1> QED
  BY <1>2, <1>3 DEF NameOf, Folders, IsDir, Has

(* What is below it are the games, whatever is shown.                      *)
LEMMA GamesAreBelow ==
    ASSUME NEW c \in DOMAIN Cards
    PROVE  LET tree == Cards[c]
           IN /\ Below(tree, Console(c), TRUE) = GamePaths(c)
              /\ Below(tree, Console(c), FALSE) =
                     {p \in GamePaths(c) : \A n \in 2..Len(p) : ~IsDisabled(p[n])}
<1> DEFINE tree == Cards[c]
           dir == Console(c)
           top == NameOf(dir)
           Way(p) == \A n \in 2..(Len(p) - 1) : ~IsDisc(tree, SubSeq(p, 1, n))
<1>0. IsCard(tree)
  BY CardsAssumption
<1>1. Len(dir) = 1 /\ dir = <<top>>
  BY ConsoleAtTop
<1>2. ASSUME NEW p \in DOMAIN tree
      PROVE  SubSeq(p, 1, Len(dir)) = dir <=> p[1] = top
  <2>1. p \in Seq(PartsOn(tree)) /\ Len(p) \in Nat \ {0} /\ 1 \in 1..Len(p)
    <3> HIDE DEF tree
    <3>1. p \in Seq(PartsOn(tree)) /\ Len(p) \in Nat \ {0}
      BY <1>0, CardPaths
    <3> QED
      BY <3>1
  <2>2. SubSeq(p, 1, 1) = <<p[1]>>
    <3>1. /\ SubSeq(p, 1, 1) \in Seq(PartsOn(tree)) /\ Len(SubSeq(p, 1, 1)) = 1
          /\ SubSeq(p, 1, 1)[1] = p[1]
      BY <2>1, Beginnings
    <3> DEFINE s == SubSeq(p, 1, 1)
    <3> HIDE DEF s
    <3>2. s \in Seq(PartsOn(tree)) /\ Len(s) = 1 => s = <<s[1]>>
      OBVIOUS
    <3> QED
      BY <3>1, <3>2 DEF s
  <2> HIDE DEF dir, top
  <2> QED
    BY <1>1, <2>2
<1>3. ASSUME NEW p \in DOMAIN tree, NEW n \in 1..Len(p)
      PROVE  /\ Listed(p[n], TRUE) <=> p[n][1] # "" /\ p[n] # MapTxt
             /\ Listed(p[n], FALSE) <=> /\ p[n][1] # "" /\ p[n] # MapTxt
                                        /\ ~IsDisabled(p[n])
  <2> DEFINE name == p[n]
  <2>1. IsSequence(name) /\ name \notin {<<>>, <<"">>}
    BY <1>0 DEF IsCard
  <2> HIDE DEF name
  <2>2. ~(Len(name) > 1) => name[1] # ""
    <3>1. name \in Seq({name[i] : i \in DOMAIN name})
      BY <2>1 DEF IsSequence
    <3>2. Len(name) \in Nat /\ (Len(name) = 0 => name = <<>>)
      BY <3>1, LenProperties, EmptySeq
    <3>3. Len(name) = 1 => name = <<name[1]>>
      BY <3>1
    <3>4. name # <<>> /\ name # <<"">>
      BY <2>1
    <3>5. Len(name) # 1 => Len(name) > 1
      <4>1. Len(name) \in Nat /\ Len(name) # 0
        BY ONLY <3>2, <3>4
      <4>2. \A l \in Nat : l = 0 \/ l = 1 \/ l > 1
        OBVIOUS
      <4> QED
        BY <4>1, <4>2
    <3> QED
      BY <3>3, <3>4, <3>5
  <2> QED
    BY <2>2 DEF Listed, IsHidden, Dotted, name
<1>4. ASSUME NEW p \in DOMAIN tree, NEW show
      PROVE  p \in Below(tree, dir, show) <=>
                 /\ Len(p) > 1 /\ p[1] = top
                 /\ \A n \in 2..Len(p) : Listed(p[n], show)
                 /\ Way(p) /\ IsGame(tree, p)
  <2>1. Len(dir) + 1 = 2
    BY <1>1
  <2> HIDE DEF dir, top, tree
  <2> QED
    BY <1>1, <1>2, <2>1 DEF Below
<1>5. ASSUME NEW p \in DOMAIN tree
      PROVE  p \in GamePaths(c) <=>
                 /\ Len(p) > 1 /\ p[1] = top
                 /\ \A n \in 2..Len(p) : p[n][1] # "" /\ p[n] # MapTxt
                 /\ Way(p) /\ IsGame(tree, p)
  BY DEF GamePaths, DiscFolder, IsGame, IsDisc
<1>6. ASSUME NEW p \in DOMAIN tree
      PROVE  /\ p \in Below(tree, dir, TRUE) <=> p \in GamePaths(c)
             /\ p \in Below(tree, dir, FALSE) <=>
                    p \in GamePaths(c) /\ \A n \in 2..Len(p) : ~IsDisabled(p[n])
  <2>1. \A n \in 2..Len(p) : n \in 1..Len(p)
    <3> HIDE DEF tree
    <3>1. Len(p) \in Nat
      BY <1>0, CardPaths
    <3> QED
      BY <3>1
  <2>2. \A n \in 2..Len(p) :
            /\ Listed(p[n], TRUE) <=> p[n][1] # "" /\ p[n] # MapTxt
            /\ Listed(p[n], FALSE) <=> p[n][1] # "" /\ p[n] # MapTxt /\ ~IsDisabled(p[n])
    BY <1>3, <2>1
  <2> HIDE DEF tree, dir, top, Way
  <2> QED
    BY <1>4, <1>5, <2>2
<1>7. Below(tree, dir, TRUE) \subseteq DOMAIN tree /\ Below(tree, dir, FALSE) \subseteq DOMAIN tree
      /\ GamePaths(c) \subseteq DOMAIN tree
  BY DEF Below, GamePaths
<1> HIDE DEF tree, dir
<1>8. Below(tree, dir, TRUE) = GamePaths(c)
  BY <1>6, <1>7
<1>9. Below(tree, dir, FALSE) = {p \in GamePaths(c) : \A n \in 2..Len(p) : ~IsDisabled(p[n])}
  BY <1>6, <1>7
<1> QED
  BY <1>8, <1>9 DEF tree, dir

(* The rows of the library are those of the games, each once.              *)
LEMMA LibraryRows ==
    ASSUME NEW c \in DOMAIN Cards
    PROVE  LET tree == Cards[c]
               list == Library[c]
           IN /\ Len(list) \in Nat /\ DOMAIN list = 1..Len(list)
              /\ \A g \in DOMAIN list : \E p \in GamePaths(c) : list[g] = RowOf(tree, p)
              /\ \A p \in GamePaths(c) : \E g \in DOMAIN list : list[g] = RowOf(tree, p)
              /\ \A g, h \in DOMAIN list : list[g] = list[h] => g = h
<1> DEFINE tree == Cards[c]
           rows == ScanRoms(tree, Console(c), TRUE)
           n == Cardinality(rows)
           list == Library[c]
<1>1. rows = {RowOf(tree, p) : p \in GamePaths(c)}
  BY CardsAssumption, ConsoleAtTop, ScanFindsGames, GamesAreBelow DEF RowsBelow
<1>2. IsFiniteSet(rows)
  <2> DEFINE f == [p \in GamePaths(c) |-> RowOf(tree, p)]
  <2>1. IsFiniteSet(GamePaths(c))
    BY CardsAssumption, FS_Subset DEF GamePaths, IsCard
  <2>2. f \in Surjection(GamePaths(c), rows)
    <3> HIDE DEF rows
    <3> QED
      BY <1>1 DEF Surjection
  <2> QED
    BY <2>1, <2>2, FS_Surjection
<1>3. n \in Nat /\ ExistsBijection(1..n, rows)
  BY <1>2, FS_CardinalityType
<1>4. list = SetToSeq(rows)
  BY DEF Library
<1> HIDE DEF rows, list, tree
<1>5. list \in [1..n -> rows] /\ IsInjective(list)
  <2>1. \E f \in [1..n -> rows] : IsInjective(f)
    BY <1>3 DEF ExistsBijection, Bijection, Injection
  <2> QED
    BY <1>4, <2>1 DEF SetToSeq
<1>6. list \in Surjection(1..n, rows)
  <2>1. IsFiniteSet(1..n) /\ Cardinality(1..n) = n
    BY <1>3, FS_Interval
  <2>2. list \in Injection(1..n, rows)
    BY <1>5 DEF Injection
  <2> QED
    BY <1>2, <2>1, <2>2, FS_Injection
<1>7. Len(list) = n /\ DOMAIN list = 1..n
  <2> HIDE DEF n
  <2>1. list \in Seq(rows)
    BY <1>3, <1>5, SeqDef
  <2> QED
    BY <1>3, <1>5, <2>1, LenProperties
<1>8. \A g, h \in DOMAIN list : list[g] = list[h] => g = h
  BY <1>5, <1>7 DEF IsInjective
<1>9. \A g \in DOMAIN list : \E p \in GamePaths(c) : list[g] = RowOf(tree, p)
  BY <1>1, <1>5, <1>7
<1>10. \A p \in GamePaths(c) : \E g \in DOMAIN list : list[g] = RowOf(tree, p)
  BY <1>1, <1>6, <1>7 DEF Surjection
<1> QED
  BY <1>3, <1>7, <1>8, <1>9, <1>10 DEF list, tree
-----------------------------------------------------------------------------
(* The games of a card.                                                    *)

\* The card of media_collision has two games with one file for their artwork:
\* there both requests write it at once, and MediaIsWhole fails.
DistinctFiles ==
    \A c \in DOMAIN Cards : \A g, h \in DOMAIN Library[c] :
        Dest(Library[c][g]) = Dest(Library[c][h]) => g = h

(* They are numbered, and a game's file has the number of the game.        *)
LEMMA GamesAreNumbered ==
    ASSUME DistinctFiles, NEW c \in DOMAIN Cards
    PROVE  /\ Len(GamesOf(c)) \in Nat
           /\ DOMAIN GamesOf(c) = 1..Len(GamesOf(c))
           /\ \A g \in DOMAIN GamesOf(c) : GamesOf(c)[g].file = g
<1> DEFINE list == Library[c]
           n == Len(list)
<1>1. n \in Nat /\ DOMAIN list = 1..n
  BY LibraryRows
<1>2. \A g \in 1..n : {h \in DOMAIN list : Dest(list[h]) = Dest(list[g])} = {g}
  BY <1>1 DEF DistinctFiles
<1>3. \A g \in 1..n : Min({g}) = g
  BY MinIsLeast
<1>4. DOMAIN GamesOf(c) = 1..n /\ \A g \in 1..n : GamesOf(c)[g].file = g
  BY <1>1, <1>2, <1>3 DEF GamesOf
<1> DEFINE entries == {GamesOf(c)[g] : g \in 1..n}
<1>5. GamesOf(c) \in [1..n -> entries]
  BY <1>4 DEF GamesOf
<1> HIDE DEF entries, n
<1>6. GamesOf(c) \in Seq(entries)
  BY <1>1, <1>5, SeqDef
<1>7. Len(GamesOf(c)) \in Nat /\ DOMAIN GamesOf(c) = 1..Len(GamesOf(c))
  BY <1>6, LenProperties
<1> QED
  BY <1>4, <1>7

-----------------------------------------------------------------------------
(* The inductive invariant.                                                *)

AnyMedia == UNION {UNION {{s[key][k] : k \in DOMAIN s[key]} : key \in {"hash", "name"}} :
                   s \in Servers}
Urls == {m.url : m \in AnyMedia} \cup {NoMedia}
Bodies == [head : Urls, tail : Urls]
Pcs == {"idle", "search", "fetch", "open", "head", "tail", "rename",
        "done", "not_found", "error", "stopped"}
Items == [pc : Pcs, key : {"hash", "name"}, attempt : 0..MaxRetries, hashed : BOOLEAN,
          media : AnyMedia \cup {NoMedia}, inode : Inodes \cup {0}]
Names == [Games -> Inodes \cup {0}]
Files == [names : Names, temps : Names, data : [Inodes -> Bodies]]

Writing == {"head", "tail", "rename"}
Chosen  == {"fetch", "open", "head", "tail", "rename", "done"}

\* The games and the variables, as Init makes them.
Shape ==
    /\ card \in DOMAIN Cards
    /\ Len(games) \in Nat /\ Games = 1..Len(games) /\ \A g \in Games : File(g) = g
    /\ server \in [Games -> Servers]
    /\ items \in [Games -> Items]
    /\ files \in Files
    /\ cancel \in BOOLEAN
\* Names and temporaries are different files.
Apart ==
    \A p, q \in Games :
        /\ files.names[p] # 0 => files.names[p] # files.temps[q]
        /\ p # q /\ files.names[p] # 0 => files.names[p] # files.names[q]
        /\ p # q /\ files.temps[p] # 0 => files.temps[p] # files.temps[q]
\* What the searches so far have given.
Searched(g) ==
    LET item == items[g]
        byHash == ResolveMedia(server[g].hash)
        byName == ResolveMedia(server[g].name)
    IN /\ item.pc = "search" /\ item.key = "hash" => item.hashed
       /\ item.pc = "search" /\ item.key = "name" /\ item.hashed => byHash = NoMedia
       /\ item.pc \in Chosen =>
             /\ item.media # NoMedia
             /\ \/ item.hashed /\ item.media = byHash
                \/ item.media = byName /\ (item.hashed => byHash = NoMedia)
       /\ item.pc = "not_found" =>
             byName = NoMedia /\ (item.hashed => byHash = NoMedia)
\* What is in the temporary and under the name.
Stored(g) ==
    LET item == items[g]
        name == files.names[g]
    IN /\ item.pc \in Writing => item.inode \in Inodes /\ files.temps[g] = item.inode
       /\ item.pc \notin Writing => item.inode = 0
       /\ item.pc = "tail" => files.data[item.inode].head = item.media.url
       /\ item.pc = "rename" => files.data[item.inode] = Whole(item.media.url)
       /\ item.pc = "done" => name # 0 /\ files.data[name] = Whole(item.media.url)
       /\ name # 0 => \E key \in {"hash", "name"} : \E k \in DOMAIN server[g][key] :
                         files.data[name] = Whole(server[g][key][k].url)

Inv == Shape /\ Apart /\ \A g \in Games : Searched(g) /\ Stored(g)

(* Nothing is requested and nothing stored at first.                       *)
LEMMA InitInv == DistinctFiles /\ Init => Inv
<1> SUFFICES ASSUME DistinctFiles, Init PROVE Inv
  OBVIOUS
<1>1. /\ Len(games) \in Nat /\ Games = 1..Len(games)
      /\ \A g \in Games : File(g) = g
  BY GamesAreNumbered DEF Init, Games, File
<1>2. NoItem \in Items
  BY RetriesAssumption DEF NoItem, Items, Pcs
<1>3. Blank \in Bodies
  BY DEF Blank, Bodies, Urls
<1>4. files \in Files
  BY <1>3 DEF Init, Files, Names
<1>5. Shape
  BY <1>1, <1>2, <1>4 DEF Init, Shape
<1>6. Apart
  BY DEF Init, Apart
<1>7. ASSUME NEW g \in Games PROVE Searched(g) /\ Stored(g)
  <2>1. /\ items[g].pc = "idle" /\ items[g].inode = 0 /\ files.names[g] = 0
    BY DEF Init, NoItem
  <2> QED
    BY <2>1 DEF Searched, Stored, Chosen, Writing
<1> QED
  BY <1>5, <1>6, <1>7 DEF Inv

(* A game that a step leaves alone stays as it is.                         *)
LEMMA LeftAlone ==
    ASSUME Inv, NEW h \in Games, games' = games, server' = server,
           items'[h] = items[h],
           files'.names[h] = files.names[h], files'.temps[h] = files.temps[h],
           files.names[h] # 0 => files'.data[files.names[h]] = files.data[files.names[h]],
           files.temps[h] # 0 => files'.data[files.temps[h]] = files.data[files.temps[h]]
    PROVE  Searched(h)' /\ Stored(h)'
<1>1. Searched(h)'
  BY DEF Inv, Searched
<1>2. items[h].pc \in Writing => files.temps[h] = items[h].inode /\ items[h].inode # 0
  BY DEF Inv, Stored, Inodes
<1>3. Stored(h)'
  BY <1>2 DEF Inv, Stored, Inodes, Writing
<1> QED
  BY <1>1, <1>3

(* A step of one game's request is right if it is right for that game.     *)
LEMMA OneGame ==
    ASSUME Inv, NEW g \in Games, NEW r \in Items, items' = [items EXCEPT ![g] = r],
           UNCHANGED <<card, games, server, cancel>>,
           files' \in Files, Apart', Searched(g)', Stored(g)',
           \A h \in Games \ {g} :
               /\ files'.names[h] = files.names[h] /\ files'.temps[h] = files.temps[h]
               /\ files.names[h] # 0 =>
                      files'.data[files.names[h]] = files.data[files.names[h]]
               /\ files.temps[h] # 0 =>
                      files'.data[files.temps[h]] = files.data[files.temps[h]]
    PROVE  Inv'
<1>1. Games' = Games /\ Inodes' = Inodes /\ Items' = Items /\ Files' = Files
  BY DEF Games, Inodes, Items, Files, Names
<1>2. items' \in [Games -> Items]
  BY DEF Inv, Shape
<1>3. Shape'
  BY <1>1, <1>2 DEF Inv, Shape, File
<1>4. ASSUME NEW h \in Games, h # g PROVE Searched(h)' /\ Stored(h)'
  <2>1. items'[h] = items[h]
    BY <1>4 DEF Inv, Shape
  <2> QED
    BY <1>4, <2>1, LeftAlone
<1> QED
  BY <1>1, <1>3, <1>4 DEF Inv

(* Nor does it touch a file before the body arrives.                       *)
LEMMA NoFiles ==
    ASSUME Inv, NEW g \in Games, NEW r \in Items, items' = [items EXCEPT ![g] = r],
           UNCHANGED <<card, games, server, cancel, files>>,
           Searched(g)', r.pc \notin Writing, r.pc # "done", r.inode = 0
    PROVE  Inv'
<1>1. items'[g] = r
  BY DEF Inv, Shape
<1>2. Apart' /\ files' \in Files
  BY DEF Inv, Apart, Shape, Games
<1>3. Stored(g)'
  BY <1>1 DEF Inv, Stored, Writing
<1> QED
  BY <1>2, <1>3, OneGame

-----------------------------------------------------------------------------
(* The request, step by step.                                              *)

\* What the steps make of an item.
At(item, pc) == [item EXCEPT !.pc = pc]
Searching(item, hashed, key) ==
    [item EXCEPT !.pc = "search", !.hashed = hashed, !.key = key]
ByName(item) == [item EXCEPT !.key = "name", !.attempt = 0]
NotFound(item, hashed) == [item EXCEPT !.pc = "not_found", !.hashed = hashed]
Fetching(item, media) ==
    [item EXCEPT !.pc = "fetch", !.key = "name", !.attempt = 0, !.media = media]
Fetched(item) == [item EXCEPT !.pc = "open", !.attempt = 0]
Opened(item, inode) == [item EXCEPT !.pc = "head", !.inode = inode]
Finished(item, hashed, media) ==
    [item EXCEPT !.pc = "done", !.hashed = hashed, !.media = media]

(* It stays an item.                                                       *)
LEMMA ItemConstants == "name" \in {"hash", "name"} /\ 0 \in 0..MaxRetries
BY RetriesAssumption

LEMMA ItemAt ==
    ASSUME NEW item \in Items, NEW pc \in Pcs
    PROVE  LET r == At(item, pc)
           IN /\ r \in Items /\ r.pc = pc /\ r.hashed = item.hashed
              /\ r.media = item.media /\ r.inode = item.inode
BY DEF Items, At

LEMMA ItemSearching ==
    ASSUME NEW item \in Items, NEW hashed \in BOOLEAN, NEW key \in {"hash", "name"}
    PROVE  LET r == Searching(item, hashed, key)
           IN /\ r \in Items /\ r.pc = "search" /\ r.key = key /\ r.hashed = hashed
              /\ r.inode = item.inode
<1>1. "search" \in Pcs
  BY DEF Pcs
<1> QED
  BY <1>1 DEF Items, Searching

LEMMA ItemByName ==
    ASSUME NEW item \in Items
    PROVE  LET r == ByName(item)
           IN /\ r \in Items /\ r.pc = item.pc /\ r.key = "name"
              /\ r.hashed = item.hashed /\ r.inode = item.inode
BY ItemConstants DEF Items, ByName

LEMMA ItemNotFound ==
    ASSUME NEW item \in Items, NEW hashed \in BOOLEAN
    PROVE  LET r == NotFound(item, hashed)
           IN /\ r \in Items /\ r.pc = "not_found" /\ r.hashed = hashed
              /\ r.inode = item.inode
<1>1. "not_found" \in Pcs
  BY DEF Pcs
<1> QED
  BY <1>1 DEF Items, NotFound

LEMMA ItemFetching ==
    ASSUME NEW item \in Items, NEW media \in AnyMedia
    PROVE  LET r == Fetching(item, media)
           IN /\ r \in Items /\ r.pc = "fetch" /\ r.hashed = item.hashed
              /\ r.media = media /\ r.inode = item.inode
<1>1. "fetch" \in Pcs
  BY DEF Pcs
<1> QED
  BY <1>1, ItemConstants DEF Items, Fetching

LEMMA ItemFetched ==
    ASSUME NEW item \in Items
    PROVE  LET r == Fetched(item)
           IN /\ r \in Items /\ r.pc = "open" /\ r.hashed = item.hashed
              /\ r.media = item.media /\ r.inode = item.inode
<1>1. "open" \in Pcs
  BY DEF Pcs
<1> QED
  BY <1>1, ItemConstants DEF Items, Fetched

LEMMA ItemOpened ==
    ASSUME NEW item \in Items, NEW inode \in Inodes
    PROVE  LET r == Opened(item, inode)
           IN /\ r \in Items /\ r.pc = "head" /\ r.hashed = item.hashed
              /\ r.media = item.media /\ r.inode = inode
<1>1. "head" \in Pcs
  BY DEF Pcs
<1> QED
  BY <1>1 DEF Items, Opened

LEMMA ItemFinished ==
    ASSUME NEW item \in Items, NEW hashed \in BOOLEAN, NEW media \in AnyMedia
    PROVE  LET r == Finished(item, hashed, media)
           IN /\ r \in Items /\ r.pc = "done" /\ r.hashed = hashed
              /\ r.media = media /\ r.inode = item.inode
<1>1. "done" \in Pcs
  BY DEF Pcs
<1> QED
  BY <1>1 DEF Items, Finished

(* Where an item goes when its call returns.                               *)
LEMMA Returned ==
    ASSUME Inv, NEW g \in Games
    PROVE  /\ items[g] \in Items
           /\ NoItem \in Items
           /\ \A pc \in Pcs : [NoItem EXCEPT !.pc = pc] \in Items
           /\ \A key \in {"hash", "name"} : IsAnswer(server[g][key])
           /\ server[g]["hash"] = server[g].hash /\ server[g]["name"] = server[g].name
<1>1. NoItem \in Items
  BY RetriesAssumption DEF NoItem, Items, Pcs
<1>2. \A pc \in Pcs : [NoItem EXCEPT !.pc = pc] \in Items
  BY <1>1 DEF Items
<1>3. \A key \in {"hash", "name"} : IsAnswer(server[g][key])
  BY ServersAssumption DEF Inv, Shape, IsAnswer
<1> QED
  BY <1>1, <1>2, <1>3 DEF Inv, Shape

(* It leaves with no verdict, or goes on within http_get.                  *)
LEMMA LeaveKeeps ==
    ASSUME Inv, NEW g \in Games, NEW pc \in {"stopped", "error"}, Leave(g, pc),
           UNCHANGED <<card, games, server, cancel, files>>
    PROVE  Inv'
<1> DEFINE r == At(NoItem, pc)
<1>1. NoItem.inode = 0 /\ pc \in Pcs
  BY DEF NoItem, Pcs
<1>2. r \in Items /\ r.pc = pc /\ r.inode = 0
  BY <1>1, Returned, ItemAt
<1>3. items' = [items EXCEPT ![g] = r] /\ items'[g] = r
  BY DEF Leave, Inv, Shape, At
<1> HIDE DEF r
<1>4. Searched(g)'
  BY <1>2, <1>3 DEF Searched, Chosen
<1> QED
  BY <1>2, <1>3, <1>4, NoFiles DEF Writing

LEMMA RequestingKeeps ==
    ASSUME Inv, NEW g \in Games, Interrupted(g) \/ Retry(g) \/ GiveUp(g)
    PROVE  Inv'
<1>1. CASE Interrupted(g)
  BY <1>1, LeaveKeeps DEF Interrupted, StepDone
<1>2. CASE GiveUp(g)
  BY <1>2, LeaveKeeps DEF GiveUp, StepDone
<1>3. CASE Retry(g)
  <2> DEFINE r == [items[g] EXCEPT !.attempt = @ + 1]
  <2>1. items[g] \in Items /\ items[g].pc \in {"search", "fetch"}
    BY <1>3, Returned DEF Retry, Requesting
  <2>2. r \in Items
    BY <1>3, <2>1, RetriesAssumption DEF Retry, Items
  <2>3. items' = [items EXCEPT ![g] = r] /\ items'[g] = r
    BY <1>3 DEF Retry, Inv, Shape
  <2>4. /\ r.pc = items[g].pc /\ r.key = items[g].key /\ r.hashed = items[g].hashed
        /\ r.media = items[g].media /\ r.inode = items[g].inode
    BY <2>1 DEF Items
  <2> HIDE DEF r
  <2>5. Searched(g)'
    BY <1>3, <2>3, <2>4 DEF Inv, Searched, Retry, StepDone
  <2>6. r.inode = 0
    BY <2>1, <2>4 DEF Inv, Stored, Writing
  <2> QED
    BY <1>3, <2>1, <2>2, <2>3, <2>4, <2>5, <2>6, NoFiles DEF Writing, Retry, StepDone
<1> QED
  BY <1>1, <1>2, <1>3

LEMMA ClaimKeeps == ASSUME Inv, NEW g \in Games, Claim(g) PROVE Inv'
<1>1. PICK hashed \in BOOLEAN :
         items' = [items EXCEPT ![g] =
             Searching(NoItem, hashed, IF hashed THEN "hash" ELSE "name")]
  BY DEF Claim, Searching
<1> DEFINE r == Searching(NoItem, hashed, IF hashed THEN "hash" ELSE "name")
<1>2. NoItem \in Items /\ NoItem.inode = 0
  BY Returned DEF NoItem
<1>3. /\ r \in Items /\ r.pc = "search" /\ r.hashed = hashed /\ r.inode = 0
      /\ r.key = IF hashed THEN "hash" ELSE "name"
  BY <1>2, ItemSearching
<1>4. items' = [items EXCEPT ![g] = r] /\ items'[g] = r
  BY <1>1 DEF Inv, Shape
<1> HIDE DEF r
<1>5. Searched(g)'
  BY <1>3, <1>4 DEF Searched, Chosen
<1> QED
  BY <1>3, <1>4, <1>5, NoFiles DEF Writing, Claim, StepDone

LEMMA RequeueKeeps == ASSUME Inv, NEW g \in Games, Requeue(g) PROVE Inv'
<1>1. NoItem \in Items /\ NoItem.pc = "idle" /\ NoItem.inode = 0
  BY Returned DEF NoItem
<1>2. items' = [items EXCEPT ![g] = NoItem] /\ items'[g] = NoItem
  BY DEF Requeue, Inv, Shape
<1>3. Searched(g)'
  BY <1>1, <1>2 DEF Searched, Chosen
<1> QED
  BY <1>1, <1>2, <1>3, NoFiles DEF Writing, Requeue

(* What resolve_media chooses is one of the media of the answer.           *)
LEMMA AnsweredMedia ==
    ASSUME Inv, NEW g \in Games, NEW key \in {"hash", "name"},
           ResolveMedia(server[g][key]) # NoMedia
    PROVE  /\ ResolveMedia(server[g][key]) \in AnyMedia
           /\ \E k \in DOMAIN server[g][key] :
                 ResolveMedia(server[g][key]) = server[g][key][k]
<1>1. PICK k \in DOMAIN server[g][key] : ResolveMedia(server[g][key]) = server[g][key][k]
  BY Returned, ChosenIsBest
<1>2. server[g] \in Servers
  BY DEF Inv, Shape
<1> QED
  BY <1>1, <1>2 DEF AnyMedia

LEMMA SearchKeeps == ASSUME Inv, NEW g \in Games, SearchAnswered(g) PROVE Inv'
<1> DEFINE item == items[g]
           media == ResolveMedia(server[g][item.key])
<1>1. /\ item \in Items /\ item.pc = "search" /\ item.inode = 0
      /\ item.key \in {"hash", "name"} /\ item.hashed \in BOOLEAN
  BY Returned DEF SearchAnswered, Inv, Stored, Writing, Items
<1>2. CASE media # NoMedia
  <2> DEFINE r == Fetching(item, media)
  <2>1. items' = [items EXCEPT ![g] = r] /\ items'[g] = r
    BY <1>2 DEF SearchAnswered, Inv, Shape, Fetching
  <2>2. media \in AnyMedia
    BY <1>1, <1>2, AnsweredMedia
  <2>3. /\ r \in Items /\ r.pc = "fetch" /\ r.hashed = item.hashed
        /\ r.media = media /\ r.inode = 0
    <3> HIDE DEF item, media
    <3>1. LET f == Fetching(item, media)
          IN /\ f \in Items /\ f.pc = "fetch" /\ f.hashed = item.hashed
             /\ f.media = media /\ f.inode = item.inode
      BY ONLY <1>1, <2>2, ItemFetching
    <3> QED
      BY ONLY <1>1, <3>1
  <2>4. \/ item.hashed /\ media = ResolveMedia(server[g].hash)
        \/ /\ media = ResolveMedia(server[g].name)
           /\ item.hashed => ResolveMedia(server[g].hash) = NoMedia
    BY <1>1, Returned DEF Inv, Searched
  <2> HIDE DEF r, media
  <2>5. Searched(g)'
    BY <1>2, <2>1, <2>3, <2>4 DEF Searched, Chosen, SearchAnswered, StepDone
  <2> QED
    BY <2>1, <2>3, <2>5, NoFiles DEF Writing, SearchAnswered, StepDone
<1>3. CASE media = NoMedia /\ item.key = "hash"
  <2> DEFINE r == ByName(item)
  <2>1. items' = [items EXCEPT ![g] = r] /\ items'[g] = r
    BY <1>3 DEF SearchAnswered, Inv, Shape, ByName, SearchAgain
  <2>2. /\ r \in Items /\ r.pc = "search" /\ r.key = "name" /\ r.hashed = item.hashed
        /\ r.inode = 0
    BY <1>1, ItemByName
  <2>3. ResolveMedia(server[g].hash) = NoMedia
    BY <1>3, Returned
  <2> HIDE DEF r, media
  <2>4. Searched(g)'
    BY <2>1, <2>2, <2>3 DEF Searched, Chosen, SearchAnswered, StepDone
  <2> QED
    BY <2>1, <2>2, <2>4, NoFiles DEF Writing, SearchAnswered, StepDone
<1>4. CASE media = NoMedia /\ item.key = "name"
  <2> DEFINE r == NotFound(NoItem, item.hashed)
  <2>1. items' = [items EXCEPT ![g] = r] /\ items'[g] = r
    BY <1>4 DEF SearchAnswered, Inv, Shape, NotFound, SearchAgain
  <2>2. NoItem \in Items /\ NoItem.inode = 0
    BY Returned DEF NoItem
  <2>3. r \in Items /\ r.pc = "not_found" /\ r.hashed = item.hashed /\ r.inode = 0
    <3> DEFINE hashed == item.hashed
    <3>1. hashed \in BOOLEAN
      BY <1>1
    <3> HIDE DEF item, hashed
    <3>2. LET n == NotFound(NoItem, hashed)
          IN n \in Items /\ n.pc = "not_found" /\ n.hashed = hashed /\ n.inode = 0
      BY ONLY <2>2, <3>1, ItemNotFound
    <3> QED
      BY <3>2 DEF hashed
  <2>4. /\ ResolveMedia(server[g].name) = NoMedia
        /\ item.hashed => ResolveMedia(server[g].hash) = NoMedia
    BY <1>1, <1>4, Returned DEF Inv, Searched
  <2> HIDE DEF r, media
  <2>5. Searched(g)'
    BY <2>1, <2>3, <2>4 DEF Searched, Chosen, SearchAnswered, StepDone
  <2> QED
    BY <2>1, <2>3, <2>5, NoFiles DEF Writing, SearchAnswered, StepDone
<1> QED
  BY <1>1, <1>2, <1>3, <1>4

LEMMA FetchKeeps == ASSUME Inv, NEW g \in Games, FetchAnswered(g) PROVE Inv'
<1> DEFINE r == Fetched(items[g])
<1>1. items[g] \in Items /\ items[g].pc = "fetch" /\ items[g].inode = 0
  BY Returned DEF FetchAnswered, Inv, Stored, Writing
<1>2. /\ r \in Items /\ r.pc = "open" /\ r.hashed = items[g].hashed
      /\ r.media = items[g].media /\ r.inode = 0
  BY <1>1, ItemFetched
<1>3. items' = [items EXCEPT ![g] = r] /\ items'[g] = r
  BY DEF FetchAnswered, Inv, Shape, Fetched
<1> HIDE DEF r
<1>4. Searched(g)'
  BY <1>1, <1>2, <1>3 DEF Inv, Searched, Chosen, FetchAnswered, StepDone
<1> QED
  BY <1>2, <1>3, <1>4, NoFiles DEF Writing, FetchAnswered, StepDone

-----------------------------------------------------------------------------
(* The files.                                                              *)

(* There are three inodes for a game, and two names.                       *)
LEMMA FreshIsFree ==
    ASSUME Inv, NEW g \in Games
    PROVE  /\ Fresh \in Inodes
           /\ \A p \in Games : files.names[p] # Fresh /\ files.temps[p] # Fresh
<1> DEFINE n == Len(games)
           named == {files.names[p] : p \in Games}
           temporary == {files.temps[p] : p \in Games}
           free == Inodes \ (Named(files) \cup Held(items))
<1>1. /\ n \in Nat /\ n >= 1 /\ Games = 1..n
      /\ files.names \in Names /\ files.temps \in Names
  BY DEF Inv, Shape, Files
<1>2. IsFiniteSet(Games) /\ Cardinality(Games) = n
  <2> HIDE DEF n
  <2>1. IsFiniteSet(1..n) /\ Cardinality(1..n) = IF 1 > n THEN 0 ELSE n - 1 + 1
    BY <1>1, FS_Interval
  <2> QED
    BY ONLY <1>1, <2>1
<1>3. IsFiniteSet(Inodes) /\ Cardinality(Inodes) = 3 * n /\ Inodes \in SUBSET Nat
  <2>1. 3 * n \in Int /\ 3 * n >= 1
    BY <1>1
  <2> QED
    BY <2>1, FS_Interval DEF Inodes
<1>4. files.names \in Surjection(Games, named) /\ files.temps \in Surjection(Games, temporary)
  BY <1>1 DEF Surjection, Names
<1>5. /\ IsFiniteSet(named) /\ Cardinality(named) <= n
      /\ IsFiniteSet(temporary) /\ Cardinality(temporary) <= n
  BY <1>2, <1>4, FS_Surjection
<1>6. /\ IsFiniteSet(named \cup temporary)
      /\ Cardinality(named \cup temporary) < 3 * n
  <2> HIDE DEF named, temporary, n
  <2>1. /\ IsFiniteSet(named \cup temporary)
        /\ Cardinality(named \cup temporary) =
              Cardinality(named) + Cardinality(temporary) - Cardinality(named \cap temporary)
    BY <1>5, FS_Union
  <2>2. Cardinality(named \cap temporary) \in Nat
    BY <1>5, FS_Subset, FS_CardinalityType, named \cap temporary \in SUBSET named
  <2>3. Cardinality(named) \in Nat /\ Cardinality(temporary) \in Nat
    BY <1>5, FS_CardinalityType
  <2> QED
    BY <1>1, <1>5, <2>1, <2>2, <2>3
<1>7. ~(Inodes \subseteq named \cup temporary)
  <2>1. ASSUME Inodes \in SUBSET (named \cup temporary) PROVE FALSE
    <3> HIDE DEF named, temporary, n
    <3>1. Cardinality(Inodes) <= Cardinality(named \cup temporary)
      BY <1>6, <2>1, FS_Subset
    <3>2. Cardinality(named \cup temporary) \in Nat
      BY <1>6, FS_CardinalityType
    <3> QED
      BY <1>1, <1>3, <1>6, <3>1, <3>2
  <2> QED
    BY <2>1
<1>8. Held(items) \subseteq {0} \cup temporary
  BY DEF Inv, Stored, Held
<1>9. 0 \notin Inodes
  BY <1>1 DEF Inodes
<1>10. free # {} /\ free \subseteq Inodes
  BY <1>7, <1>8, <1>9 DEF Named
<1>11. Fresh \in free
  <2> HIDE DEF free
  <2>1. free \in SUBSET Nat
    BY <1>3, <1>10
  <2>2. Min(free) \in free
    BY <1>10, <2>1, MinIsLeast
  <2> QED
    BY <2>2 DEF Fresh, free
<1> QED
  BY <1>10, <1>11 DEF Named

(* A file keeps what is in it as long as it has a name.                    *)
LEMMA FilesBecomeKeeps ==
    ASSUME NEW f \in Files, FilesBecome(f)
    PROVE  /\ files' \in Files
           /\ files'.names = f.names /\ files'.temps = f.temps
           /\ \A p \in Games :
                 /\ f.names[p] # 0 => files'.data[f.names[p]] = f.data[f.names[p]]
                 /\ f.temps[p] # 0 => files'.data[f.temps[p]] = f.data[f.temps[p]]
<1> DEFINE kept == Named(f) \cup Held(items')
           data == [i \in Inodes |-> IF i \in kept THEN f.data[i] ELSE Blank]
<1>1. files' = [f EXCEPT !.data = data]
  BY DEF FilesBecome
<1>2. Blank \in Bodies
  BY DEF Blank, Bodies, Urls
<1>3. data \in [Inodes -> Bodies]
  BY <1>2 DEF Files
<1>4. ASSUME NEW p \in Games
      PROVE  /\ f.names[p] # 0 => data[f.names[p]] = f.data[f.names[p]]
             /\ f.temps[p] # 0 => data[f.temps[p]] = f.data[f.temps[p]]
  BY DEF Named, Files, Names
<1> HIDE DEF data
<1>5. /\ files' \in Files /\ files'.names = f.names /\ files'.temps = f.temps
      /\ files'.data = data
  BY ONLY <1>1, <1>3, f \in Files DEF Files
<1> QED
  BY <1>4, <1>5

(* A request that fails takes its temporary with it.                       *)
LEMMA UnlinkKeeps ==
    ASSUME Inv, NEW g \in Games, Leave(g, "error"), FilesBecome(Unlink(File(g))),
           UNCHANGED <<card, games, server, cancel>>
    PROVE  Inv'
<1> DEFINE r == At(NoItem, "error")
           f == Unlink(g)
<1>1. NoItem.inode = 0 /\ "error" \in Pcs
  BY DEF NoItem, Pcs
<1>2. r \in Items /\ r.pc = "error" /\ r.inode = 0
  BY <1>1, Returned, ItemAt
<1>3. items' = [items EXCEPT ![g] = r] /\ items'[g] = r
  BY DEF Leave, Inv, Shape, At
<1> HIDE DEF r
<1>4. Searched(g)'
  BY <1>2, <1>3 DEF Searched, Chosen
<1>5. files \in Files /\ FilesBecome(f)
  BY DEF Inv, Shape
<1>6. /\ f \in Files /\ f.names = files.names /\ f.data = files.data
      /\ f.temps = [files.temps EXCEPT ![g] = 0]
  BY <1>5 DEF Files, Unlink, Names
<1> HIDE DEF f
<1>7. /\ files' \in Files
      /\ files'.names = f.names /\ files'.temps = f.temps
      /\ \A p \in Games :
            /\ f.names[p] # 0 => files'.data[f.names[p]] = f.data[f.names[p]]
            /\ f.temps[p] # 0 => files'.data[f.temps[p]] = f.data[f.temps[p]]
  BY <1>5, <1>6, FilesBecomeKeeps
<1>8. \A h \in Games : f.temps[h] = IF h = g THEN 0 ELSE files.temps[h]
  BY <1>5, <1>6 DEF Files, Names
<1>9. Apart'
  BY <1>6, <1>7, <1>8 DEF Inv, Apart, Games
<1>10. Stored(g)'
  BY <1>2, <1>3, <1>6, <1>7 DEF Inv, Stored, Writing
<1> QED
  BY <1>2, <1>3, <1>4, <1>6, <1>7, <1>8, <1>9, <1>10, OneGame

LEMMA OpenKeeps == ASSUME Inv, NEW g \in Games, OpenTmp(g) PROVE Inv'
<1> DEFINE old == files.temps[g]
           inode == IF old # 0 THEN old ELSE Fresh
           r == Opened(items[g], inode)
<1>1. /\ items[g] \in Items /\ items[g].pc = "open" /\ File(g) = g
      /\ files \in Files /\ UNCHANGED <<card, games, server, cancel>>
  BY Returned DEF OpenTmp, Inv, Shape, StepDone
<1>2. CASE Leave(g, "error") /\ UNCHANGED files
  BY <1>1, <1>2, LeaveKeeps
<1>3. CASE /\ items' = [items EXCEPT ![g] = r]
           /\ files' = [files EXCEPT !.temps[g] = inode, !.data[inode] = Blank]
  <2>1. /\ inode \in Inodes
        /\ \A p \in Games : files.names[p] # inode /\ (p # g => files.temps[p] # inode)
    <3>1. CASE old # 0
      BY <1>1, <3>1 DEF Inv, Apart, Files, Names
    <3>2. CASE old = 0
      BY <3>2, FreshIsFree
    <3> QED
      BY <3>1, <3>2
  <2> HIDE DEF inode
  <2>2. r \in Items /\ r.pc = "head" /\ r.hashed = items[g].hashed
        /\ r.media = items[g].media /\ r.inode = inode
    BY <1>1, <2>1, ItemOpened
  <2>3. items'[g] = r
    BY <1>3 DEF Inv, Shape
  <2> HIDE DEF r
  <2>4. Blank \in Bodies
    BY DEF Blank, Bodies, Urls
  <2>5. /\ files' \in Files /\ files'.names = files.names
        /\ files'.temps = [files.temps EXCEPT ![g] = inode]
        /\ files'.data = [files.data EXCEPT ![inode] = Blank]
    BY ONLY <1>1, <1>3, <2>1, <2>4, g \in Games DEF Files, Names
  <2>6. /\ \A h \in Games : files'.temps[h] = IF h = g THEN inode ELSE files.temps[h]
        /\ \A i \in Inodes : i # inode => files'.data[i] = files.data[i]
    BY ONLY <1>1, <2>5 DEF Files, Names
  <2>7. \A h \in Games :
           /\ files.names[h] # 0 => files'.data[files.names[h]] = files.data[files.names[h]]
           /\ h # g /\ files.temps[h] # 0 =>
                 files'.data[files.temps[h]] = files.data[files.temps[h]]
    BY <1>1, <2>1, <2>6 DEF Files, Names
  <2>8. Searched(g)'
    BY <1>1, <2>2, <2>3 DEF Inv, Searched, Chosen
  <2>9. Apart'
    BY <1>1, <2>1, <2>5, <2>6 DEF Inv, Apart, Games
  <2>10. Stored(g)'
    BY <1>1, <2>1, <2>2, <2>3, <2>5, <2>6, <2>7 DEF Inv, Stored, Writing, Inodes
  <2>11. /\ r \in Items /\ items' = [items EXCEPT ![g] = r] /\ files' \in Files
         /\ \A h \in Games \ {g} :
               /\ files'.names[h] = files.names[h] /\ files'.temps[h] = files.temps[h]
               /\ files.names[h] # 0 =>
                      files'.data[files.names[h]] = files.data[files.names[h]]
               /\ files.temps[h] # 0 =>
                      files'.data[files.temps[h]] = files.data[files.temps[h]]
    BY <1>3, <2>2, <2>5, <2>6, <2>7
  <2> QED
    BY ONLY Inv, <1>1, <2>8, <2>9, <2>10, <2>11, OneGame
<1> QED
  BY <1>1, <1>2, <1>3 DEF OpenTmp, Opened

(* What is written goes to the temporary, and to no other file.            *)
LEMMA PieceKeeps ==
    ASSUME Inv, NEW g \in Games, NEW body \in Bodies, NEW pc \in {"tail", "rename"},
           items[g].pc \in {"head", "tail"},
           items' = [items EXCEPT ![g] = At(items[g], pc)],
           files' = [files EXCEPT !.data[items[g].inode] = body],
           pc = "tail" => body.head = items[g].media.url,
           pc = "rename" => body = Whole(items[g].media.url),
           UNCHANGED <<card, games, server, cancel>>
    PROVE  Inv'
<1> DEFINE r == At(items[g], pc)
           inode == items[g].inode
<1>1. /\ items[g] \in Items /\ pc \in Pcs
      /\ files \in Files /\ inode \in Inodes /\ files.temps[g] = inode
  BY Returned DEF Inv, Shape, Stored, Writing, Pcs
<1>2. /\ r \in Items /\ r.pc = pc /\ r.hashed = items[g].hashed
      /\ r.media = items[g].media /\ r.inode = inode
  BY <1>1, ItemAt
<1>3. items'[g] = r
  BY DEF Inv, Shape
<1> HIDE DEF r, inode
<1>4. /\ files' \in Files /\ files'.names = files.names /\ files'.temps = files.temps
      /\ files'.data = [files.data EXCEPT ![inode] = body]
  <2>1. files' = [files EXCEPT !.data[inode] = body]
    BY DEF inode
  <2> QED
    BY ONLY <1>1, <2>1, body \in Bodies DEF Files
<1>5. /\ files'.data[inode] = body
      /\ \A i \in Inodes : i # inode => files'.data[i] = files.data[i]
  BY ONLY <1>1, <1>4 DEF Files
<1>6. \A p \in Games : files.names[p] # inode /\ (p # g => files.temps[p] # inode)
  BY <1>1 DEF Inv, Apart, Inodes
<1>7. \A h \in Games :
         /\ files.names[h] # 0 => files'.data[files.names[h]] = files.data[files.names[h]]
         /\ h # g /\ files.temps[h] # 0 =>
               files'.data[files.temps[h]] = files.data[files.temps[h]]
  BY <1>1, <1>5, <1>6 DEF Files, Names
<1>8. Searched(g)'
  BY <1>1, <1>2, <1>3 DEF Inv, Searched, Chosen
<1>9. Apart'
  BY <1>4 DEF Inv, Apart, Games
<1>10. Stored(g)'
  <2>1. files.names[g] # 0 => \E key \in {"hash", "name"} : \E k \in DOMAIN server[g][key] :
           files'.data[files.names[g]] = Whole(server[g][key][k].url)
    BY <1>7 DEF Inv, Stored
  <2>2. /\ files'.temps[g] = inode /\ files'.names[g] = files.names[g]
        /\ files'.data[inode] = body /\ server' = server /\ Inodes' = Inodes
    BY ONLY <1>1, <1>4, <1>5, UNCHANGED <<card, games, server, cancel>> DEF Inodes
  <2> QED
    BY ONLY <1>1, <1>2, <1>3, <2>1, <2>2, pc \in {"tail", "rename"},
            pc = "tail" => body.head = items[g].media.url,
            pc = "rename" => body = Whole(items[g].media.url) DEF Stored, Writing
<1>11. /\ r \in Items /\ items' = [items EXCEPT ![g] = r] /\ files' \in Files
       /\ \A h \in Games \ {g} :
             /\ files'.names[h] = files.names[h] /\ files'.temps[h] = files.temps[h]
             /\ files.names[h] # 0 =>
                    files'.data[files.names[h]] = files.data[files.names[h]]
             /\ files.temps[h] # 0 =>
                    files'.data[files.temps[h]] = files.data[files.temps[h]]
  BY <1>2, <1>4, <1>7 DEF r
<1> QED
  BY ONLY Inv, <1>8, <1>9, <1>10, <1>11, UNCHANGED <<card, games, server, cancel>>, OneGame

(* The media of a request that fetches is one the server knows.            *)
LEMMA MediaIsKnown ==
    ASSUME Inv, NEW g \in Games, items[g].pc \in Chosen
    PROVE  /\ items[g].media \in AnyMedia /\ items[g].media.url \in Urls
           /\ \E key \in {"hash", "name"} : \E k \in DOMAIN server[g][key] :
                 items[g].media = server[g][key][k]
<1>1. /\ items[g].media # NoMedia
      /\ \E key \in {"hash", "name"} : items[g].media = ResolveMedia(server[g][key])
  BY Returned DEF Inv, Searched
<1>2. items[g].media \in AnyMedia
  BY <1>1, AnsweredMedia
<1> QED
  BY <1>1, <1>2, AnsweredMedia DEF Urls

LEMMA HeadKeeps == ASSUME Inv, NEW g \in Games, WriteHead(g) PROVE Inv'
<1> DEFINE inode == items[g].inode
           url == items[g].media.url
           body == [files.data[inode] EXCEPT !.head = url]
<1>1. /\ items[g].pc = "head" /\ items[g] \in Items /\ File(g) = g /\ files \in Files
      /\ inode \in Inodes /\ UNCHANGED <<card, games, server, cancel>>
  BY Returned DEF WriteHead, StepDone, Inv, Shape, Stored, Writing
<1>2. CASE Leave(g, "error") /\ FilesBecome(Unlink(File(g)))
  BY <1>1, <1>2, UnlinkKeeps
<1>3. CASE files' = [files EXCEPT !.data[inode].head = url] /\ Goto(g, "tail")
  <2>1. url \in Urls
    BY <1>1, MediaIsKnown DEF Chosen
  <2>2. files.data[inode] \in Bodies
    BY <1>1 DEF Files
  <2>3. body \in Bodies /\ body.head = url
    <3> HIDE DEF url
    <3> QED
      BY ONLY <2>1, <2>2 DEF Bodies
  <2>4. files' = [files EXCEPT !.data[inode] = body]
    BY <1>3
  <2>5. items' = [items EXCEPT ![g] = At(items[g], "tail")]
    BY <1>3 DEF Goto, At
  <2> HIDE DEF body
  <2> QED
    BY <1>1, <2>3, <2>4, <2>5, PieceKeeps
<1> QED
  BY <1>2, <1>3 DEF WriteHead

LEMMA TailKeeps == ASSUME Inv, NEW g \in Games, WriteTail(g) PROVE Inv'
<1> DEFINE inode == items[g].inode
           url == items[g].media.url
           body == [files.data[inode] EXCEPT !.tail = url]
<1>1. /\ items[g].pc = "tail" /\ items[g] \in Items /\ File(g) = g /\ files \in Files
      /\ inode \in Inodes /\ UNCHANGED <<card, games, server, cancel>>
      /\ files.data[inode].head = url
  BY Returned DEF WriteTail, StepDone, Inv, Shape, Stored, Writing
<1>2. CASE Leave(g, "error") /\ FilesBecome(Unlink(File(g)))
  BY <1>1, <1>2, UnlinkKeeps
<1>3. CASE files' = [files EXCEPT !.data[inode].tail = url] /\ Goto(g, "rename")
  <2>1. url \in Urls
    BY <1>1, MediaIsKnown DEF Chosen
  <2>2. files.data[inode] \in Bodies
    BY <1>1 DEF Files
  <2>3. body \in Bodies /\ body = Whole(url)
    <3> HIDE DEF url
    <3> QED
      BY ONLY <1>1, <2>1, <2>2 DEF Bodies, Whole
  <2>4. files' = [files EXCEPT !.data[inode] = body]
    BY <1>3
  <2>5. items' = [items EXCEPT ![g] = At(items[g], "rename")]
    BY <1>3 DEF Goto, At
  <2> HIDE DEF body
  <2> QED
    BY <1>1, <2>3, <2>4, <2>5, PieceKeeps
<1> QED
  BY <1>2, <1>3 DEF WriteTail

LEMMA RenameKeeps == ASSUME Inv, NEW g \in Games, Rename(g) PROVE Inv'
<1> DEFINE tmp == files.temps[g]
           item == items[g]
           r == Finished(NoItem, item.hashed, item.media)
           f == [files EXCEPT !.names[g] = tmp, !.temps[g] = 0]
<1>1. /\ item.pc = "rename" /\ item \in Items /\ File(g) = g /\ files \in Files
      /\ UNCHANGED <<card, games, server, cancel>>
      /\ tmp = item.inode /\ tmp \in Inodes /\ tmp # 0
      /\ files.data[tmp] = Whole(item.media.url)
  BY Returned DEF Rename, StepDone, Inv, Shape, Stored, Writing, Inodes
<1>2. CASE Leave(g, "error") /\ FilesBecome(Unlink(File(g)))
  BY <1>1, <1>2, UnlinkKeeps
<1>3. CASE Return(g, "done") /\ FilesBecome(f)
  <2>1. /\ item.media \in AnyMedia /\ item.hashed \in BOOLEAN
        /\ \E key \in {"hash", "name"} : \E k \in DOMAIN server[g][key] :
              item.media = server[g][key][k]
    BY <1>1, MediaIsKnown DEF Chosen, Items
  <2>2. NoItem \in Items /\ NoItem.inode = 0
    BY Returned DEF NoItem
  <2>3. /\ r \in Items /\ r.pc = "done" /\ r.hashed = item.hashed
        /\ r.media = item.media /\ r.inode = 0
    BY <2>1, <2>2, ItemFinished
  <2>4. items' = [items EXCEPT ![g] = r] /\ items'[g] = r
    BY <1>3 DEF Return, Finished, Inv, Shape
  <2> HIDE DEF r
  <2>5. /\ f \in Files /\ f.data = files.data
        /\ f.names = [files.names EXCEPT ![g] = tmp]
        /\ f.temps = [files.temps EXCEPT ![g] = 0]
    <3> HIDE DEF tmp
    <3> QED
      BY ONLY <1>1, g \in Games DEF Files, Names
  <2> HIDE DEF f
  <2>6. /\ files' \in Files
        /\ files'.names = f.names /\ files'.temps = f.temps
        /\ \A p \in Games :
              /\ f.names[p] # 0 => files'.data[f.names[p]] = f.data[f.names[p]]
              /\ f.temps[p] # 0 => files'.data[f.temps[p]] = f.data[f.temps[p]]
    BY <1>3, <2>5, FilesBecomeKeeps
  <2>7. \A h \in Games :
           /\ f.names[h] = IF h = g THEN tmp ELSE files.names[h]
           /\ f.temps[h] = IF h = g THEN 0 ELSE files.temps[h]
    BY <1>1, <2>5 DEF Files, Names
  <2>8. \A p \in Games : files.names[p] # tmp /\ (p # g => files.temps[p] # tmp)
    BY <1>1 DEF Inv, Apart
  <2>9. Apart'
    <3>1. ASSUME NEW p \in Games, NEW q \in Games
          PROVE  /\ f.names[p] # 0 => f.names[p] # f.temps[q]
                 /\ p # q /\ f.names[p] # 0 => f.names[p] # f.names[q]
                 /\ p # q /\ f.temps[p] # 0 => f.temps[p] # f.temps[q]
      BY <1>1, <2>7, <2>8 DEF Inv, Apart
    <3> QED
      BY <1>1, <2>6, <3>1 DEF Apart, Games
  <2>10. Searched(g)'
    BY <1>1, <2>3, <2>4 DEF Inv, Searched, Chosen
  <2>11. Stored(g)'
    BY <1>1, <2>1, <2>3, <2>4, <2>5, <2>6, <2>7 DEF Stored, Writing
  <2>12. /\ r \in Items /\ items' = [items EXCEPT ![g] = r] /\ files' \in Files
         /\ \A h \in Games \ {g} :
               /\ files'.names[h] = files.names[h] /\ files'.temps[h] = files.temps[h]
               /\ files.names[h] # 0 =>
                      files'.data[files.names[h]] = files.data[files.names[h]]
               /\ files.temps[h] # 0 =>
                      files'.data[files.temps[h]] = files.data[files.temps[h]]
    BY <2>3, <2>4, <2>5, <2>6, <2>7
  <2> QED
    BY ONLY Inv, <1>1, <2>9, <2>10, <2>11, <2>12, OneGame
<1> QED
  BY <1>1, <1>2, <1>3 DEF Rename

-----------------------------------------------------------------------------
(* The surroundings.                                                       *)

(* A stop or a death gives up what is unfinished, and no file that is named.*)
LEMMA GivenUpKeeps ==
    ASSUME Inv, UNCHANGED <<card, games, server>>, cancel' \in BOOLEAN,
           items' \in [Games -> Items],
           \A g \in Games : items'[g] = items[g] \/ items'[g] = NoItem,
           files' \in Files, files'.names = files.names, files'.temps = files.temps,
           \A p \in Games :
              /\ files.names[p] # 0 => files'.data[files.names[p]] = files.data[files.names[p]]
              /\ files.temps[p] # 0 => files'.data[files.temps[p]] = files.data[files.temps[p]]
    PROVE  Inv'
<1>1. Games' = Games /\ Inodes' = Inodes /\ Items' = Items /\ Files' = Files
  BY DEF Games, Inodes, Items, Files, Names
<1>2. Shape'
  BY <1>1 DEF Inv, Shape, File
<1>3. Apart'
  BY <1>1 DEF Inv, Apart
<1>4. ASSUME NEW g \in Games PROVE Searched(g)' /\ Stored(g)'
  <2>1. CASE items'[g] = items[g]
    BY <2>1, LeftAlone
  <2>2. CASE items'[g] = NoItem
    <3>1. NoItem.pc = "idle" /\ NoItem.inode = 0
      BY DEF NoItem
    <3>2. Searched(g)'
      BY <2>2, <3>1 DEF Searched, Chosen
    <3>3. Stored(g)'
      BY <2>2, <3>1 DEF Inv, Stored, Writing
    <3> QED
      BY <3>2, <3>3
  <2> QED
    BY <2>1, <2>2
<1> QED
  BY <1>1, <1>2, <1>3, <1>4 DEF Inv

LEMMA SurroundingsKeep == ASSUME Inv, Stop \/ Resume \/ Crash PROVE Inv'
<1>1. items \in [Games -> Items] /\ files \in Files /\ NoItem \in Items
  <2>1. NoItem \in Items
    BY RetriesAssumption DEF NoItem, Items, Pcs
  <2> QED
    BY <2>1 DEF Inv, Shape
<1>2. CASE Stop
  BY <1>1, <1>2, GivenUpKeeps DEF Stop
<1>3. CASE Resume
  BY <1>1, <1>3, GivenUpKeeps DEF Resume
<1>4. CASE Crash
  <2>1. FilesBecome(files) /\ UNCHANGED <<card, games, server>> /\ cancel' \in BOOLEAN
    BY <1>4 DEF Crash
  <2>2. /\ items' \in [Games -> Items]
        /\ \A g \in Games : items'[g] = items[g] \/ items'[g] = NoItem
    BY <1>1, <1>4 DEF Crash
  <2> QED
    BY <1>1, <2>1, <2>2, FilesBecomeKeeps, GivenUpKeeps
<1> QED
  BY <1>2, <1>3, <1>4

(* Every step keeps the invariant.                                         *)
LEMMA NextInv == Inv /\ [Next]_vars => Inv'
<1> SUFFICES ASSUME Inv, [Next]_vars PROVE Inv'
  OBVIOUS
<1>1. ASSUME NEW g \in Games, Claim(g) \/ Work(g) \/ Requeue(g) PROVE Inv'
  BY <1>1, ClaimKeeps, RequeueKeeps, RequestingKeeps, SearchKeeps, FetchKeeps,
     OpenKeeps, HeadKeeps, TailKeeps, RenameKeeps DEF Work
<1>2. CASE UNCHANGED vars
  <2>1. UNCHANGED <<card, games, server, items, files, cancel>>
    BY <1>2 DEF vars
  <2> QED
    BY <2>1, GivenUpKeeps DEF Inv, Shape
<1> QED
  BY <1>1, <1>2, SurroundingsKeep DEF Next

-----------------------------------------------------------------------------
(* The results.                                                            *)

(* Specification: from Init, step by step.                                 *)
LEMMA SpecInv == DistinctFiles /\ Spec => []Inv
<1>1. Inv /\ [Next]_vars => Inv'
  BY NextInv
<1>2. Inv /\ [][Next]_vars => []Inv
  BY <1>1, PTL
<1> QED
  BY <1>2, InitInv, PTL DEF Spec

(* The variables keep their shape, attempts stay within the retries of     *)
(* http_get, and no two names are one file but a temporary and the request *)
(* that writes it.                                                         *)
THEOREM MediaTypes == DistinctFiles /\ Spec => []TypeOK
<1>1. Inv => TypeOK
  <2> SUFFICES ASSUME Inv PROVE TypeOK
    OBVIOUS
  <2>1. ASSUME NEW g \in Games
        PROVE  /\ items[g].key \in {"hash", "name"}
               /\ items[g].attempt \in 0..MaxRetries
               /\ items[g].pc \in {"fetch", "open", "head", "tail", "rename", "done"} =>
                      items[g].media # NoMedia
               /\ items[g].pc \in {"head", "tail", "rename"} =>
                      files.temps[File(g)] = items[g].inode
    <3>1. items[g] \in Items /\ File(g) = g
      BY DEF Inv, Shape
    <3>2. Searched(g) /\ Stored(g)
      BY DEF Inv
    <3> QED
      BY ONLY <3>1, <3>2 DEF Items, Searched, Stored, Chosen, Writing
  <2>2. DOMAIN files.names = Games
    BY DEF Inv, Shape, Files, Names
  <2> QED
    BY <2>1, <2>2 DEF Inv, Shape, Apart, TypeOK
<1> QED
  BY <1>1, SpecInv, PTL

(* ss_download_media: whatever fails or dies when, a file under .media is  *)
(* one body of one of the media of its game, from the first byte to the    *)
(* last.                                                                   *)
THEOREM MediaStaysWhole == DistinctFiles /\ Spec => []MediaIsWhole
<1>1. Inv => MediaIsWhole
  <2> SUFFICES ASSUME Inv, NEW p \in DOMAIN files.names, files.names[p] # 0
               PROVE  \E g \in Games, key \in {"hash", "name"} :
                         /\ File(g) = p
                         /\ \E k \in DOMAIN server[g][key] :
                               files.data[files.names[p]] = Whole(server[g][key][k].url)
    BY DEF MediaIsWhole
  <2>1. p \in Games /\ File(p) = p
    BY DEF Inv, Shape, Files, Names
  <2>2. \E key \in {"hash", "name"} : \E k \in DOMAIN server[p][key] :
           files.data[files.names[p]] = Whole(server[p][key][k].url)
    BY <2>1 DEF Inv, Stored
  <2> QED
    BY <2>1, <2>2
<1> QED
  BY <1>1, SpecInv, PTL

(* resolve_media and ss_search_rom: the file of a finished game holds the  *)
(* best of what the server has for it, by hash or else by name, and for a  *)
(* game that was not found the server has nothing usable by either.  The   *)
(* hash is left out of both when it could not be computed.                 *)
THEOREM VerdictsStayTrue == DistinctFiles /\ Spec => []VerdictsAreTrue
<1>1. Inv => VerdictsAreTrue
  <2> SUFFICES ASSUME Inv, NEW g \in Games
               PROVE  LET hasHash == items[g].hashed /\ Usable(server[g].hash) # {}
                      IN /\ items[g].pc = "done" =>
                               /\ files.names[File(g)] # 0
                               /\ files.data[files.names[File(g)]] = Whole(items[g].media.url)
                               /\ IsBest(items[g].media,
                                         IF hasHash THEN server[g].hash ELSE server[g].name)
                         /\ items[g].pc = "not_found" =>
                               ~hasHash /\ Usable(server[g].name) = {}
    BY DEF VerdictsAreTrue
  <2> DEFINE byHash == ResolveMedia(server[g].hash)
             byName == ResolveMedia(server[g].name)
  <2>1. Searched(g) /\ Stored(g) /\ File(g) = g
    BY DEF Inv, Shape
  <2>2. IsAnswer(server[g].hash) /\ IsAnswer(server[g].name)
    BY Returned
  <2>3. /\ byHash = NoMedia => Usable(server[g].hash) = {}
        /\ byName = NoMedia => Usable(server[g].name) = {}
    BY <2>2, NothingIsMissed
  <2>4. /\ byHash # NoMedia => IsBest(byHash, server[g].hash)
        /\ byName # NoMedia => IsBest(byName, server[g].name)
    BY <2>2, ChosenIsBest
  <2>5. /\ IsBest(byHash, server[g].hash) => Usable(server[g].hash) # {}
        /\ items[g].pc = "done" => items[g].pc \in Chosen
    BY DEF IsBest, Chosen
  <2>6. ASSUME items[g].pc = "done"
        PROVE  IsBest(items[g].media, IF items[g].hashed /\ Usable(server[g].hash) # {}
                                      THEN server[g].hash ELSE server[g].name)
    <3>1. CASE items[g].hashed /\ items[g].media = byHash
      BY <2>1, <2>4, <2>5, <2>6, <3>1 DEF Searched
    <3>2. CASE items[g].media = byName /\ (items[g].hashed => byHash = NoMedia)
      BY <2>1, <2>3, <2>4, <2>5, <2>6, <3>2 DEF Searched
    <3> QED
      BY <2>1, <2>5, <2>6, <3>1, <3>2 DEF Searched
  <2>7. ASSUME items[g].pc = "not_found"
        PROVE  /\ ~(items[g].hashed /\ Usable(server[g].hash) # {})
               /\ Usable(server[g].name) = {}
    BY <2>1, <2>3, <2>7 DEF Searched
  <2> QED
    BY <2>1, <2>6, <2>7 DEF Stored
<1> QED
  BY <1>1, SpecInv, PTL

(* A worker makes the row of a game again from its path and display name,  *)
(* and finds a file to hash wherever there is a disc image.                *)
LEMMA RowComesBack ==
    ASSUME NEW tree, NEW p \in DOMAIN tree, IsGame(tree, p)
    PROVE  LET row == RowOf(tree, p)
               rom == RomFromItem(tree, row.path, row.display)
           IN /\ row.path = p
              /\ rom.multiDisc = row.multiDisc /\ rom.cueFolder = row.cueFolder
              /\ IsDisc(tree, p) /\ ImageTargets(tree, p) # {} => HashTargets(tree, rom) # {}
<1> DEFINE display == IF IsDisc(tree, p) THEN Base(NameOf(p)) ELSE StripExtension(Base(NameOf(p)))
           row == RowOf(tree, p)
           rom == RomFromItem(tree, p, display)
           marked(extension) == IsDir(tree, p) /\ Has(tree, Append(p, Append(display, extension)))
<1>1. /\ row.path = p /\ row.display = display
      /\ row.multiDisc = IsMultiDisc(tree, p) /\ row.cueFolder = IsCueFolder(tree, p)
  BY DEF RowOf, Row
<1>2. /\ rom.path = p /\ rom.multiDisc = marked("m3u")
      /\ rom.cueFolder = (~marked("m3u") /\ marked("cue"))
  BY DEF RomFromItem
<1>3. /\ marked("m3u") = IsMultiDisc(tree, p)
      /\ (~marked("m3u") /\ marked("cue")) = IsCueFolder(tree, p)
  <2>1. CASE IsDisc(tree, p)
    BY <2>1 DEF IsMultiDisc, IsCueFolder, Marker
  <2>2. CASE ~IsDisc(tree, p)
    <3>1. ~IsDir(tree, p)
      BY <2>2 DEF IsGame, IsDir, Has
    <3> QED
      BY <3>1 DEF IsMultiDisc, IsCueFolder
  <2> QED
    BY <2>1, <2>2
<1>4. ASSUME IsDisc(tree, p), ImageTargets(tree, p) # {} PROVE HashTargets(tree, rom) # {}
  <2>1. rom.multiDisc \/ rom.cueFolder
    BY <1>2, <1>3, <1>4 DEF IsDisc
  <2>2. HashTargets(tree, rom) = PrimaryFiles(tree, p, rom.cueFolder)
    BY <1>2, <2>1 DEF HashTargets
  <2> HIDE DEF rom
  <2> QED
    BY <1>4, <2>2 DEF PrimaryFiles
<1> HIDE DEF row, rom, marked
<1>5. rom.multiDisc = row.multiDisc /\ rom.cueFolder = row.cueFolder
  BY <1>1, <1>2, <1>3
<1> QED
  BY <1>1, <1>4, <1>5 DEF row, rom

\* The library is that of the card throughout.
LibraryInv == card \in DOMAIN Cards /\ games = GamesOf(card)

(* LibraryIsComplete: the scans of device.c list every game of a card, and *)
(* the queue's worker makes the same game of its item, for any card with a *)
(* console folder; two games may share an artwork file.                    *)
THEOREM LibraryStaysComplete == Spec => []LibraryIsComplete
<1>1. Init => LibraryInv
  BY DEF Init, LibraryInv
<1>2. LibraryInv /\ [Next]_vars => LibraryInv'
  <2> SUFFICES ASSUME [Next]_vars PROVE UNCHANGED <<card, games>>
    BY DEF LibraryInv, GamesOf
  <2>1. ASSUME NEW g \in Games, Claim(g) \/ Work(g) \/ Requeue(g) PROVE UNCHANGED <<card, games>>
    BY <2>1 DEF Claim, Work, Requeue, Interrupted, Retry, GiveUp, SearchAnswered,
                FetchAnswered, OpenTmp, WriteHead, WriteTail, Rename, StepDone
  <2>2. Stop \/ Resume \/ Crash => UNCHANGED <<card, games>>
    BY DEF Stop, Resume, Crash
  <2> QED
    BY <2>1, <2>2 DEF Next, vars
<1>3. LibraryInv => LibraryIsComplete
  <2> SUFFICES ASSUME LibraryInv PROVE LibraryIsComplete
    OBVIOUS
  <2> DEFINE tree == Cards[card]
             list == Library[card]
             paths == GamePaths(card)
  <2>0. card \in DOMAIN Cards /\ IsCard(tree)
    BY CardsAssumption DEF LibraryInv
  <2>1. /\ Len(list) \in Nat /\ DOMAIN list = 1..Len(list)
        /\ \A g \in DOMAIN list : \E p \in paths : list[g] = RowOf(tree, p)
        /\ \A p \in paths : \E g \in DOMAIN list : list[g] = RowOf(tree, p)
        /\ \A g, h \in DOMAIN list : list[g] = list[h] => g = h
    BY <2>0, LibraryRows
  <2>2. Games = DOMAIN list
    BY DEF Games, LibraryInv, GamesOf
  <2>3. ASSUME NEW p \in paths
        PROVE  LET row == RowOf(tree, p)
                   rom == RomFromItem(tree, row.path, row.display)
               IN /\ row.path = p
                  /\ rom.multiDisc = row.multiDisc /\ rom.cueFolder = row.cueFolder
                  /\ IsDisc(tree, p) /\ ImageTargets(tree, p) # {} => HashTargets(tree, rom) # {}
    <3>1. p \in DOMAIN tree /\ IsGame(tree, p)
      BY DEF GamePaths, IsGame, IsDisc, DiscFolder
    <3> QED
      BY <3>1, RowComesBack
  <2>4. \A p \in DOMAIN tree : IsDisc(tree, p) <=> DiscFolder(card, p)
    BY DEF IsDisc, DiscFolder
  <2>5. {g.path : g \in ScanRoms(tree, Console(card), FALSE)} =
            {p \in paths : \A n \in 2..Len(p) : ~IsDisabled(p[n])}
    <3> DEFINE shown == {p \in paths : \A n \in 2..Len(p) : ~IsDisabled(p[n])}
    <3>1. ScanRoms(tree, Console(card), FALSE) = {RowOf(tree, p) : p \in shown}
      BY <2>0, ConsoleAtTop, ScanFindsGames, GamesAreBelow DEF RowsBelow
    <3>2. \A p \in shown : RowOf(tree, p).path = p
      BY <2>3
    <3> HIDE DEF shown
    <3>3. {g.path : g \in ScanRoms(tree, Console(card), FALSE)} = shown
      <4> DEFINE rows == ScanRoms(tree, Console(card), FALSE)
      <4>1. \A g \in rows : g.path \in shown
        BY <3>1, <3>2
      <4>2. \A p \in shown : \E g \in rows : p = g.path
        BY <3>1, <3>2
      <4> HIDE DEF rows
      <4>3. {g.path : g \in rows} = shown
        BY <4>1, <4>2
      <4> QED
        BY <4>3 DEF rows
    <3> QED
      BY <3>3 DEF shown
  <2> HIDE DEF tree, list, paths
  <2>6. {list[g].path : g \in Games} = paths
    BY <2>1, <2>2, <2>3
  <2>7. Cardinality(paths) = Len(list)
    <3> DEFINE f == [g \in 1..Len(list) |-> list[g].path]
    <3>1. f \in [1..Len(list) -> paths]
      BY <2>1, <2>2, <2>6
    <3>2. \A g, h \in 1..Len(list) : list[g].path = list[h].path => g = h
      BY <2>1, <2>3
    <3>3. f \in Bijection(1..Len(list), paths)
      BY <2>1, <2>2, <2>6, <3>1, <3>2 DEF Bijection, Injection, Surjection, IsInjective
    <3> QED
      BY <2>1, <3>3, FS_CountingElements DEF ExistsBijection
  <2>8. ASSUME NEW g \in Games
        PROVE  LET seen == list[g]
                   rom == RomFromItem(tree, seen.path, seen.display)
               IN /\ rom.multiDisc = seen.multiDisc /\ rom.cueFolder = seen.cueFolder
                  /\ DiscFolder(card, seen.path) /\ ImageTargets(tree, seen.path) # {}
                         => HashTargets(tree, rom) # {}
    <3>1. PICK p \in paths : list[g] = RowOf(tree, p)
      BY <2>1, <2>2
    <3>2. p \in DOMAIN tree
      BY DEF paths, tree, GamePaths
    <3> QED
      BY <2>3, <2>4, <3>1, <3>2
  <2> QED
    BY <2>5, <2>6, <2>7, <2>8 DEF LibraryIsComplete, tree, list, paths
<1> QED
  BY <1>1, <1>2, <1>3, PTL DEF Spec
=============================================================================
