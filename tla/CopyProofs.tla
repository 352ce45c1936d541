------------------------------ MODULE CopyProofs ------------------------------
(***************************************************************************)
(* Lemmas about the lists that scoring, dressing and packing pick from one *)
(* another, and about the copy a draft wears.                              *)
(***************************************************************************)
EXTENDS Dress, TLAPS, FiniteSetTheorems, WellFoundedInduction

------------------------------------------------------------------------------
(* Numbers *)

LEMMA Least ==
  ASSUME NEW S \in SUBSET Nat, S # {}
  PROVE  \E m \in S : \A k \in S : m <= k
<1> DEFINE R == {ss \in Nat \X Nat : ss[1] < ss[2]}
<1>1. IsWellFoundedOn(R, Nat)
  BY NatLessThanWellFounded DEF OpToRel
<1> HIDE DEF R
<1>2. PICK m \in S : \A k \in S : <<k, m>> \notin R
  BY <1>1, WFMin
<1>3. m \in Nat /\ \A k \in S : k \in Nat
  OBVIOUS
<1>4. \A k \in S : <<k, m>> \in Nat \X Nat /\ ~(k < m)
  BY <1>2, <1>3 DEF R
<1>5. ASSUME NEW k \in S PROVE m <= k
  <2>1. k \in Nat /\ ~(k < m)
    BY <1>4
  <2> QED
    BY <1>3, <2>1
<1> QED
  BY <1>5

LEMMA Greatest ==
  ASSUME NEW n \in Nat, NEW S, S \subseteq 1..n, S # {}
  PROVE  \E m \in S : \A k \in S : k <= m
<1> DEFINE Over == {b \in Nat : \A k \in S : k <= b}
<1>1. n \in Over
  OBVIOUS
<1>2. PICK b \in Over : \A k \in Over : b <= k
  BY <1>1, Least
<1>3. b \in Nat /\ \A k \in S : k \in Nat /\ k >= 1 /\ k <= b
  OBVIOUS
<1>4. b # 0
  <2>1. PICK k \in S : TRUE
    OBVIOUS
  <2>2. k \in Nat /\ k >= 1 /\ k <= b
    BY <1>3
  <2> QED
    BY <1>3, <2>2
<1>5. b - 1 \in Nat /\ b - 1 \notin Over
  BY <1>2, <1>3, <1>4
<1>6. PICK k \in S : ~(k <= b - 1)
  BY <1>5
<1>7. k \in Nat /\ k <= b
  BY <1>3
<1>8. k = b
  BY <1>3, <1>5, <1>6, <1>7
<1> QED
  BY <1>3, <1>8

\* Among n places each rank up to their number is taken.
LEMMA Ranked ==
  ASSUME NEW n \in Nat, NEW I, I \subseteq 1..n
  PROVE  /\ IsFiniteSet(I) /\ Cardinality(I) \in Nat
         /\ \A r \in 1..Cardinality(I) : \E i \in I : Cardinality(I \cap (1..i)) = r
<1> DEFINE Below(m) == I \cap (1..m)
<1>1. IsFiniteSet(I) /\ Cardinality(I) \in Nat
  <2>1. IsFiniteSet(1..n)
    BY FS_Interval
  <2>2. IsFiniteSet(I)
    BY <2>1, FS_Subset
  <2> QED
    BY <2>2, FS_CardinalityType
<1> SUFFICES ASSUME NEW r \in 1..Cardinality(I)
             PROVE  \E i \in I : Cardinality(Below(i)) = r
  BY <1>1
<1>2. ASSUME NEW m \in Nat PROVE IsFiniteSet(Below(m)) /\ Cardinality(Below(m)) \in Nat
  BY <1>1, FS_Subset, FS_CardinalityType
<1>3. Below(n) = I /\ Below(0) = {}
  <2>1. 1..0 = {}
    OBVIOUS
  <2> QED
    BY <2>1
<1>4. ASSUME NEW m \in Nat, m # 0
      PROVE  /\ m - 1 \in Nat
             /\ m \notin I => Below(m) = Below(m - 1)
             /\ m \in I => Below(m) = Below(m - 1) \cup {m} /\ m \notin Below(m - 1)
  <2>1. 1..m = 1..(m - 1) \cup {m} /\ m \notin 1..(m - 1) /\ m - 1 \in Nat
    BY <1>4
  <2> QED
    BY <2>1
<1> HIDE DEF Below
<1> DEFINE Enough == {m \in Nat : Cardinality(Below(m)) >= r}
<1>5. n \in Enough
  BY <1>1, <1>3
<1>6. PICK m \in Enough : \A k \in Enough : m <= k
  BY <1>5, Least
<1>7. m \in Nat /\ m # 0
  BY <1>3, FS_EmptySet
<1>8. m - 1 \in Nat /\ m - 1 \notin Enough /\ Cardinality(Below(m)) >= r
  BY <1>6, <1>7
<1>9. Cardinality(Below(m - 1)) < r
  BY <1>1, <1>2, <1>8
<1>10. m \in I
  BY <1>1, <1>2, <1>4, <1>7, <1>8, <1>9
<1>11. Cardinality(Below(m)) = Cardinality(Below(m - 1)) + 1
  BY <1>2, <1>4, <1>7, <1>8, <1>10, FS_AddElement
<1>12. r \in Nat /\ Cardinality(Below(m)) \in Nat /\ Cardinality(Below(m - 1)) \in Nat
  BY <1>1, <1>2, <1>7, <1>8
<1>13. Cardinality(Below(m)) = r
  BY <1>8, <1>9, <1>11, <1>12
<1> QED
  BY <1>10, <1>13

------------------------------------------------------------------------------
(* Lists *)

\* Places keep their order when they are picked.
LEMMA PickedInOrder ==
  ASSUME NEW S, NEW s \in Seq(S), NEW I, I \subseteq DOMAIN s
  PROVE  /\ Cardinality(I) \in Nat /\ DOMAIN Picked(s, I) = 1..Cardinality(I)
         /\ \E place \in [DOMAIN Picked(s, I) -> I] :
              /\ \A k \in DOMAIN Picked(s, I) : Picked(s, I)[k] = s[place[k]]
              /\ \A k, m \in DOMAIN Picked(s, I) : k < m <=> place[k] < place[m]
              /\ \A i \in I : \E k \in DOMAIN Picked(s, I) : place[k] = i
<1> DEFINE n == Len(s)
           Rank(i) == Cardinality(I \cap (1..i))
           Place(r) == CHOOSE i \in I : Rank(i) = r
<1>1. n \in Nat /\ DOMAIN s = 1..n /\ I \subseteq 1..n
  OBVIOUS
<1>2. /\ IsFiniteSet(I) /\ Cardinality(I) \in Nat
      /\ \A r \in 1..Cardinality(I) : \E i \in I : Rank(i) = r
  BY <1>1, Ranked
<1>3. Picked(s, I) = [r \in 1..Cardinality(I) |-> s[Place(r)]]
  BY DEF Picked
<1>4. ASSUME NEW r \in 1..Cardinality(I) PROVE Place(r) \in I /\ Rank(Place(r)) = r
  BY <1>2
<1>5. ASSUME NEW i \in I PROVE IsFiniteSet(I \cap (1..i)) /\ Rank(i) \in 1..Cardinality(I)
  <2>1. IsFiniteSet(I \cap (1..i)) /\ Rank(i) <= Cardinality(I)
    BY <1>2, FS_Subset
  <2>2. i \in I \cap (1..i)
    BY <1>1
  <2>3. Rank(i) \in Nat /\ Rank(i) # 0
    BY <2>1, <2>2, FS_CardinalityType, FS_EmptySet
  <2> QED
    BY <1>2, <2>1, <2>3
<1>6. ASSUME NEW i \in I, NEW j \in I, i < j PROVE Rank(i) < Rank(j)
  <2>1. j \in I \cap (1..j) /\ j \notin I \cap (1..i) /\ I \cap (1..i) \subseteq I \cap (1..j)
    BY <1>1, <1>6
  <2>2. Rank(i) <= Rank(j) /\ Rank(i) # Rank(j)
    BY <1>5, <2>1, FS_Subset
  <2>3. Rank(i) \in 1..Cardinality(I) /\ Rank(j) \in 1..Cardinality(I)
    BY <1>5
  <2> HIDE DEF Rank
  <2> QED
    BY <1>2, <2>2, <2>3
<1>7. ASSUME NEW i \in I PROVE Place(Rank(i)) = i
  <2>1. Rank(i) \in 1..Cardinality(I)
    BY <1>5
  <2>2. Place(Rank(i)) \in I /\ Rank(Place(Rank(i))) = Rank(i)
    BY <1>4, <2>1
  <2>3. Place(Rank(i)) \in Nat /\ i \in Nat /\ Rank(i) \in Nat
    BY <1>1, <2>1, <2>2
  <2> HIDE DEF Place, Rank
  <2>4. ~(Place(Rank(i)) < i) /\ ~(i < Place(Rank(i)))
    BY <1>6, <2>2, <2>3
  <2>5. \A x, y \in Nat : ~(x < y) /\ ~(y < x) => x = y
    OBVIOUS
  <2> QED
    BY <2>3, <2>4, <2>5
<1> DEFINE place == [r \in 1..Cardinality(I) |-> Place(r)]
<1> HIDE DEF Rank, Place
<1>8. /\ DOMAIN Picked(s, I) = 1..Cardinality(I) /\ place \in [DOMAIN Picked(s, I) -> I]
      /\ \A k \in DOMAIN Picked(s, I) : Picked(s, I)[k] = s[place[k]]
  BY <1>3, <1>4
<1>9. \A i \in I : \E k \in DOMAIN Picked(s, I) : place[k] = i
  BY <1>5, <1>7, <1>8
<1>10. ASSUME NEW k \in DOMAIN Picked(s, I), NEW m \in DOMAIN Picked(s, I)
       PROVE  k < m <=> place[k] < place[m]
  <2>1. /\ place[k] \in I /\ Rank(place[k]) = k /\ place[m] \in I /\ Rank(place[m]) = m
        /\ k \in Nat /\ m \in Nat
    BY <1>2, <1>4, <1>8
  <2>2. place[k] \in Nat /\ place[m] \in Nat
    BY <1>1, <2>1
  <2> HIDE DEF place
  <2>3. place[k] < place[m] => k < m
    BY <1>6, <2>1
  <2>4. place[m] < place[k] => m < k
    BY <1>6, <2>1
  <2>5. place[m] = place[k] => m = k
    BY <2>1
  <2> QED
    BY <2>1, <2>2, <2>3, <2>4, <2>5
<1> QED
  BY <1>2, <1>8, <1>9, <1>10

\* A picked list holds what stood at the places, all of it and nothing else.
LEMMA PickedIsList ==
  ASSUME NEW S, NEW s \in Seq(S), NEW I, I \subseteq DOMAIN s
  PROVE  /\ Picked(s, I) \in Seq(S)
         /\ \A k \in DOMAIN Picked(s, I) : \E i \in I : Picked(s, I)[k] = s[i]
         /\ \A i \in I : \E k \in DOMAIN Picked(s, I) : Picked(s, I)[k] = s[i]
<1> DEFINE p == Picked(s, I)
<1>1. /\ Cardinality(I) \in Nat /\ DOMAIN p = 1..Cardinality(I)
      /\ \E place \in [DOMAIN p -> I] :
           /\ \A k \in DOMAIN p : p[k] = s[place[k]]
           /\ \A i \in I : \E k \in DOMAIN p : place[k] = i
  BY PickedInOrder
<1>2. p = [k \in 1..Cardinality(I) |-> p[k]]
  BY DEF Picked
<1> HIDE DEF p
<1>3. /\ \A k \in DOMAIN p : \E i \in I : p[k] = s[i]
      /\ \A i \in I : \E k \in DOMAIN p : p[k] = s[i]
  BY <1>1
<1>4. \A k \in DOMAIN p : p[k] \in S
  BY <1>3
<1>5. p \in Seq(S)
  BY <1>1, <1>2, <1>4
<1> QED
  BY <1>3, <1>5 DEF p

\* A list whose head is picked keeps its head.
LEMMA PickedHead ==
  ASSUME NEW S, NEW s \in Seq(S), NEW I, I \subseteq DOMAIN s, 1 \in I
  PROVE  Picked(s, I) # <<>> /\ 1 \in DOMAIN Picked(s, I) /\ Picked(s, I)[1] = s[1]
<1> DEFINE p == Picked(s, I)
<1>1. PICK place \in [DOMAIN p -> I] :
           /\ \A k \in DOMAIN p : p[k] = s[place[k]]
           /\ \A k, m \in DOMAIN p : k < m <=> place[k] < place[m]
           /\ \A i \in I : \E k \in DOMAIN p : place[k] = i
  BY PickedInOrder
<1>2. p \in Seq(S)
  BY PickedIsList
<1> HIDE DEF p
<1>3. PICK k \in DOMAIN p : place[k] = 1
  BY <1>1
<1>4. 1 \in DOMAIN p /\ k \in Nat /\ k >= 1
  BY <1>2, <1>3
<1>5. place[1] \in Nat /\ place[1] >= 1
  BY <1>1, <1>4
<1>6. ~(1 < k)
  BY <1>1, <1>3, <1>4, <1>5
<1>7. k = 1
  BY <1>4, <1>6
<1> QED
  BY <1>1, <1>3, <1>4, <1>7 DEF p

\* FirstWhere, written out, is 0 or the first of the good places.
LEMMA FirstPlace ==
  ASSUME NEW n \in Nat, NEW I, I \subseteq 1..n, I # {}
  PROVE  /\ (CHOOSE i \in I : \A j \in I : i <= j) \in I
         /\ (CHOOSE i \in I : \A j \in I : i <= j) # 0
<1>1. \E i \in I : \A j \in I : i <= j
  BY Least
<1>2. (CHOOSE i \in I : \A j \in I : i <= j) \in I
  BY <1>1
<1>3. 0 \notin I
  OBVIOUS
<1> QED
  BY <1>2, <1>3

LEMMA NoSignGiven ==
  ASSUME NEW n \in Nat, NEW order, DOMAIN order = 1..n, NEW signs, FirstSign(order, signs) = 0
  PROVE  \A i \in DOMAIN order : order[i] \notin signs
<1> DEFINE good == {i \in DOMAIN order : order[i] \in signs}
<1>1. good \subseteq 1..n
  OBVIOUS
<1>2. FirstSign(order, signs) = IF good = {} THEN 0 ELSE CHOOSE i \in good : \A j \in good : i <= j
  BY DEF FirstSign, FirstWhere
<1>3. good = {}
  BY <1>1, <1>2, FirstPlace
<1> QED
  BY <1>3

LEMMA ShipIsShown ==
  ASSUME NEW S, NEW fs \in Seq(S), HasShip(fs)
  PROVE  ProofUrl(fs) \in ShipUrls /\ FirstShip(fs) \in ShipUrls
<1> DEFINE ships == {i \in DOMAIN fs : fs[i].url \in ShipUrls}
           place == CHOOSE i \in ships : \A j \in ships : i <= j
<1>1. ships \subseteq 1..Len(fs) /\ Len(fs) \in Nat
  OBVIOUS
<1>2. ships # {}
  BY DEF HasShip, Urls, FactsOf
<1>3. place \in ships /\ place # 0
  BY <1>1, <1>2, FirstPlace
<1>4. ProofUrl(fs) = fs[place].url
  BY <1>2, <1>3 DEF ProofUrl, FirstWhere
<1>5. FirstShip(fs) = fs[place].url
  BY <1>2, <1>3 DEF FirstShip, FirstWhere
<1> QED
  BY <1>3, <1>4, <1>5

------------------------------------------------------------------------------
(* Copy: what is worn was said *)

SaidIn(texts) == UNION {texts[i] : i \in DOMAIN texts}

LEMMA StripCuts ==
  ASSUME NEW text, NEW mark
  PROVE  /\ Strip(text, mark) \subseteq text \/ Strip(text, mark) = Gone
         /\ Strip(text, mark) \subseteq text \cup {"short"}
         /\ mark \notin Gone => mark \notin Strip(text, mark)
  BY DEF Strip, Gone

LEMMA WornTextIsSaid ==
  ASSUME NEW f, NEW fs, WornText(f, fs) # Gone
  PROVE  WornText(f, fs) \subseteq f.text
<1> DEFINE said == Strip(f.text, "mention")
<1>1. said \subseteq f.text \/ said = Gone
  BY StripCuts
<1>2. WornText(f, fs) = said \/ WornText(f, fs) = Strip(said, "oss_claim")
  BY DEF WornText
<1>3. Strip(said, "oss_claim") \subseteq said \/ Strip(said, "oss_claim") = Gone
  BY StripCuts
<1>4. Strip(Gone, "oss_claim") = Gone
  BY DEF Strip, Gone
<1> HIDE DEF said
<1> QED
  BY <1>1, <1>2, <1>3, <1>4

LEMMA WornIsSaid ==
  ASSUME NEW S, NEW fs \in Seq(S)
  PROVE  /\ WornFacts(fs) \in Seq(S) /\ FactsOf(WornFacts(fs)) \subseteq FactsOf(fs)
         /\ Worn(fs) \in Seq(SUBSET TextShows(fs)) /\ DOMAIN Worn(fs) = DOMAIN WornFacts(fs)
<1> DEFINE Keep(f) == ~IsArtifactStub(f) /\ ~IsParentFact(f) /\ WornText(f, fs) # Gone
           places == {i \in DOMAIN fs : Keep(fs[i])}
           kept == WornFacts(fs)
<1>1. kept = Picked(fs, places)
  BY DEF WornFacts
<1>0. places \subseteq DOMAIN fs
  OBVIOUS
<1> HIDE DEF places, kept
<1>2. /\ kept \in Seq(S)
      /\ \A k \in DOMAIN kept : \E i \in places : kept[k] = fs[i]
  BY <1>0, <1>1, PickedIsList
<1>3. ASSUME NEW k \in DOMAIN kept
      PROVE  kept[k] \in FactsOf(fs) /\ WornText(kept[k], fs) \subseteq TextShows(fs)
  <2>1. PICK i \in places : kept[k] = fs[i]
    BY <1>2
  <2>2. WornText(kept[k], fs) \subseteq kept[k].text
    BY <2>1, WornTextIsSaid DEF places
  <2>3. kept[k] \in FactsOf(fs)
    BY <1>0, <2>1 DEF FactsOf
  <2> QED
    BY <2>2, <2>3 DEF TextShows
<1>4. DOMAIN kept = 1..Len(kept) /\ Len(kept) \in Nat
  BY <1>2
<1>5. Worn(fs) = [k \in 1..Len(kept) |-> WornText(kept[k], fs)]
  BY <1>4 DEF Worn, kept
<1>6. Worn(fs) \in Seq(SUBSET TextShows(fs)) /\ DOMAIN Worn(fs) = DOMAIN kept
  BY <1>3, <1>4, <1>5
<1>7. FactsOf(kept) \subseteq FactsOf(fs)
  BY <1>3 DEF FactsOf
<1> QED
  BY <1>2, <1>6, <1>7 DEF kept

LEMMA CopyIsList ==
  ASSUME NEW T, NEW texts \in Seq(T), texts # <<>>
  PROVE  Copy(texts) \in Seq(T) /\ Copy(texts) # <<>>
<1>1. texts[1] \in T
  OBVIOUS
<1>2. Rest(texts) \in Seq(T)
  BY PickedIsList DEF Rest
<1> QED
  BY <1>1, <1>2 DEF Copy, OneLiner

LEMMA SlotIsWorn ==
  ASSUME NEW S, NEW fs \in Seq(S), NEW T, Worn(fs) \in Seq(T), NEW kind, NEW mark
  PROVE  Slot(fs, kind, mark) \in Seq(T)
<1> DEFINE kept == WornFacts(fs)
           texts == Worn(fs)
           labelled == {i \in DOMAIN kept : kept[i].kind = kind}
           shown == {i \in DOMAIN texts : mark \in texts[i]}
           last == CHOOSE k \in labelled : \A n \in labelled : n <= k
           first == CHOOSE k \in shown : \A n \in shown : k <= n
<1>0. texts \in Seq(T) /\ DOMAIN texts = DOMAIN kept
  BY WornIsSaid
<1>1. /\ texts \in Seq(T) /\ DOMAIN texts = DOMAIN kept
      /\ Len(texts) \in Nat /\ DOMAIN texts = 1..Len(texts)
  BY <1>0
<1>2. Slot(fs, kind, mark) =
        IF labelled # {} THEN <<texts[last]>>
        ELSE IF (IF shown = {} THEN 0 ELSE first) # 0 THEN <<texts[IF shown = {} THEN 0 ELSE first]>>
        ELSE <<>>
  BY DEF Slot, FirstWhere
<1>3. labelled # {} => last \in labelled
  <2>1. labelled # {} => \E k \in labelled : \A n \in labelled : n <= k
    BY <1>1, Greatest
  <2> QED
    BY <2>1
<1>4. shown # {} => first \in shown
  BY <1>1, FirstPlace
<1> HIDE DEF last, first
<1>5. /\ labelled # {} => texts[last] \in T
      /\ shown # {} => texts[first] \in T
  BY <1>1, <1>3, <1>4
<1> HIDE DEF kept, texts, labelled, shown
<1>6. \/ labelled # {} /\ Slot(fs, kind, mark) = <<texts[last]>>
      \/ shown # {} /\ Slot(fs, kind, mark) = <<texts[first]>>
      \/ Slot(fs, kind, mark) = <<>>
  BY <1>2
<1>7. <<>> \in Seq(T) /\ \A t \in T : <<t>> \in Seq(T)
  OBVIOUS
<1> QED
  BY <1>5, <1>6, <1>7

\* A phrase that no left out fact shows is worn, unless it is cut out.
LEMMA WornKeeps ==
  ASSUME NEW S, NEW fs \in Seq(S)
  PROVE  /\ \A f \in FactsOf(WornFacts(fs)) : ~IsArtifactStub(f)
         /\ "mention" \notin SaidIn(Worn(fs))
         /\ \A mark : /\ mark \in TextShows(fs) /\ mark \notin {"mention", "oss_claim"}
                      /\ mark \notin UNION {f.text : f \in FactsOf(fs) \ FactsOf(WornFacts(fs))}
                      => mark \in SaidIn(Worn(fs))
<1> DEFINE Keep(f) == ~IsArtifactStub(f) /\ ~IsParentFact(f) /\ WornText(f, fs) # Gone
           places == {i \in DOMAIN fs : Keep(fs[i])}
           kept == WornFacts(fs)
<1>1. kept = Picked(fs, places) /\ places \subseteq DOMAIN fs
  BY DEF WornFacts
<1> HIDE DEF places, kept
<1>2. \A k \in DOMAIN kept : \E i \in places : kept[k] = fs[i]
  BY <1>1, PickedIsList
<1>3. ASSUME NEW f \in FactsOf(kept) PROVE Keep(f)
  BY <1>2 DEF FactsOf, places
<1>4. Worn(fs) = [k \in DOMAIN kept |-> WornText(kept[k], fs)]
  BY DEF Worn, kept
<1>5. ASSUME NEW f \in FactsOf(kept) PROVE WornText(f, fs) \subseteq SaidIn(Worn(fs))
  BY <1>4 DEF FactsOf, SaidIn
<1>6. ASSUME NEW f PROVE "mention" \notin WornText(f, fs)
  <2>1. "mention" \notin Strip(f.text, "mention")
    BY StripCuts DEF Gone
  <2>2. Strip(Strip(f.text, "mention"), "oss_claim") \subseteq Strip(f.text, "mention") \cup {"short"}
    BY StripCuts
  <2> QED
    BY <2>1, <2>2 DEF WornText
<1>7. ASSUME NEW f, WornText(f, fs) # Gone, NEW mark \in f.text, mark \notin {"mention", "oss_claim"}
      PROVE  mark \in WornText(f, fs)
  <2> DEFINE said == Strip(f.text, "mention")
  <2>1. said = Gone \/ mark \in said
    BY <1>7 DEF Strip
  <2>2. Strip(said, "oss_claim") = Gone \/ (mark \in said => mark \in Strip(said, "oss_claim"))
    BY <1>7 DEF Strip
  <2>3. Strip(Gone, "oss_claim") = Gone
    BY DEF Strip, Gone
  <2>4. WornText(f, fs) = said \/ WornText(f, fs) = Strip(said, "oss_claim")
    BY DEF WornText
  <2> HIDE DEF said
  <2> QED
    BY <1>7, <2>1, <2>2, <2>3, <2>4
<1>8. ASSUME NEW mark, mark \in TextShows(fs), mark \notin {"mention", "oss_claim"},
             mark \notin UNION {f.text : f \in FactsOf(fs) \ FactsOf(kept)}
      PROVE  mark \in SaidIn(Worn(fs))
  <2>1. PICK f \in FactsOf(fs) : mark \in f.text
    BY <1>8 DEF TextShows
  <2>2. f \in FactsOf(kept)
    BY <1>8, <2>1
  <2> QED
    BY <1>3, <1>5, <1>7, <1>8, <2>1, <2>2
<1>9. "mention" \notin SaidIn(Worn(fs))
  BY <1>4, <1>6 DEF SaidIn
<1> QED
  BY <1>3, <1>8, <1>9 DEF kept

LEMMA CopySays ==
  ASSUME NEW T, NEW texts \in Seq(T), texts # <<>>
  PROVE  /\ Copy(texts)[1] = texts[1]
         /\ FactsOf(Copy(texts)) = FactsOf(texts) /\ SaidIn(Copy(texts)) = SaidIn(texts)
<1> DEFINE left == {i \in DOMAIN texts : texts[i] # texts[1]}
           rest == Rest(texts)
<1>1. rest = Picked(texts, left) /\ left \subseteq DOMAIN texts
  BY DEF Rest
<1>2. texts[1] \in T /\ 1 \in DOMAIN texts
  OBVIOUS
<1> HIDE DEF rest, left
<1>3. /\ rest \in Seq(T)
      /\ \A k \in DOMAIN rest : \E i \in left : rest[k] = texts[i]
      /\ \A i \in left : \E k \in DOMAIN rest : rest[k] = texts[i]
  BY <1>1, PickedIsList
<1>4. Copy(texts) = <<texts[1]>> \o rest
  BY DEF Copy, OneLiner, rest
<1>5. /\ DOMAIN Copy(texts) = 1..(Len(rest) + 1) /\ Copy(texts)[1] = texts[1]
      /\ \A k \in DOMAIN rest : Copy(texts)[k + 1] = rest[k]
      /\ \A k \in DOMAIN Copy(texts) : k = 1 \/ (k - 1 \in DOMAIN rest /\ Copy(texts)[k] = rest[k - 1])
  BY <1>2, <1>3, <1>4
<1>6. \A k \in DOMAIN rest : k + 1 \in DOMAIN Copy(texts)
  BY <1>3, <1>5
<1>7. ASSUME NEW k \in DOMAIN Copy(texts) PROVE Copy(texts)[k] \in FactsOf(texts)
  BY <1>1, <1>2, <1>3, <1>5 DEF FactsOf
<1>8. ASSUME NEW i \in DOMAIN texts PROVE texts[i] \in FactsOf(Copy(texts))
  <2>1. CASE texts[i] = texts[1]
    <3>1. 1 \in DOMAIN Copy(texts)
      BY <1>3, <1>5
    <3> QED
      BY <1>5, <2>1, <3>1 DEF FactsOf
  <2>2. CASE texts[i] # texts[1]
    <3>1. PICK k \in DOMAIN rest : rest[k] = texts[i]
      BY <1>3, <2>2 DEF left
    <3> QED
      BY <1>5, <1>6, <3>1 DEF FactsOf
  <2> QED
    BY <2>1, <2>2
<1>9. FactsOf(Copy(texts)) = FactsOf(texts)
  BY <1>7, <1>8 DEF FactsOf
<1>10. \A s : SaidIn(s) = UNION FactsOf(s)
  BY DEF SaidIn, FactsOf
<1> QED
  BY <1>5, <1>9, <1>10

\* A slot holds a line as soon as the worn copy shows the mark.
LEMMA SlotHolds ==
  ASSUME NEW S, NEW fs \in Seq(S), NEW kind, NEW mark, mark \in SaidIn(Worn(fs))
  PROVE  Slot(fs, kind, mark) # <<>>
<1> DEFINE kept == WornFacts(fs)
           texts == Worn(fs)
           labelled == {i \in DOMAIN kept : kept[i].kind = kind}
           shown == {i \in DOMAIN texts : mark \in texts[i]}
           last == CHOOSE k \in labelled : \A n \in labelled : n <= k
           first == CHOOSE k \in shown : \A n \in shown : k <= n
<1>1. texts \in Seq(SUBSET TextShows(fs))
  BY WornIsSaid
<1>2. shown # {} /\ shown \subseteq 1..Len(texts) /\ Len(texts) \in Nat
  BY <1>1 DEF SaidIn
<1>3. Slot(fs, kind, mark) =
        IF labelled # {} THEN <<texts[last]>>
        ELSE IF (IF shown = {} THEN 0 ELSE first) # 0 THEN <<texts[IF shown = {} THEN 0 ELSE first]>>
        ELSE <<>>
  BY DEF Slot, FirstWhere
<1>4. first # 0
  BY <1>2, FirstPlace
<1> HIDE DEF first, last, labelled, texts, shown
<1>5. \A t : <<t>> # <<>>
  OBVIOUS
<1> QED
  BY <1>2, <1>3, <1>4, <1>5

LEMMA ProofUrlIsPlain ==
  ASSUME NEW S, NEW fs \in Seq(S)
  PROVE  /\ ProofUrl(fs) \in (TryableUrls \ NotProof) \cup {"none"}
         /\ FirstShip(fs) \in (TryableUrls \ NotProof) \cup {"none"}
<1> DEFINE ships == {i \in DOMAIN fs : fs[i].url \in ShipUrls}
           proofs == {i \in DOMAIN fs : fs[i].url \in TryableUrls \ NotProof}
           First(I) == CHOOSE i \in I : \A j \in I : i <= j
<1>1. ships \subseteq 1..Len(fs) /\ proofs \subseteq 1..Len(fs) /\ Len(fs) \in Nat
  OBVIOUS
<1>2. /\ ships # {} => First(ships) \in ships /\ First(ships) # 0
      /\ proofs # {} => First(proofs) \in proofs /\ First(proofs) # 0
  BY <1>1, FirstPlace
<1>3. ShipUrls \subseteq TryableUrls \ NotProof
  BY DEF ShipUrls, OurShip, TryableUrls, NotProof, RankingUrls
<1>4. /\ ProofUrl(fs) = IF (IF ships = {} THEN 0 ELSE First(ships)) # 0
                          THEN fs[IF ships = {} THEN 0 ELSE First(ships)].url
                        ELSE IF (IF proofs = {} THEN 0 ELSE First(proofs)) # 0
                          THEN fs[IF proofs = {} THEN 0 ELSE First(proofs)].url ELSE "none"
      /\ FirstShip(fs) = IF (IF ships = {} THEN 0 ELSE First(ships)) # 0
                           THEN fs[IF ships = {} THEN 0 ELSE First(ships)].url ELSE "none"
  BY DEF ProofUrl, FirstShip, FirstWhere
<1>5. /\ \A i \in ships : fs[i].url \in ShipUrls
      /\ \A i \in proofs : fs[i].url \in TryableUrls \ NotProof
  OBVIOUS
<1> HIDE DEF ships, proofs, First
<1>6. \/ ships # {} /\ ProofUrl(fs) = fs[First(ships)].url /\ FirstShip(fs) = fs[First(ships)].url
      \/ ships = {} /\ proofs # {} /\ ProofUrl(fs) = fs[First(proofs)].url /\ FirstShip(fs) = "none"
      \/ ProofUrl(fs) = "none" /\ FirstShip(fs) = "none"
  BY <1>2, <1>4
<1> QED
  BY <1>2, <1>3, <1>5, <1>6

\* Each text is a line of the blob.
LEMMA TextIsLine ==
  ASSUME NEW S, NEW fs \in Seq(S)
  PROVE  /\ \A i \in DOMAIN fs : \E n \in DOMAIN Lines(fs) : Lines(fs)[n] = fs[i].text
         /\ TextShows(fs) \subseteq SaidIn(Lines(fs))
         /\ SaidIn(Lines(fs)) \subseteq TextShows(fs) \cup {"short", "url"}
<1>1. ASSUME NEW i \in DOMAIN fs
      PROVE  \E n \in DOMAIN Lines(fs) : Lines(fs)[n] = fs[i].text
  <2> DEFINE n == 3 * i - 2
  <2>1. i \in 1..Len(fs) /\ Len(fs) \in Nat
    OBVIOUS
  <2>2. n \in 1..(3 * Len(fs)) /\ n % 3 = 1 /\ ((n - 1) \div 3) + 1 = i
    BY <2>1
  <2> HIDE DEF n
  <2>3. Lines(fs)[n] = fs[i].text /\ n \in DOMAIN Lines(fs)
    BY <2>2 DEF Lines
  <2> QED
    BY <2>3
<1>2. ASSUME NEW n \in DOMAIN Lines(fs) PROVE Lines(fs)[n] \subseteq TextShows(fs) \cup {"short", "url"}
  <2> DEFINE k == ((n - 1) \div 3) + 1
  <2>1. n \in 1..(3 * Len(fs)) /\ Len(fs) \in Nat
    BY DEF Lines
  <2>2. k \in DOMAIN fs
    BY <2>1
  <2> HIDE DEF k
  <2>3. fs[k].text \subseteq TextShows(fs)
    BY <2>2 DEF TextShows, FactsOf
  <2>4. \/ Lines(fs)[n] = fs[k].text \/ Lines(fs)[n] = {} \/ Lines(fs)[n] = {"short"}
        \/ Lines(fs)[n] = {"url", "short"}
    BY <2>1 DEF Lines, k
  <2> QED
    BY <2>3, <2>4
<1> QED
  BY <1>1, <1>2 DEF SaidIn, TextShows, FactsOf

------------------------------------------------------------------------------
(* Costumes: each wears texts of the copy and of the slots, or a line of its own *)

LEMMA HnWears ==
  ASSUME NEW T, NEW copy \in Seq(T), copy # <<>>, {} \in T, NEW url, NEW fs, NEW brand,
         DressHn(copy, url, fs, brand) # <<>>
  PROVE  /\ DressHn(copy, url, fs, brand)[1] \in Seq(T) /\ DressHn(copy, url, fs, brand)[2] = url
         /\ DressHn(copy, url, fs, brand)[1][1] = copy[1]
<1> DEFINE backstory == IF Len(copy) > 1 THEN <<copy[2]>>
                        ELSE IF brand.maintainer THEN <<{}>> ELSE <<>>
<1>1. DressHn(copy, url, fs, brand) = <<<<copy[1]>> \o backstory, url>>
  BY DEF DressHn, Dressed
<1>2. copy[1] \in T /\ (Len(copy) > 1 => copy[2] \in T)
  OBVIOUS
<1>3. backstory \in Seq(T)
  BY <1>2
<1> HIDE DEF backstory
<1>4. <<copy[1]>> \o backstory \in Seq(T) /\ (<<copy[1]>> \o backstory)[1] = copy[1]
  BY <1>2, <1>3
<1> QED
  BY <1>1, <1>4

LEMMA LinkedinWears ==
  ASSUME NEW T, NEW copy \in Seq(T), NEW url, NEW brand, DressLinkedin(copy, url, brand) # <<>>
  PROVE  LET body == DressLinkedin(copy, url, brand)
         IN  /\ body[1] \in Seq(T) /\ body[2] = url
             /\ body[1][1] \cap LongFold = {}
             /\ \A n \in DOMAIN copy : \E m \in DOMAIN body[1] : body[1][m] = copy[n]
<1> DEFINE Fold(t) == t \cap ({"pitch", "url"} \cup LongFold) = {} /\ (brand.pillars => "pillar" \in t)
           folds == {k \in DOMAIN copy : Fold(copy[k])}
           i == IF folds = {} THEN 0 ELSE CHOOSE k \in folds : \A n \in folds : k <= n
           left == {k \in DOMAIN copy : copy[k] # copy[i]}
<1>1. DressLinkedin(copy, url, brand) = IF i = 0 THEN <<>> ELSE <<<<copy[i]>> \o Picked(copy, left), url>>
  BY DEF DressLinkedin, Dressed, FirstWhere
<1>2. i # 0
  BY <1>1
<1>3. folds \subseteq 1..Len(copy) /\ Len(copy) \in Nat /\ folds # {}
  BY <1>2
<1>4. i \in folds
  BY <1>3, FirstPlace
<1>5. copy[i] \in T /\ copy[i] \cap LongFold = {}
  <2>1. copy[i] \in T
    BY <1>4
  <2>2. Fold(copy[i])
    BY <1>4
  <2> QED
    BY <2>1, <2>2
<1>6. left \subseteq DOMAIN copy
  OBVIOUS
<1> DEFINE rest == Picked(copy, left)
           lines == <<copy[i]>> \o rest
<1> HIDE DEF i, folds
<1>7. /\ rest \in Seq(T)
      /\ \A n \in left : \E m \in DOMAIN rest : rest[m] = copy[n]
  <2> HIDE DEF left
  <2> QED
    BY <1>6, PickedIsList
<1> HIDE DEF rest
<1>8. /\ lines \in Seq(T) /\ 1 \in DOMAIN lines /\ lines[1] = copy[i]
      /\ \A m \in DOMAIN rest : m + 1 \in DOMAIN lines /\ lines[m + 1] = rest[m]
  BY <1>5, <1>7
<1> HIDE DEF lines
<1>9. ASSUME NEW n \in DOMAIN copy PROVE \E m \in DOMAIN lines : lines[m] = copy[n]
  BY <1>7, <1>8
<1>10. DressLinkedin(copy, url, brand) = <<lines, url>>
  BY <1>1, <1>2 DEF lines, rest
<1> QED
  BY <1>5, <1>8, <1>9, <1>10

LEMMA YoutubeWears ==
  ASSUME NEW T, NEW copy \in Seq(T), NEW url, NEW fs, \A kind, mark : Slot(fs, kind, mark) \in Seq(T),
         DressYoutube(copy, url, fs) # <<>>
  PROVE  DressYoutube(copy, url, fs)[1] \in Seq(T) /\ DressYoutube(copy, url, fs)[2] = url
<1> DEFINE package == Slot(fs, "package", "package")
           paying == {k \in DOMAIN copy : copy[k] # package[1]}
           first == CHOOSE k \in paying : \A n \in paying : k <= n
<1>1. \/ DressYoutube(copy, url, fs) = <<package, url>>
      \/ paying # {} /\ DressYoutube(copy, url, fs) = <<package \o <<copy[first]>>, url>>
  BY DEF DressYoutube, Dressed, FirstWhere
<1>2. paying # {} => first \in paying
  <2>1. paying \subseteq 1..Len(copy) /\ Len(copy) \in Nat
    OBVIOUS
  <2> QED
    BY <2>1, FirstPlace
<1>3. paying # {} => copy[first] \in T
  BY <1>2
<1>4. package \in Seq(T)
  OBVIOUS
<1> HIDE DEF package, paying, first
<1>5. paying # {} => package \o <<copy[first]>> \in Seq(T)
  BY <1>3, <1>4
<1> QED
  BY <1>1, <1>4, <1>5

LEMMA ShortsCutWears ==
  ASSUME NEW T, NEW copy \in Seq(T), NEW hook \in Seq(T), NEW loop \in Seq(T)
  PROVE  ShortsCut(hook, loop, copy) \in Seq(T)
<1> DEFINE spent == {hook[1]} \cup {loop[n] : n \in DOMAIN loop}
           paying == {k \in DOMAIN copy : copy[k] \notin spent}
           i == IF paying = {} THEN 0 ELSE CHOOSE k \in paying : \A n \in paying : k <= n
<1>1. ShortsCut(hook, loop, copy) =
        IF loop # <<>> /\ loop # hook THEN hook \o loop
        ELSE IF i # 0 THEN hook \o <<copy[i]>> ELSE hook
  BY DEF ShortsCut, FirstWhere
<1> HIDE DEF spent
<1>2. i # 0 => i \in DOMAIN copy
  <2>1. paying \subseteq 1..Len(copy) /\ Len(copy) \in Nat
    OBVIOUS
  <2>2. paying # {} => (CHOOSE k \in paying : \A n \in paying : k <= n) \in paying
    BY <2>1, FirstPlace
  <2> QED
    BY <2>2
<1> HIDE DEF i
<1>3. i # 0 => hook \o <<copy[i]>> \in Seq(T)
  BY <1>2
<1> QED
  BY <1>1, <1>3

LEMMA ShortsWears ==
  ASSUME NEW T, NEW copy \in Seq(T), NEW fs, \A kind, mark : Slot(fs, kind, mark) \in Seq(T),
         DressShorts(copy, fs) # <<>>
  PROVE  DressShorts(copy, fs)[1] \in Seq(T) /\ DressShorts(copy, fs)[2] = "none"
<1> DEFINE cut == ShortsCut(Slot(fs, "none", "hook"), Slot(fs, "loop", "loop"), copy)
<1>1. DressShorts(copy, fs) = <<cut, "none">>
  BY DEF DressShorts, NoCallToAct, Dressed
<1>2. cut \in Seq(T)
  BY ShortsCutWears
<1> QED
  BY <1>1, <1>2

LEMMA RedditWears ==
  ASSUME NEW T, NEW copy \in Seq(T), {"room", "short"} \in T, NEW url, NEW fs,
         DressReddit(copy, url, fs) # <<>>
  PROVE  DressReddit(copy, url, fs)[1] \in Seq(T) /\ DressReddit(copy, url, fs)[2] = url
<1>1. DressReddit(copy, url, fs) = <<Append(copy, {"room", "short"}), url>>
  BY DEF DressReddit, Dressed
<1>2. Append(copy, {"room", "short"}) \in Seq(T)
  OBVIOUS
<1> QED
  BY <1>1, <1>2

LEMMA MastodonWears ==
  ASSUME NEW T, NEW copy \in Seq(T), DressMastodon(copy) # <<>>
  PROVE  DressMastodon(copy)[1] \in Seq(T) /\ DressMastodon(copy)[2] = "none"
<1> DEFINE own == {i \in 2..Len(copy) : "clip" \notin copy[i]}
<1>1. DressMastodon(copy) = <<Picked(copy, own), "none">>
  BY DEF DressMastodon, Dressed
<1>2. own \subseteq DOMAIN copy
  OBVIOUS
<1> HIDE DEF own
<1>3. Picked(copy, own) \in Seq(T)
  BY <1>2, PickedIsList
<1> QED
  BY <1>1, <1>3

LEMMA CostumeWears ==
  ASSUME NEW T, NEW copy \in Seq(T), copy # <<>>, {} \in T, {"room", "short"} \in T,
         NEW url, NEW fs, NEW brand, \A kind, mark : Slot(fs, kind, mark) \in Seq(T),
         NEW arena \in Arenas, Costume(arena, copy, url, fs, brand) # <<>>
  PROVE  /\ Costume(arena, copy, url, fs, brand)[1] \in Seq(T)
         /\ Costume(arena, copy, url, fs, brand)[2] =
              IF arena \in {"shorts", "mastodon", "discord"} THEN "none"
              ELSE IF arena = "bluesky" THEN FirstShip(fs) ELSE url
<1> DEFINE body == Costume(arena, copy, url, fs, brand)
           Wears(u) == body[1] \in Seq(T) /\ body[2] = u
<1>1. copy[1] \in T /\ <<copy[1]>> \in Seq(T)
  OBVIOUS
<1>2. CASE arena = "github"
  <2>1. body = <<copy, url>>
    BY <1>2 DEF Costume, DressGithub, Dressed
  <2> QED
    BY <1>2, <2>1
<1>3. CASE arena = "hn"
  <2>1. body = DressHn(copy, url, fs, brand)
    BY <1>3 DEF Costume
  <2>2. Wears(url)
    BY <2>1, HnWears
  <2> QED
    BY <1>3, <2>2
<1>4. CASE arena = "x"
  <2>1. body = <<<<copy[1]>>, url>>
    BY <1>4 DEF Costume, DressX, Dressed
  <2> QED
    BY <1>1, <1>4, <2>1
<1>5. CASE arena = "linkedin"
  <2>1. body = DressLinkedin(copy, url, brand)
    BY <1>5 DEF Costume
  <2>2. Wears(url)
    BY <2>1, LinkedinWears
  <2> QED
    BY <1>5, <2>2
<1>6. CASE arena = "youtube"
  <2>1. body = DressYoutube(copy, url, fs)
    BY <1>6 DEF Costume
  <2>2. Wears(url)
    BY <2>1, YoutubeWears
  <2> QED
    BY <1>6, <2>2
<1>7. CASE arena = "shorts"
  <2>1. body = DressShorts(copy, fs)
    BY <1>7 DEF Costume
  <2>2. Wears("none")
    BY <2>1, ShortsWears
  <2> QED
    BY <1>7, <2>2
<1>8. CASE arena = "reddit"
  <2>1. body = DressReddit(copy, url, fs)
    BY <1>8 DEF Costume
  <2>2. Wears(url)
    BY <2>1, RedditWears
  <2> QED
    BY <1>8, <2>2
<1>9. CASE arena = "newsletter"
  <2>1. body = <<copy, url>>
    BY <1>9 DEF Costume, Dressed
  <2> QED
    BY <1>9, <2>1
<1>10. CASE arena = "bluesky"
  <2>1. body = <<<<copy[1]>>, FirstShip(fs)>>
    BY <1>10 DEF Costume, Dressed
  <2>2. Wears(FirstShip(fs))
    BY <1>1, <2>1
  <2> QED
    BY <1>10, <2>2
<1>11. CASE arena = "mastodon"
  <2>1. body = DressMastodon(copy)
    BY <1>11 DEF Costume
  <2>2. Wears("none")
    BY <2>1, MastodonWears
  <2> QED
    BY <1>11, <2>2
<1>12. CASE arena = "discord"
  <2>1. body = <<copy, "none">>
    BY <1>12 DEF Costume, Dressed
  <2> QED
    BY <1>12, <2>1
<1> QED
  BY <1>2, <1>3, <1>4, <1>5, <1>6, <1>7, <1>8, <1>9, <1>10, <1>11, <1>12 DEF Arenas

LEMMA HnFits ==
  ASSUME NEW T, NEW copy \in Seq(T), copy # <<>>, NEW url \in TryableUrls \ NotProof, NEW fs, NEW brand,
         copy[1] \cap ({"listicle", "shouty", "emoji", "merged_pr"} \cup LongTitle) = {},
         ~BotBump({t \in FactsOf(copy) : "readme_install" \notin t}),
         SaidIn(copy) \cap {"store_pitch", "launch_pitch"} = {},
         ~(Len(copy) = 1 /\ ~brand.maintainer)
  PROVE  DressHn(copy, url, fs, brand) # <<>>
<1> DEFINE backstory == IF Len(copy) > 1 THEN <<copy[2]>>
                        ELSE IF brand.maintainer THEN <<{}>> ELSE <<>>
           bits == {t \in {copy[i] : i \in DOMAIN copy} : "readme_install" \notin t}
<1>1. \A t : <<t>> # <<>>
  OBVIOUS
<1>2. Len(copy) > 1 \/ Len(copy) = 1
  <2>1. Len(copy) \in Nat /\ Len(copy) # 0
    OBVIOUS
  <2>2. \A n \in Nat : n # 0 => n > 1 \/ n = 1
    OBVIOUS
  <2> HIDE DEF backstory, bits
  <2> QED
    BY <2>1, <2>2
<1>3. backstory # <<>>
  BY <1>1, <1>2
<1>4. ~BotBump(bits) /\ (UNION {copy[i] : i \in DOMAIN copy}) \cap {"store_pitch", "launch_pitch"} = {}
  BY DEF FactsOf, SaidIn
<1>5. ~MergeLog(copy)
  BY DEF MergeLog
<1> HIDE DEF backstory
<1>6. DressHn(copy, url, fs, brand) = <<<<copy[1]>> \o backstory, url>>
  BY <1>3, <1>4, <1>5 DEF DressHn, Dressed, backstory
<1> QED
  BY <1>6

LEMMA FoldFits ==
  ASSUME NEW T, NEW copy \in Seq(T), NEW url, NEW brand, NEW k \in DOMAIN copy,
         copy[k] \cap ({"pitch", "url"} \cup LongFold) = {}, brand.pillars => "pillar" \in copy[k]
  PROVE  DressLinkedin(copy, url, brand) # <<>>
<1> DEFINE Fold(t) == t \cap ({"pitch", "url"} \cup LongFold) = {} /\ (brand.pillars => "pillar" \in t)
           folds == {n \in DOMAIN copy : Fold(copy[n])}
           i == IF folds = {} THEN 0 ELSE CHOOSE n \in folds : \A m \in folds : n <= m
           left == {n \in DOMAIN copy : copy[n] # copy[i]}
<1>1. DressLinkedin(copy, url, brand) = IF i = 0 THEN <<>> ELSE <<<<copy[i]>> \o Picked(copy, left), url>>
  BY DEF DressLinkedin, Dressed, FirstWhere
<1>2. k \in folds
  OBVIOUS
<1>3. folds \subseteq 1..Len(copy) /\ Len(copy) \in Nat
  OBVIOUS
<1>4. i # 0
  BY <1>2, <1>3, FirstPlace
<1> HIDE DEF i, left
<1> QED
  BY <1>1, <1>4

LEMMA LinkedinFits ==
  ASSUME NEW T, NEW copy \in Seq(T), NEW url, NEW brand, NEW k \in DOMAIN copy,
         Insight(copy[k]), brand.pillars => "pillar" \in copy[k]
  PROVE  DressLinkedin(copy, url, brand) # <<>>
  BY FoldFits DEF Insight

LEMMA FoldFound ==
  ASSUME NEW copy, NEW url, NEW brand, DressLinkedin(copy, url, brand) # <<>>
  PROVE  \E k \in DOMAIN copy : copy[k] \cap ({"pitch", "url"} \cup LongFold) = {}
                               /\ (brand.pillars => "pillar" \in copy[k])
<1> DEFINE Fold(t) == t \cap ({"pitch", "url"} \cup LongFold) = {} /\ (brand.pillars => "pillar" \in t)
           folds == {n \in DOMAIN copy : Fold(copy[n])}
           i == IF folds = {} THEN 0 ELSE CHOOSE n \in folds : \A m \in folds : n <= m
<1>1. DressLinkedin(copy, url, brand) = IF i = 0 THEN <<>> ELSE
        <<<<copy[i]>> \o Picked(copy, {n \in DOMAIN copy : copy[n] # copy[i]}), url>>
  BY DEF DressLinkedin, Dressed, FirstWhere
<1>2. folds # {}
  BY <1>1
<1> QED
  BY <1>2

\* A cinema draft opens with its package.
LEMMA YoutubeFits ==
  ASSUME NEW T, NEW copy \in Seq(T), NEW url, NEW fs, Slot(fs, "package", "package") \in Seq(T),
         Slot(fs, "package", "package") # <<>>,
         FairLoopReason(Shows(fs), {}) # "fair_cta_with_loop"
  PROVE  LET body == DressYoutube(copy, url, fs)
         IN  /\ body # <<>> /\ 1 \in DOMAIN body[1]
             /\ body[1][1] = Slot(fs, "package", "package")[1]
<1> DEFINE package == Slot(fs, "package", "package")
           paying == {k \in DOMAIN copy : copy[k] # package[1]}
           first == CHOOSE k \in paying : \A n \in paying : k <= n
<1>1. \/ DressYoutube(copy, url, fs) = <<package, url>>
      \/ DressYoutube(copy, url, fs) = <<package \o <<copy[first]>>, url>>
  BY DEF DressYoutube, Dressed, FirstWhere
<1> HIDE DEF first, package
<1>2. package \in Seq(T) /\ package # <<>>
  BY DEF package
<1>3. 1 \in DOMAIN package
  BY <1>2
<1>4. \A t : 1 \in DOMAIN (package \o <<t>>) /\ (package \o <<t>>)[1] = package[1]
  BY <1>2
<1> QED
  BY <1>1, <1>3, <1>4 DEF package

LEMMA ShortsFits ==
  ASSUME NEW T, NEW copy \in Seq(T), NEW fs, \A kind, mark : Slot(fs, kind, mark) \in Seq(T),
         \A t \in T : "cta" \notin t, Slot(fs, "none", "hook") # <<>>,
         FairHookReason(Shows(fs)) = "ok", FairLoopReason(Shows(fs), {}) = "ok"
  PROVE  DressShorts(copy, fs) # <<>>
<1> DEFINE cut == ShortsCut(Slot(fs, "none", "hook"), Slot(fs, "loop", "loop"), copy)
<1>1. DressShorts(copy, fs) = NoCallToAct(cut)
  BY DEF DressShorts
<1>2. cut \in Seq(T)
  BY ShortsCutWears
<1> HIDE DEF cut
<1>3. NoCallToAct(cut) = <<cut, "none">>
  BY <1>2 DEF NoCallToAct, Dressed
<1> QED
  BY <1>1, <1>3

------------------------------------------------------------------------------
(* The draft *)

WornUrl(arena, fs) ==
  IF arena \in {"shorts", "mastodon", "discord"} THEN "none"
  ELSE IF arena = "bluesky" THEN FirstShip(fs) ELSE ProofUrl(fs)

LEMMA LastStripCuts ==
  ASSUME NEW T, NEW texts \in Seq(SUBSET T), "short" \in T
  PROVE  /\ SaidIn(LastStrip(texts)) \subseteq T
         /\ SaidIn(LastStrip(texts)) \subseteq SaidIn(texts) \cup {"short"}
         /\ ~UnlicensedOss(SaidIn(LastStrip(texts)))
<1>1. CASE UnlicensedOss(SaidIn(texts))
  <2>1. LastStrip(texts) = [i \in DOMAIN texts |-> Strip(texts[i], "oss_claim")]
    BY <1>1 DEF LastStrip, SaidIn
  <2>2. ASSUME NEW i \in DOMAIN texts
        PROVE  /\ Strip(texts[i], "oss_claim") \subseteq texts[i] \cup {"short"}
               /\ "oss_claim" \notin Strip(texts[i], "oss_claim") /\ texts[i] \subseteq T
    BY StripCuts DEF Gone
  <2>3. "oss_claim" \notin SaidIn(LastStrip(texts))
    BY <2>1, <2>2 DEF SaidIn
  <2> QED
    BY <2>1, <2>2, <2>3 DEF SaidIn, UnlicensedOss
<1>2. CASE ~UnlicensedOss(SaidIn(texts))
  <2>1. LastStrip(texts) = texts
    BY <1>2 DEF LastStrip, SaidIn
  <2> QED
    BY <1>2, <2>1 DEF SaidIn
<1> QED
  BY <1>1, <1>2

\* What a draft says was said by a fact of its brief, but for the word for the
\* room; it summons nobody, and praises no licence that is not beside it.
LEMMA DraftWears ==
  ASSUME NEW S, NEW b, b.facts \in Seq(S), NEW score, score.arena \in Arenas, NEW p,
         DressBrief(b, score, p) # NoDraft
  PROVE  LET draft == DressBrief(b, score, p)
         IN  /\ score.verdict = "draft" /\ draft.arena = score.arena
             /\ ~Undressable(b, score.arena)
             /\ draft.url = WornUrl(score.arena, b.facts)
             /\ SaidIn(draft.texts) \subseteq TextShows(b.facts) \cup {"room", "short"}
             /\ "mention" \notin SaidIn(draft.texts)
             /\ ~UnlicensedOss(SaidIn(draft.texts))
<1> DEFINE fs == b.facts
           said == TextShows(fs) \cup {"room", "short"}
           copy == Copy(Worn(fs))
           body == Costume(score.arena, copy, ProofUrl(fs), fs, p)
           draft == DressBrief(b, score, p)
<1>1. /\ score.verdict = "draft" /\ ~Undressable(b, score.arena)
      /\ draft = Finished(body, b, score.arena)
  BY DEF DressBrief
<1>2. /\ body # <<>> /\ ~BodyRefused(body, b, score.arena)
      /\ draft = [arena |-> score.arena, texts |-> LastStrip(body[1]), url |-> body[2]]
  BY <1>1 DEF Finished
<1>3. Worn(fs) # <<>>
  BY <1>1 DEF Undressable
<1>4. \A U : Seq(SUBSET U) \subseteq Seq(SUBSET (U \cup {"room", "short"}))
  OBVIOUS
<1>5. Worn(fs) \in Seq(SUBSET said)
  BY <1>4, WornIsSaid
<1>6. copy \in Seq(SUBSET said) /\ copy # <<>>
  BY <1>3, <1>5, CopyIsList
<1>7. \A kind, mark : Slot(fs, kind, mark) \in Seq(SUBSET said)
  BY <1>5, SlotIsWorn
<1>8. {} \in SUBSET said /\ {"room", "short"} \in SUBSET said
  OBVIOUS
<1> HIDE DEF copy, draft
<1>9. body[1] \in Seq(SUBSET said) /\ body[2] = WornUrl(score.arena, fs)
  <2> HIDE DEF said, fs
  <2> QED
    BY <1>2, <1>6, <1>7, <1>8, CostumeWears DEF WornUrl
<1>10. "mention" \notin SaidIn(body[1])
  BY <1>2 DEF BodyRefused, BodyMarks, NotInBody, SaidIn
<1> HIDE DEF body
<1>11. /\ SaidIn(LastStrip(body[1])) \subseteq said
       /\ SaidIn(LastStrip(body[1])) \subseteq SaidIn(body[1]) \cup {"short"}
       /\ ~UnlicensedOss(SaidIn(LastStrip(body[1])))
  <2>1. "short" \in said
    OBVIOUS
  <2> HIDE DEF said
  <2> QED
    BY <1>9, <2>1, LastStripCuts
<1> QED
  BY <1>1, <1>2, <1>9, <1>10, <1>11 DEF draft
------------------------------------------------------------------------------
(* Scoring *)

LEMMA SilenceIsNoDraft ==
  ASSUME NEW b, NEW sign, NEW reason
  PROVE  Silence(Verdict(b, sign), reason).verdict # "draft"
  BY DEF Silence, Verdict

LEMMA ChosenArena ==
  ASSUME NEW b, b.preferred \in Arenas \cup {"none"}
  PROVE  ChooseArena(b, "none") \in Arenas
<1>1. Seated(b) => b.preferred # "none"
  BY DEF Seated
<1> QED
  BY <1>1 DEF ChooseArena, Arenas

\* A brief that is scored as a draft gave no sign of the chain, and none of the
\* gates of the arena it was given.
LEMMA ScoreSpeaks ==
  ASSUME NEW b, NEW stack, ScoreBrief(b, stack).verdict = "draft"
  PROVE  /\ stack = "none" /\ ScoreBrief(b, stack).arena = ChooseArena(b, "none")
         /\ Links \cap (Shows(b.facts) \cup Derived(b)) = {}
         /\ \A i \in DOMAIN GateOrder : GateOrder[i] \notin GateSigns(b, ChooseArena(b, "none"))
         /\ ~MondayWithoutHistory(b, ChooseArena(b, "none"))
         /\ ChooseArena(b, "none") = "newsletter" => b.claims /\ b.tryable
<1> DEFINE signs == Shows(b.facts) \cup Derived(b)
           sign == FirstSign(Chain, signs)
           arena == ChooseArena(b, "none")
           gate == FirstSign(GateOrder, GateSigns(b, arena))
<1> HIDE DEF sign, gate
<1>1. sign = 0 /\ stack = "none" /\ ScoreBrief(b, stack) = ScoreInArena(b, arena)
  BY SilenceIsNoDraft DEF ScoreBrief, Silence, sign
<1>2. /\ gate = 0 /\ ScoreInArena(b, arena).arena = arena /\ ~MondayWithoutHistory(b, arena)
      /\ arena = "newsletter" => b.claims /\ b.tryable
  <2> HIDE DEF arena
  <2> QED
    BY <1>1 DEF ScoreInArena, Silence, gate
<1>3. DOMAIN Chain = 1..72 /\ DOMAIN GateOrder = 1..31
  BY DEF Chain, GateOrder
<1>4. \A i \in DOMAIN Chain : Chain[i] \notin signs
  BY <1>1, <1>3, NoSignGiven DEF sign
<1>5. \A i \in DOMAIN GateOrder : GateOrder[i] \notin GateSigns(b, arena)
  BY <1>2, <1>3, NoSignGiven DEF gate
<1> QED
  BY <1>1, <1>2, <1>4, <1>5 DEF Links

LEMMA ClaimedShip ==
  ASSUME NEW b, Links \cap Derived(b) = {}
  PROVE  ~(b.claims /\ ~HasShip(b.facts))
<1>1. "ship_claim_missing_artifact" \notin Derived(b)
  BY DEF Links, Chain
<1> QED
  BY <1>1 DEF Derived

Kinds(fs) == {f.kind : f \in FactsOf(fs)}

\* What the chain asks, dressing need not ask again.
LEMMA ChainSilent ==
  ASSUME NEW b, Links \cap (Shows(b.facts) \cup Derived(b)) = {}
  PROVE  LET fs == b.facts IN
         /\ Shows(fs) \cap (NotDressed \ {"solicit", "chain_bait"}) = {}
         /\ Shows(fs) \cap (NotOwnWords \ {"opinion", "mention"}) = {}
         /\ ~FakeOss(Shows(fs)) /\ ~CloneTalk(Shows(fs)) /\ ~ApologyAlone(fs)
         /\ ("superlative" \in Shows(fs) => Proven(b)) /\ ~ForeignWave(fs) /\ ~Unquotable(fs)
         /\ ~BotBumpWeek(Wearable(fs)) /\ ~DeadStarStory(Wearable(fs))
<1> DEFINE fs == b.facts
<1>1. /\ NotDressed \ {"solicit", "chain_bait"} \subseteq Links
      /\ NotOwnWords \ {"opinion", "mention"} \subseteq Links
      /\ {"unquotable", "apology_without_ship", "bot_bump_week", "dead_star_count",
          "superlative_without_proof", "clone", "foreign_wave", "source_available_not_oss"} \subseteq Links
  BY DEF NotDressed, NotOwnWords, Links, Chain
<1>2. /\ Unquotable(fs) => "unquotable" \in Derived(b)
      /\ ApologyAlone(fs) => "apology_without_ship" \in Derived(b)
      /\ BotBumpWeek(Wearable(fs)) => "bot_bump_week" \in Derived(b)
      /\ DeadStarStory(Wearable(fs)) => "dead_star_count" \in Derived(b)
      /\ "superlative" \in Shows(fs) /\ ~Proven(b) => "superlative_without_proof" \in Derived(b)
      /\ CloneTalk(Shows(fs)) => "clone" \in Derived(b)
      /\ ForeignWave(fs) => "foreign_wave" \in Derived(b)
      /\ FakeOss(Shows(fs)) => "source_available_not_oss" \in Derived(b)
  BY DEF Derived, CloneTalk
<1> QED
  BY <1>1, <1>2

\* What the gates of the arena let through.
LEMMA GatesPassed ==
  ASSUME NEW b, NEW arena, \A i \in DOMAIN GateOrder : GateOrder[i] \notin GateSigns(b, arena)
  PROVE  LET fs == b.facts IN
         /\ arena \in SocialArenas => "issues_disabled" \notin Shows(fs)
         /\ arena = "hn" => /\ {"store_pitch", "launch_pitch"} \cap TextShows(fs) = {}
                            /\ SeminarReason(Shows(fs)) = "ok" /\ ProofUrl(fs) # "none"
         /\ arena = "x" => HasParentPost(fs) /\ AgoraReason(fs) = "ok"
         /\ arena = "linkedin" => CourtReason(Lines(fs), b.claims) = "ok"
         /\ arena = "discord" => TavernReason(Shows(fs)) = "ok"
         /\ arena = "newsletter" => LetterReason(Lines(fs)) = "ok" \/ MondayWithoutHistory(b, arena)
         /\ arena = "reddit" => RedditReason(Shows(fs), HasShip(fs)) = "ok"
         /\ arena = "bluesky" => HasShip(fs) /\ CafeReason(Shows(fs)) = "ok"
         /\ arena = "youtube" => /\ CinemaEndReason(Shows(fs)) = "ok"
                                 /\ FairLoopReason(Shows(fs), Kinds(fs)) # "fair_cta_with_loop"
         /\ arena = "shorts" => /\ FairHookReason(Shows(fs)) = "ok"
                                /\ FairLoopReason(Shows(fs), Kinds(fs)) = "ok"
<1> DEFINE fs == b.facts
           gates == {GateOrder[i] : i \in DOMAIN GateOrder}
<1>1. {"issues_disabled", "store_pitch", "launch_pitch", "seminar", "not_clickable", "no_thread", "agora",
       "court", "tavern", "letter", "village", "no_artifact", "cafe", "cinema_end", "loop", "no_hook"}
      \subseteq gates
  BY DEF GateOrder
<1>2. gates \cap GateSigns(b, arena) = {}
  OBVIOUS
<1> HIDE DEF gates
<1>3. /\ arena \in SocialArenas /\ "issues_disabled" \in Shows(fs) => "issues_disabled" \in GateSigns(b, arena)
      /\ arena = "hn" /\ "store_pitch" \in TextShows(fs) => "store_pitch" \in GateSigns(b, arena)
      /\ arena = "hn" /\ "launch_pitch" \in TextShows(fs) => "launch_pitch" \in GateSigns(b, arena)
      /\ arena = "hn" /\ SeminarReason(Shows(fs)) # "ok" => "seminar" \in GateSigns(b, arena)
      /\ arena = "hn" /\ ProofUrl(fs) = "none" => "not_clickable" \in GateSigns(b, arena)
      /\ arena = "x" /\ ~HasParentPost(fs) => "no_thread" \in GateSigns(b, arena)
      /\ arena = "x" /\ AgoraReason(fs) # "ok" => "agora" \in GateSigns(b, arena)
  BY DEF GateSigns
<1>4. /\ arena = "linkedin" /\ CourtReason(Lines(fs), b.claims) # "ok" => "court" \in GateSigns(b, arena)
      /\ arena = "discord" /\ TavernReason(Shows(fs)) # "ok" => "tavern" \in GateSigns(b, arena)
      /\ arena = "newsletter" /\ LetterReason(Lines(fs)) # "ok" /\ ~MondayWithoutHistory(b, arena)
           => "letter" \in GateSigns(b, arena)
      /\ arena = "reddit" /\ RedditReason(Shows(fs), HasShip(fs)) # "ok" => "village" \in GateSigns(b, arena)
      /\ arena = "bluesky" /\ ~HasShip(fs) => "no_artifact" \in GateSigns(b, arena)
      /\ arena = "bluesky" /\ CafeReason(Shows(fs)) # "ok" => "cafe" \in GateSigns(b, arena)
  BY DEF GateSigns
<1>5. /\ arena = "youtube" /\ CinemaEndReason(Shows(fs)) # "ok" => "cinema_end" \in GateSigns(b, arena)
      /\ arena = "youtube" /\ FairLoopReason(Shows(fs), Kinds(fs)) = "fair_cta_with_loop"
           => "loop" \in GateSigns(b, arena)
      /\ arena = "shorts" /\ FairHookReason(Shows(fs)) # "ok" => "no_hook" \in GateSigns(b, arena)
      /\ arena = "shorts" /\ FairLoopReason(Shows(fs), Kinds(fs)) # "ok" => "loop" \in GateSigns(b, arena)
  BY DEF GateSigns, Kinds
<1> QED
  BY <1>1, <1>2, <1>3, <1>4, <1>5

------------------------------------------------------------------------------
(* A demo that claims its ship and shows nothing that ends a brief *)

Titles == {"listicle", "shouty", "emoji", "merged_pr"} \cup LongTitle
Unsound == Links \cup NotDressed \cup NeverQuoted \cup NotOwnWords
           \cup {"quote", "misquote", "store_pitch", "launch_pitch", "brand_voice", "worse_clone", "used_by"}
\* The texts that the body is weighed by.
ToldTexts(fs) == {t \in FactsOf(Worn(fs)) : "readme_install" \notin t}
SoundShip(b) ==
  LET fs == b.facts IN
  /\ b.kind \in {"major", "hard_issue"} /\ Proven(b) /\ b.claims /\ b.preferred = "none"
  /\ fs \in Seq(FactsOf(fs)) /\ fs # <<>>
  /\ Shows(fs) \cap Unsound = {} /\ ~FakeOss(Shows(fs))
  /\ ~ForeignWave(fs) /\ ~ApologyAlone(fs) /\ ~EmptyRelease(fs)
  /\ ~\A f \in FactsOf(fs) : "commit_noise" \in f.text
  /\ \A story \in {fs, Wearable(fs)} : ~BotBumpWeek(story) /\ ~DeadStarStory(story)
  /\ ~BotBump(ToldTexts(fs)) /\ ~DeadStars(ToldTexts(fs))
  /\ Wearable(fs) # <<>> => Wearable(fs)[1].text \cap Titles = {}
  /\ Worn(fs) # <<>> /\ Worn(fs)[1] \cap Titles = {}
FreeStage(b) == IF "issues_disabled" \in Shows(b.facts) THEN "github" ELSE "hn"

LEMMA TextIsShown ==
  ASSUME NEW fs
  PROVE  TextShows(fs) \subseteq Shows(fs) /\ UNION OperatorTexts(fs) \subseteq TextShows(fs)
  BY DEF TextShows, Shows, OperatorTexts

LEMMA UnsoundMarks ==
  /\ Links \subseteq Unsound /\ NotDressed \subseteq Unsound /\ NeverQuoted \subseteq Unsound
  /\ NotOwnWords \subseteq Unsound /\ NotInBody \subseteq Unsound
  /\ DeadForShow \ {"issues_disabled"} \subseteq Unsound
  BY DEF Unsound, NotInBody, NotOwnWords, DeadForShow, NotDressed

LEMMA FreeStages ==
  ASSUME NEW b
  PROVE  /\ FreeStage(b) \in {"hn", "github"}
         /\ FreeStage(b) = "hn" => "issues_disabled" \notin Shows(b.facts)
         /\ FreeStage(b) \in SocialArenas => FreeStage(b) = "hn"
  BY DEF FreeStage, SocialArenas, Arenas

LEMMA SoundQuotes ==
  ASSUME NEW b, SoundShip(b)
  PROVE  ~Unquotable(b.facts)
<1> DEFINE fs == b.facts
<1>1. /\ Shows(fs) \cap Unsound = {} /\ ~FakeOss(Shows(fs)) /\ ~ForeignWave(fs)
      /\ UNION OperatorTexts(fs) \subseteq Shows(fs)
  BY TextIsShown DEF SoundShip
<1>2. Shows(fs) \cap NeverQuoted = {} /\ (UNION OperatorTexts(fs)) \cap NotOwnWords = {}
  BY <1>1, UnsoundMarks
<1>3. ~FakeOss(UNION OperatorTexts(fs))
  BY <1>1 DEF FakeOss
<1>4. ~QuoteUnsourced(OperatorTexts(fs), fs)
  <2>1. {"quote", "misquote"} \subseteq Unsound
    BY DEF Unsound
  <2>2. \A t \in OperatorTexts(fs) : t \cap {"quote", "misquote"} = {}
    BY <1>1, <2>1
  <2> QED
    BY <2>2 DEF QuoteUnsourced
<1> QED
  BY <1>1, <1>2, <1>3, <1>4 DEF Unquotable

LEMMA SoundGivesNoSign ==
  ASSUME NEW b, SoundShip(b)
  PROVE  Links \cap (Shows(b.facts) \cup Derived(b)) = {}
<1> DEFINE fs == b.facts
           texts == Wearable(fs)
<1>1. /\ b.kind \notin {"patch", "exploration", "decision"} /\ b.tryable /\ HasShip(fs) /\ b.claims
      /\ b.preferred = "none" /\ fs # <<>> /\ ~ForeignWave(fs) /\ Proven(b)
      /\ ~ApologyAlone(fs) /\ ~FakeOss(Shows(fs)) /\ ~\A f \in FactsOf(fs) : "commit_noise" \in f.text
  BY DEF SoundShip, Proven
<1>2. ~Unquotable(fs)
  BY SoundQuotes
<1>3. ~BotBumpWeek(texts) /\ ~DeadStarStory(texts)
  BY DEF SoundShip
<1>4. Shows(fs) \cap Links = {} /\ {"used_by", "worse_clone"} \cap Shows(fs) = {}
  BY UnsoundMarks DEF SoundShip, Unsound
<1>5. \A hosts : ~OnlyUrls(fs, hosts)
  BY <1>1 DEF HasShip, OnlyUrls
<1>6. ~Social(b)
  BY <1>1 DEF Social, SocialArenas, Arenas
<1>7. ~UnprovenProof(fs)
  <2>1. \A i \in DOMAIN fs : "used_by" \notin fs[i].text
    BY <1>4 DEF Shows, FactsOf
  <2> QED
    BY <2>1 DEF UnprovenProof
<1>8. ~MergeLog([i \in DOMAIN texts |-> texts[i].text])
  <2>1. texts \in Seq(FactsOf(fs))
    <3> DEFINE places == {i \in DOMAIN fs : ~IsArtifactStub(fs[i])}
    <3>1. texts = Picked(fs, places) /\ places \subseteq DOMAIN fs /\ fs \in Seq(FactsOf(fs))
      BY DEF Wearable, SoundShip
    <3> HIDE DEF places, texts
    <3> QED
      BY <3>1, PickedIsList
  <2>2. texts # <<>> => 1 \in DOMAIN texts /\ texts[1].text \cap Titles = {}
    BY <2>1 DEF SoundShip
  <2>3. texts = <<>> => [i \in DOMAIN texts |-> texts[i].text] = <<>>
    OBVIOUS
  <2>4. "merged_pr" \in Titles
    BY DEF Titles
  <2> HIDE DEF texts
  <2> QED
    BY <2>2, <2>3, <2>4 DEF MergeLog
<1> HIDE DEF fs, texts
<1>9. Derived(b) = {}
  BY <1>1, <1>2, <1>3, <1>4, <1>5, <1>6, <1>7, <1>8 DEF Derived, fs, texts
<1> QED
  BY <1>4, <1>9 DEF fs

LEMMA NoneGiven ==
  ASSUME NEW order, NEW signs, \A i \in DOMAIN order : order[i] \notin signs
  PROVE  FirstSign(order, signs) = 0
  BY DEF FirstSign, FirstWhere

LEMMA SoundPassesGates ==
  ASSUME NEW b, SoundShip(b)
  PROVE  /\ ChooseArena(b, "none") = FreeStage(b)
         /\ GateSigns(b, FreeStage(b)) = {}
<1> DEFINE fs == b.facts
           marks == Shows(fs)
           arena == FreeStage(b)
           worn == Wearable(fs)
           title == IF worn = <<>> THEN {"no_title"} ELSE worn[1].text
<1>1. /\ b.kind \in {"major", "hard_issue"} /\ b.tryable /\ HasShip(fs) /\ b.claims
      /\ b.preferred = "none" /\ fs \in Seq(FactsOf(fs))
  BY DEF SoundShip, Proven
<1>2. ProofUrl(fs) # "none"
  <2>1. ProofUrl(fs) \in ShipUrls
    BY <1>1, ShipIsShown
  <2> QED
    BY <2>1 DEF ShipUrls, OurShip
<1>3. marks \cap (DeadForShow \ {"issues_disabled"}) = {}
  BY UnsoundMarks DEF SoundShip
<1>4. arena \in {"hn", "github"} /\ (arena = "hn" => "issues_disabled" \notin marks)
  BY FreeStages
<1>5. ChooseArena(b, "none") = arena
  <2>1. marks \cap DeadForShow = {} <=> "issues_disabled" \notin marks
    BY <1>3 DEF DeadForShow
  <2>2. ~Seated(b)
    BY <1>1 DEF Seated
  <2> QED
    BY <1>1, <1>2, <2>1, <2>2 DEF ChooseArena, FreeStage
<1>6. title \cap ({"listicle", "shouty", "emoji"} \cup LongTitle) = {}
  BY DEF SoundShip, Titles, LongTitle
<1>7. {"store_pitch", "launch_pitch"} \cap TextShows(fs) = {} /\ "brand_voice" \notin marks
  BY TextIsShown DEF SoundShip, Unsound
<1>8. \A hosts : ~OnlyUrls(fs, hosts)
  BY <1>1 DEF HasShip, OnlyUrls
<1>9. b.kind \in Gate[arena].kinds
  BY <1>1, <1>4 DEF Gate
<1> HIDE DEF fs, marks, arena, title
<1>10. SeminarReason(marks) = "ok" /\ ~Overflows(arena, title)
  BY <1>4, <1>6, <1>7 DEF SeminarReason, Overflows
<1>11. GateSigns(b, arena) = {}
  BY <1>1, <1>2, <1>3, <1>4, <1>6, <1>7, <1>8, <1>9, <1>10
     DEF GateSigns, RequireTryable, SocialArenas, Arenas, ForbidShipClaim, MinTwoFacts, fs, marks, title
<1> QED
  BY <1>5, <1>11 DEF arena

LEMMA SoundIsScored ==
  ASSUME NEW b, SoundShip(b)
  PROVE  ScoreBrief(b, "none") = [verdict |-> "draft", reason |-> "one_angle", arena |-> FreeStage(b)]
<1> DEFINE signs == Shows(b.facts) \cup Derived(b)
           arena == FreeStage(b)
<1>1. FirstSign(Chain, signs) = 0
  <2>1. \A i \in DOMAIN Chain : Chain[i] \notin signs
    BY SoundGivesNoSign DEF Links
  <2> HIDE DEF signs
  <2> QED
    BY <2>1, NoneGiven
<1>2. FirstSign(GateOrder, GateSigns(b, arena)) = 0
  BY SoundPassesGates, NoneGiven
<1>3. ChooseArena(b, "none") = arena
  BY SoundPassesGates
<1>4. b.tryable /\ HasShip(b.facts) /\ b.claims
  BY DEF SoundShip, Proven
<1>5. ScoreInArena(b, arena) = [verdict |-> "draft", reason |-> "one_angle", arena |-> arena]
  <2> HIDE DEF arena
  <2> QED
    BY <1>2, <1>4 DEF ScoreInArena, MondayWithoutHistory, EnoughSubstance
<1>6. ~HnCamp("none") /\ ~StackMismatch(b.preferred, "none")
  BY DEF HnCamp, StackMismatch
<1> HIDE DEF signs, arena
<1>7. ScoreBrief(b, "none") = ScoreInArena(b, arena)
  BY <1>1, <1>3, <1>6 DEF ScoreBrief, signs
<1> QED
  BY <1>5, <1>7 DEF arena

LEMMA SoundCopy ==
  ASSUME NEW b, SoundShip(b)
  PROVE  LET copy == Copy(Worn(b.facts)) IN
         /\ copy \in Seq(SUBSET TextShows(b.facts)) /\ copy # <<>> /\ 1 \in DOMAIN copy
         /\ copy[1] \cap Titles = {} /\ {t \in FactsOf(copy) : "readme_install" \notin t} = ToldTexts(b.facts)
<1> DEFINE fs == b.facts
           T == SUBSET TextShows(fs)
           copy == Copy(Worn(fs))
<1>1. fs \in Seq(FactsOf(fs)) /\ Worn(fs) # <<>> /\ Worn(fs)[1] \cap Titles = {}
  BY DEF SoundShip
<1>2. Worn(fs) \in Seq(T)
  BY <1>1, WornIsSaid
<1> HIDE DEF T
<1>3. copy \in Seq(T) /\ copy # <<>>
  BY <1>1, <1>2, CopyIsList
<1>4. copy[1] = Worn(fs)[1] /\ FactsOf(copy) = FactsOf(Worn(fs))
  BY <1>1, <1>2, CopySays
<1> HIDE DEF copy
<1>5. 1 \in DOMAIN copy
  BY <1>3
<1> QED
  BY <1>1, <1>3, <1>4, <1>5 DEF copy, T, ToldTexts

LEMMA SoundIsDressable ==
  ASSUME NEW b, SoundShip(b)
  PROVE  ~Undressable(b, FreeStage(b))
<1> DEFINE fs == b.facts
           marks == Shows(fs)
           arena == FreeStage(b)
           copy == Copy(Worn(fs))
           bits == {t \in {copy[i] : i \in DOMAIN copy} : "readme_install" \notin t}
<1>1. /\ marks \cap NotDressed = {} /\ ~CloneTalk(marks) /\ "brand_voice" \notin marks
  BY UnsoundMarks DEF SoundShip, CloneTalk, Unsound
<1>2. /\ ~ApologyAlone(fs) /\ ~FakeOss(marks) /\ ~EmptyRelease(fs)
      /\ ~BotBumpWeek(fs) /\ ~DeadStarStory(fs)
      /\ Worn(fs) # <<>> /\ ~ForeignWave(fs) /\ b.tryable /\ Proven(b)
  BY DEF SoundShip, Proven
<1>3. ~Unquotable(fs)
  BY SoundQuotes
<1>4. ~BotBump(bits) /\ ~DeadStars(bits)
  <2>1. bits = ToldTexts(fs)
    BY SoundCopy DEF FactsOf
  <2> HIDE DEF bits
  <2> QED
    BY <2>1 DEF SoundShip
<1>5. /\ arena \in {"hn", "github"} /\ (arena = "hn" => "issues_disabled" \notin marks)
      /\ arena \in SocialArenas => arena = "hn"
  BY FreeStages
<1> HIDE DEF marks, arena
<1>6. ~ArenaRefuses(arena, Lines(fs), marks, b)
  BY <1>1, <1>5 DEF ArenaRefuses, SeminarReason
<1>7. ~MondayWithoutHistory(b, arena)
  BY <1>2 DEF MondayWithoutHistory
<1> HIDE DEF bits
<1> QED
  BY <1>1, <1>2, <1>3, <1>4, <1>5, <1>6, <1>7 DEF Undressable, bits, marks, arena

LEMMA SoundFits ==
  ASSUME NEW b, NEW p, SoundShip(b), p.maintainer
  PROVE  LET body == Costume(FreeStage(b), Copy(Worn(b.facts)), ProofUrl(b.facts), b.facts, p)
         IN  /\ body # <<>> /\ body[1] \in Seq(SUBSET TextShows(b.facts))
             /\ body[1][1] \cap Titles = {} /\ body[2] = ProofUrl(b.facts) /\ body[2] \in ShipUrls
<1> DEFINE fs == b.facts
           copy == Copy(Worn(fs))
           url == ProofUrl(fs)
           T == SUBSET TextShows(fs)
<1>1. /\ copy \in Seq(T) /\ copy # <<>> /\ 1 \in DOMAIN copy /\ copy[1] \cap Titles = {}
      /\ {t \in FactsOf(copy) : "readme_install" \notin t} = ToldTexts(fs)
  BY SoundCopy
<1>2. url \in ShipUrls /\ url \in TryableUrls \ NotProof
  <2>1. url \in ShipUrls
    BY ShipIsShown DEF SoundShip, Proven
  <2> QED
    BY <2>1 DEF ShipUrls, OurShip, TryableUrls, NotProof, RankingUrls
<1>3. TextShows(fs) \cap {"store_pitch", "launch_pitch"} = {} /\ ~BotBump(ToldTexts(fs))
  BY TextIsShown DEF SoundShip, Unsound
<1>4. {} \in T
  OBVIOUS
<1> HIDE DEF copy, url, fs
<1>5. SaidIn(copy) \subseteq TextShows(fs)
  BY <1>1 DEF SaidIn
<1> HIDE DEF T
<1>6. /\ copy[1] \cap ({"listicle", "shouty", "emoji", "merged_pr"} \cup LongTitle) = {}
      /\ SaidIn(copy) \cap {"store_pitch", "launch_pitch"} = {}
  BY <1>1, <1>3, <1>5 DEF Titles
<1>7. DressHn(copy, url, fs, p) # <<>>
  BY <1>1, <1>2, <1>3, <1>6, HnFits
<1>8. DressGithub(copy, url, fs) = <<copy, url>>
  BY <1>6 DEF DressGithub, Dressed
<1> DEFINE body == Costume(FreeStage(b), copy, url, fs, p)
           Fits == /\ body # <<>> /\ body[1] \in Seq(T) /\ body[1][1] \cap Titles = {}
                   /\ body[2] = url /\ body[2] \in ShipUrls
<1>9. ASSUME FreeStage(b) = "hn" PROVE Fits
  <2>1. Costume("hn", copy, url, fs, p) = DressHn(copy, url, fs, p)
    BY DEF Costume
  <2>2. /\ DressHn(copy, url, fs, p)[1] \in Seq(T) /\ DressHn(copy, url, fs, p)[2] = url
        /\ DressHn(copy, url, fs, p)[1][1] = copy[1]
    BY <1>1, <1>4, <1>7, HnWears
  <2> QED
    BY <1>1, <1>2, <1>7, <1>9, <2>1, <2>2
<1>10. ASSUME FreeStage(b) = "github" PROVE Fits
  <2>1. Costume("github", copy, url, fs, p) = <<copy, url>>
    BY <1>8 DEF Costume
  <2> QED
    BY <1>1, <1>2, <1>10, <2>1
<1> QED
  BY <1>9, <1>10, FreeStages DEF copy, url, fs, T

LEMMA SoundBodyPasses ==
  ASSUME NEW b, NEW body, SoundShip(b), body[1] \in Seq(SUBSET TextShows(b.facts)),
         body[1][1] \cap Titles = {}, body[2] \in ShipUrls
  PROVE  ~BodyRefused(body, b, FreeStage(b))
<1> DEFINE fs == b.facts
           marks == BodyMarks(body)
           arena == FreeStage(b)
<1>1. marks \subseteq TextShows(fs) /\ TextShows(fs) \subseteq Shows(fs)
      /\ UNION OperatorTexts(fs) \subseteq Shows(fs)
  <2>1. UrlMarks(body[2]) = {}
    BY DEF UrlMarks, ShipUrls, OurShip
  <2> QED
    BY <2>1, TextIsShown DEF BodyMarks
<1>2. Shows(fs) \cap Unsound = {} /\ ~FakeOss(Shows(fs)) /\ ~ApologyAlone(fs)
  BY DEF SoundShip
<1>3. /\ arena \in {"hn", "github"} /\ (arena = "hn" => "issues_disabled" \notin Shows(fs))
      /\ arena \in SocialArenas => arena = "hn"
  BY FreeStages
<1> HIDE DEF marks, fs, arena
<1>4. marks \cap Unsound = {}
  BY <1>1, <1>2
<1>5. ~UnquotableBody(marks, fs) /\ ~FakeOss(marks)
  <2>1. ~FakeOss(marks \cup UNION OperatorTexts(fs)) /\ ~FakeOss(marks)
    BY <1>1, <1>2 DEF FakeOss
  <2>2. marks \cap (NeverQuoted \cup NotOwnWords) = {}
    BY <1>4, UnsoundMarks
  <2>3. "opinion" \in NotOwnWords
    BY DEF NotOwnWords
  <2> QED
    BY <2>1, <2>2, <2>3 DEF UnquotableBody
<1>6. ~CloneTalk(marks) /\ "brand_voice" \notin marks
  BY <1>4 DEF CloneTalk, Unsound
<1>7. marks \cap NotInBody = {}
  BY <1>4, UnsoundMarks
<1>8. ~Overflows(arena, body[1][1])
  BY <1>3 DEF Overflows, Titles
<1>9. ~ArenaRefuses(arena, BodyLines(body), marks, b)
  BY <1>3, <1>6 DEF ArenaRefuses, SeminarReason
<1> QED
  BY <1>1, <1>2, <1>3, <1>5, <1>6, <1>7, <1>8, <1>9 DEF BodyRefused, marks, fs, arena

\* None of the rules of score_brief, dress_brief and the two costumes is in the
\* way of a sound ship: it is drafted on the free stage, or at home when its
\* issues are disabled, and shows the ship.
LEMMA SoundSpeaks ==
  ASSUME NEW b, NEW p, SoundShip(b), p.voice = "own", p.maintainer
  PROVE  LET draft == ApplyBrief(b, p, "none").draft
         IN  draft # NoDraft /\ draft.arena = FreeStage(b) /\ draft.url = ProofUrl(b.facts)
<1> DEFINE body == Costume(FreeStage(b), Copy(Worn(b.facts)), ProofUrl(b.facts), b.facts, p)
           score == ScoreBrief(b, "none")
<1>1. ApplyBrief(b, p, "none").draft = DressBrief(b, score, p)
  BY DEF ApplyBrief
<1>2. score.verdict = "draft" /\ score.arena = FreeStage(b)
  BY SoundIsScored
<1>3. ~Undressable(b, FreeStage(b))
  BY SoundIsDressable
<1>4. body # <<>> /\ ~BodyRefused(body, b, FreeStage(b)) /\ body[2] = ProofUrl(b.facts)
  <2>1. /\ body # <<>> /\ body[1] \in Seq(SUBSET TextShows(b.facts))
        /\ body[1][1] \cap Titles = {} /\ body[2] \in ShipUrls /\ body[2] = ProofUrl(b.facts)
    BY SoundFits
  <2> HIDE DEF body
  <2> QED
    BY <2>1, SoundBodyPasses
<1> HIDE DEF score
<1>5. DressBrief(b, score, p) = Finished(body, b, FreeStage(b))
  BY <1>2, <1>3 DEF DressBrief
<1> HIDE DEF body
<1>6. FreeStage(b) # "none"
  BY FreeStages
<1> QED
  BY <1>1, <1>4, <1>5, <1>6 DEF Finished, NoDraft


------------------------------------------------------------------------------
(* First and last: lists that differ in one element *)

\* t is the first element of the list that is in G.
FirstIn(s, G, t) ==
  \E i \in DOMAIN s : s[i] = t /\ t \in G /\ \A j \in DOMAIN s : s[j] \in G => i <= j

LEMMA OneFirst ==
  ASSUME NEW S, NEW s \in Seq(S), NEW G, NEW t, NEW u, FirstIn(s, G, t), FirstIn(s, G, u)
  PROVE  t = u
<1>1. PICK i \in DOMAIN s : s[i] = t /\ t \in G /\ \A k \in DOMAIN s : s[k] \in G => i <= k
  BY DEF FirstIn
<1>2. PICK j \in DOMAIN s : s[j] = u /\ u \in G /\ \A k \in DOMAIN s : s[k] \in G => j <= k
  BY DEF FirstIn
<1>3. i \in Nat /\ j \in Nat /\ i <= j /\ j <= i
  BY <1>1, <1>2
<1>4. i = j
  BY <1>3
<1> QED
  BY <1>1, <1>2, <1>4

LEMMA SomeFirst ==
  ASSUME NEW S, NEW s \in Seq(S), NEW G, NEW k \in DOMAIN s, s[k] \in G
  PROVE  \E t : FirstIn(s, G, t)
<1> DEFINE good == {i \in DOMAIN s : s[i] \in G}
<1>1. good \in SUBSET Nat /\ good # {}
  OBVIOUS
<1>2. PICK m \in good : \A i \in good : m <= i
  BY <1>1, Least
<1>3. FirstIn(s, G, s[m])
  BY <1>2 DEF FirstIn
<1> QED
  BY <1>3

LEMMA FirstOfAll ==
  ASSUME NEW S, NEW s \in Seq(S), s # <<>>, NEW G, S \subseteq G, NEW t
  PROVE  FirstIn(s, G, t) <=> t = s[1]
<1>1. 1 \in DOMAIN s /\ s[1] \in G /\ \A j \in DOMAIN s : 1 <= j
  OBVIOUS
<1>2. FirstIn(s, G, s[1])
  BY <1>1 DEF FirstIn
<1> QED
  BY <1>2, OneFirst

\* The first of what was picked for being in K is the first in K.
LEMMA FirstPicked ==
  ASSUME NEW S, NEW s \in Seq(S), NEW K, NEW I, \A i : i \in I <=> i \in DOMAIN s /\ s[i] \in K,
         NEW G, NEW t
  PROVE  FirstIn(Picked(s, I), G, t) <=> FirstIn(s, G \cap K, t)
<1> DEFINE p == Picked(s, I)
<1>1. I \subseteq DOMAIN s /\ \A i \in DOMAIN s : i \in Nat
  OBVIOUS
<1>2. PICK place \in [DOMAIN p -> I] :
           /\ \A k \in DOMAIN p : p[k] = s[place[k]]
           /\ \A k, m \in DOMAIN p : k < m <=> place[k] < place[m]
           /\ \A i \in I : \E k \in DOMAIN p : place[k] = i
  BY <1>1, PickedInOrder
<1>3. p \in Seq(S)
  BY <1>1, PickedIsList
<1> HIDE DEF p
<1>4. ASSUME FirstIn(p, G, t) PROVE FirstIn(s, G \cap K, t)
  <2>1. PICK k \in DOMAIN p : p[k] = t /\ t \in G /\ \A m \in DOMAIN p : p[m] \in G => k <= m
    BY <1>4 DEF FirstIn
  <2>2. place[k] \in DOMAIN s /\ s[place[k]] = t /\ t \in G \cap K
    BY <1>2, <2>1
  <2>3. ASSUME NEW j \in DOMAIN s, s[j] \in G \cap K PROVE place[k] <= j
    <3>1. PICK m \in DOMAIN p : place[m] = j
      BY <1>2, <2>3
    <3>2. k <= m
      BY <1>2, <2>1, <2>3, <3>1
    <3>3. ~(j < place[k])
      <4>1. k \in Nat /\ m \in Nat
        BY <1>3
      <4> QED
        BY <1>2, <3>1, <3>2, <4>1
    <3> QED
      BY <1>1, <2>2, <3>3
  <2> QED
    BY <2>2, <2>3 DEF FirstIn
<1>5. ASSUME FirstIn(s, G \cap K, t) PROVE FirstIn(p, G, t)
  <2>1. PICK i \in DOMAIN s : s[i] = t /\ t \in G \cap K /\ \A j \in DOMAIN s : s[j] \in G \cap K => i <= j
    BY <1>5 DEF FirstIn
  <2>2. PICK k \in DOMAIN p : place[k] = i
    BY <1>2, <2>1
  <2>3. ASSUME NEW m \in DOMAIN p, p[m] \in G PROVE k <= m
    <3>1. place[m] \in I /\ p[m] = s[place[m]]
      BY <1>2
    <3>2. i <= place[m]
      BY <2>1, <2>3, <3>1
    <3>3. k \in Nat /\ m \in Nat /\ place[m] \in Nat /\ i \in Nat
      BY <1>1, <1>3, <2>1, <3>1
    <3>4. ~(m < k)
      BY <1>2, <2>2, <3>2, <3>3
    <3> QED
      BY <3>3, <3>4
  <2> QED
    BY <1>2, <2>1, <2>2, <2>3 DEF FirstIn
<1> QED
  BY <1>4, <1>5 DEF p

\* t is the last element of the list that is in G.
LastIn(s, G, t) ==
  \E i \in DOMAIN s : s[i] = t /\ t \in G /\ \A j \in DOMAIN s : s[j] \in G => j <= i

\* List s is list r with one x more: whatever comes first, or last, in s is x
\* or comes first, or last, in r.
Beside(s, r, x) ==
  /\ FactsOf(s) = FactsOf(r) \cup {x}
  /\ \A G, t : FirstIn(s, G, t) => t = x \/ FirstIn(r, G, t)
Behind(s, r, x) == \A G, t : LastIn(s, G, t) => t = x \/ LastIn(r, G, t)

LEMMA LastPicked ==
  ASSUME NEW S, NEW s \in Seq(S), NEW K, NEW I, \A i : i \in I <=> i \in DOMAIN s /\ s[i] \in K,
         NEW G, NEW t
  PROVE  LastIn(Picked(s, I), G, t) <=> LastIn(s, G \cap K, t)
<1> DEFINE p == Picked(s, I)
<1>1. I \subseteq DOMAIN s /\ \A i \in DOMAIN s : i \in Nat
  OBVIOUS
<1>2. PICK place \in [DOMAIN p -> I] :
           /\ \A k \in DOMAIN p : p[k] = s[place[k]]
           /\ \A k, m \in DOMAIN p : k < m <=> place[k] < place[m]
           /\ \A i \in I : \E k \in DOMAIN p : place[k] = i
  BY <1>1, PickedInOrder
<1>3. p \in Seq(S)
  BY <1>1, PickedIsList
<1> HIDE DEF p
<1>4. ASSUME LastIn(p, G, t) PROVE LastIn(s, G \cap K, t)
  <2>1. PICK k \in DOMAIN p : p[k] = t /\ t \in G /\ \A m \in DOMAIN p : p[m] \in G => m <= k
    BY <1>4 DEF LastIn
  <2>2. place[k] \in DOMAIN s /\ s[place[k]] = t /\ t \in G \cap K
    BY <1>2, <2>1
  <2>3. ASSUME NEW j \in DOMAIN s, s[j] \in G \cap K PROVE j <= place[k]
    <3>1. PICK m \in DOMAIN p : place[m] = j
      BY <1>2, <2>3
    <3>2. m <= k
      BY <1>2, <2>1, <2>3, <3>1
    <3>3. ~(place[k] < j)
      <4>1. k \in Nat /\ m \in Nat
        BY <1>3
      <4> QED
        BY <1>2, <3>1, <3>2, <4>1
    <3> QED
      BY <1>1, <2>2, <3>3
  <2> QED
    BY <2>2, <2>3 DEF LastIn
<1>5. ASSUME LastIn(s, G \cap K, t) PROVE LastIn(p, G, t)
  <2>1. PICK i \in DOMAIN s : s[i] = t /\ t \in G \cap K /\ \A j \in DOMAIN s : s[j] \in G \cap K => j <= i
    BY <1>5 DEF LastIn
  <2>2. PICK k \in DOMAIN p : place[k] = i
    BY <1>2, <2>1
  <2>3. ASSUME NEW m \in DOMAIN p, p[m] \in G PROVE m <= k
    <3>1. place[m] \in I /\ p[m] = s[place[m]]
      BY <1>2
    <3>2. place[m] <= i
      BY <2>1, <2>3, <3>1
    <3>3. k \in Nat /\ m \in Nat /\ place[m] \in Nat /\ i \in Nat
      BY <1>1, <1>3, <2>1, <3>1
    <3>4. ~(k < m)
      BY <1>2, <2>2, <3>2, <3>3
    <3> QED
      BY <3>3, <3>4
  <2> QED
    BY <1>2, <2>1, <2>2, <2>3 DEF LastIn
<1> QED
  BY <1>4, <1>5 DEF p

\* What is left when one place is taken out.
Lacking(r, s, i) ==
  /\ Len(r) = Len(s) - 1
  /\ \A k \in DOMAIN r : r[k] = IF k < i THEN s[k] ELSE s[k + 1]

\* Every other place has its own place in r.
HasOwnPlace(r, s, i) ==
  \A k \in DOMAIN s : k # i => \E n \in DOMAIN r :
    /\ r[n] = s[k]
    /\ \A m \in DOMAIN r : m # n => \E j \in DOMAIN s \ {i, k} : s[j] = r[m]

LEMMA TakenOut ==
  ASSUME NEW S, NEW s \in Seq(S), NEW i, i \in DOMAIN s, NEW r \in Seq(S), Lacking(r, s, i)
  PROVE  Beside(s, r, s[i]) /\ Behind(s, r, s[i]) /\ Len(s) = Len(r) + 1 /\ HasOwnPlace(r, s, i)
<1> DEFINE From(k) == IF k < i THEN k ELSE k + 1
           To(k) == IF k < i THEN k ELSE k - 1
<1>1. Len(s) \in Nat /\ DOMAIN s = 1..Len(s) /\ i \in 1..Len(s) /\ Len(s) - 1 \in Nat
  OBVIOUS
<1>2. /\ DOMAIN r = 1..(Len(s) - 1)
      /\ \A k \in DOMAIN r : From(k) \in DOMAIN s /\ From(k) # i /\ r[k] = s[From(k)]
  BY <1>1 DEF Lacking
<1>3. Len(r) = Len(s) - 1
  BY DEF Lacking
<1>4. \A k \in DOMAIN s : k # i => To(k) \in DOMAIN r /\ From(To(k)) = k
  BY <1>1, <1>2
<1>5. \A k, m \in DOMAIN r : k <= m <=> From(k) <= From(m)
  BY <1>1, <1>2
<1>6. \A k, m \in DOMAIN r : From(k) = From(m) => k = m
  BY <1>1, <1>2
<1> HIDE DEF From, To
<1>7. FactsOf(s) = FactsOf(r) \cup {s[i]}
  <2>1. \A k \in DOMAIN r : r[k] \in FactsOf(s)
    BY <1>2 DEF FactsOf
  <2>2. \A k \in DOMAIN s : k # i => s[k] \in FactsOf(r)
    BY <1>2, <1>4 DEF FactsOf
  <2> QED
    BY <2>1, <2>2 DEF FactsOf
<1>8. ASSUME NEW G, NEW t, FirstIn(s, G, t) PROVE t = s[i] \/ FirstIn(r, G, t)
  <2>1. PICK k \in DOMAIN s : s[k] = t /\ t \in G /\ \A j \in DOMAIN s : s[j] \in G => k <= j
    BY <1>8 DEF FirstIn
  <2>2. SUFFICES ASSUME k # i PROVE FirstIn(r, G, t)
    BY <2>1
  <2>3. To(k) \in DOMAIN r /\ From(To(k)) = k /\ r[To(k)] = t
    BY <1>2, <1>4, <2>1, <2>2
  <2>4. \A j \in DOMAIN r : r[j] \in G => To(k) <= j
    BY <1>2, <1>5, <2>1, <2>3
  <2> QED
    BY <2>1, <2>3, <2>4 DEF FirstIn
<1>9. ASSUME NEW G, NEW t, LastIn(s, G, t) PROVE t = s[i] \/ LastIn(r, G, t)
  <2>1. PICK k \in DOMAIN s : s[k] = t /\ t \in G /\ \A j \in DOMAIN s : s[j] \in G => j <= k
    BY <1>9 DEF LastIn
  <2>2. SUFFICES ASSUME k # i PROVE LastIn(r, G, t)
    BY <2>1
  <2>3. To(k) \in DOMAIN r /\ From(To(k)) = k /\ r[To(k)] = t
    BY <1>2, <1>4, <2>1, <2>2
  <2>4. \A j \in DOMAIN r : r[j] \in G => j <= To(k)
    BY <1>2, <1>5, <2>1, <2>3
  <2> QED
    BY <2>1, <2>3, <2>4 DEF LastIn
<1>10. ASSUME NEW k \in DOMAIN s, k # i
       PROVE  \E n \in DOMAIN r :
                /\ r[n] = s[k]
                /\ \A m \in DOMAIN r : m # n => \E j \in DOMAIN s \ {i, k} : s[j] = r[m]
  <2>1. To(k) \in DOMAIN r /\ From(To(k)) = k
    BY <1>4, <1>10
  <2>2. \A m \in DOMAIN r : m # To(k) => From(m) \in DOMAIN s \ {i, k} /\ s[From(m)] = r[m]
    BY <1>2, <1>6, <2>1
  <2>3. r[To(k)] = s[k]
    BY <1>2, <2>1
  <2>4. \A m \in DOMAIN r : m # To(k) => \E j \in DOMAIN s \ {i, k} : s[j] = r[m]
    BY <2>2
  <2> QED
    BY <2>1, <2>3, <2>4
<1> QED
  BY <1>1, <1>3, <1>7, <1>8, <1>9, <1>10 DEF Beside, Behind, HasOwnPlace

LEMMA BesidePicked ==
  ASSUME NEW S, NEW s \in Seq(S), NEW r \in Seq(S), NEW x, Beside(s, r, x), NEW K, x \in K,
         NEW I, \A i : i \in I <=> i \in DOMAIN s /\ s[i] \in K,
         NEW J, \A i : i \in J <=> i \in DOMAIN r /\ r[i] \in K
  PROVE  /\ Picked(s, I) \in Seq(S) /\ Picked(r, J) \in Seq(S) /\ Beside(Picked(s, I), Picked(r, J), x)
         /\ Behind(s, r, x) => Behind(Picked(s, I), Picked(r, J), x)
<1> DEFINE p == Picked(s, I)
           q == Picked(r, J)
<1>1. ASSUME NEW u \in Seq(S), NEW U, \A i : i \in U <=> i \in DOMAIN u /\ u[i] \in K
      PROVE  Picked(u, U) \in Seq(S) /\ FactsOf(Picked(u, U)) = FactsOf(u) \cap K
  <2> DEFINE w == Picked(u, U)
  <2>1. U \subseteq DOMAIN u
    BY <1>1
  <2>2. /\ w \in Seq(S)
        /\ \A k \in DOMAIN w : \E i \in U : w[k] = u[i]
        /\ \A i \in U : \E k \in DOMAIN w : w[k] = u[i]
    BY <2>1, PickedIsList
  <2> HIDE DEF w
  <2>3. FactsOf(w) = FactsOf(u) \cap K
    BY <1>1, <2>2 DEF FactsOf
  <2> QED
    BY <2>2, <2>3 DEF w
<1>2. /\ p \in Seq(S) /\ FactsOf(p) = FactsOf(s) \cap K
      /\ q \in Seq(S) /\ FactsOf(q) = FactsOf(r) \cap K
  BY <1>1
<1>3. \A G, t : /\ FirstIn(p, G, t) <=> FirstIn(s, G \cap K, t)
                /\ FirstIn(q, G, t) <=> FirstIn(r, G \cap K, t)
  BY FirstPicked
<1>4. \A G, t : /\ LastIn(p, G, t) <=> LastIn(s, G \cap K, t)
                /\ LastIn(q, G, t) <=> LastIn(r, G \cap K, t)
  BY LastPicked
<1> HIDE DEF p, q
<1>5. Beside(p, q, x)
  BY <1>2, <1>3 DEF Beside
<1>6. Behind(s, r, x) => Behind(p, q, x)
  BY <1>4 DEF Behind
<1> QED
  BY <1>2, <1>5, <1>6 DEF p, q

\* Heads.
LEMMA BesideHead ==
  ASSUME NEW S, NEW s \in Seq(S), NEW r \in Seq(S), NEW x, Beside(s, r, x), s # <<>>
  PROVE  s[1] = x \/ (r # <<>> /\ s[1] = r[1])
<1> DEFINE G == FactsOf(s)
<1>1. 1 \in DOMAIN s /\ s[1] \in G /\ \A j \in DOMAIN s : 1 <= j
  BY DEF FactsOf
<1>2. FirstIn(s, G, s[1])
  BY <1>1 DEF FirstIn
<1>3. \A j \in DOMAIN r : r[j] \in G
  BY DEF Beside, FactsOf
<1> HIDE DEF G
<1>4. s[1] = x \/ FirstIn(r, G, s[1])
  BY <1>2 DEF Beside
<1>5. ASSUME FirstIn(r, G, s[1]) PROVE r # <<>> /\ s[1] = r[1]
  <2>1. PICK k \in DOMAIN r : r[k] = s[1] /\ \A j \in DOMAIN r : r[j] \in G => k <= j
    BY <1>5 DEF FirstIn
  <2>2. 1 \in DOMAIN r /\ k \in Nat /\ k >= 1
    BY <2>1
  <2>3. k <= 1
    BY <1>3, <2>1, <2>2
  <2>4. k = 1
    BY <2>2, <2>3
  <2> QED
    BY <2>1, <2>2, <2>4
<1> QED
  BY <1>4, <1>5

\* Each text put in the place of its fact.
LEMMA BesideMapped ==
  ASSUME NEW S, NEW s \in Seq(S), NEW r \in Seq(S), NEW x, Beside(s, r, x), NEW h
  PROVE  Beside([i \in DOMAIN s |-> h[s[i]]], [i \in DOMAIN r |-> h[r[i]]], h[x])
<1> DEFINE p == [i \in DOMAIN s |-> h[s[i]]]
           q == [i \in DOMAIN r |-> h[r[i]]]
<1>1. FactsOf(p) = FactsOf(q) \cup {h[x]}
  <2>1. FactsOf(p) = {h[f] : f \in FactsOf(s)} /\ FactsOf(q) = {h[f] : f \in FactsOf(r)}
    BY DEF FactsOf
  <2> HIDE DEF p, q
  <2> QED
    BY <2>1 DEF Beside
<1>2. ASSUME NEW G, NEW t, FirstIn(p, G, t) PROVE t = h[x] \/ FirstIn(q, G, t)
  <2> DEFINE B == {f \in FactsOf(s) : h[f] \in G}
  <2>1. PICK i \in DOMAIN s : h[s[i]] = t /\ t \in G /\ \A j \in DOMAIN s : h[s[j]] \in G => i <= j
    BY <1>2 DEF FirstIn
  <2>2. s[i] \in B /\ \A j \in DOMAIN s : s[j] \in B => i <= j
    BY <2>1 DEF FactsOf
  <2>3. FirstIn(s, B, s[i])
    BY <2>2 DEF FirstIn
  <2>4. \A f \in FactsOf(r) : h[f] \in G => f \in B
    BY DEF Beside
  <2> HIDE DEF B
  <2>5. s[i] = x \/ FirstIn(r, B, s[i])
    BY <2>3 DEF Beside
  <2>6. ASSUME FirstIn(r, B, s[i]) PROVE FirstIn(q, G, t)
    <3>1. PICK k \in DOMAIN r : r[k] = s[i] /\ \A j \in DOMAIN r : r[j] \in B => k <= j
      BY <2>6 DEF FirstIn
    <3>2. k \in DOMAIN q /\ q[k] = t
      BY <2>1, <3>1
    <3>3. \A j \in DOMAIN q : q[j] \in G => k <= j
      BY <2>4, <3>1 DEF FactsOf
    <3> QED
      BY <2>1, <3>2, <3>3 DEF FirstIn
  <2> QED
    BY <2>1, <2>5, <2>6
<1> QED
  BY <1>1, <1>2 DEF Beside

\* An element that only the longer list may pass over is first in both or in none.
LEMMA SameFirst ==
  ASSUME NEW S, NEW s \in Seq(S), NEW r \in Seq(S), NEW x, Beside(s, r, x), NEW G, x \notin G, NEW t
  PROVE  FirstIn(s, G, t) <=> FirstIn(r, G, t)
<1>1. FirstIn(s, G, t) => FirstIn(r, G, t)
  BY DEF Beside, FirstIn
<1>2. ASSUME FirstIn(r, G, t) PROVE FirstIn(s, G, t)
  <2>1. t \in G /\ t \in FactsOf(s)
    BY <1>2 DEF Beside, FirstIn, FactsOf
  <2>2. PICK k \in DOMAIN s : s[k] \in G
    BY <2>1 DEF FactsOf
  <2>3. PICK u : FirstIn(s, G, u)
    BY <2>2, SomeFirst
  <2>4. FirstIn(r, G, u)
    BY <2>3 DEF Beside, FirstIn
  <2>5. u = t
    BY <1>2, <2>4, OneFirst
  <2> QED
    BY <2>3, <2>5
<1> QED
  BY <1>1, <1>2

\* Copy drops what repeats the headline, so nothing comes first that did not.
LEMMA CopyFirst ==
  ASSUME NEW T, NEW w \in Seq(T), w # <<>>, NEW G, NEW t
  PROVE  FirstIn(Copy(w), G, t) <=> FirstIn(w, G, t)
<1> DEFINE K == FactsOf(w) \ {w[1]}
           rest == Picked(w, {i \in DOMAIN w : w[i] \in K})
           copy == Copy(w)
<1>1. {i \in DOMAIN w : w[i] # w[1]} = {i \in DOMAIN w : w[i] \in K}
  BY DEF FactsOf
<1>2. copy = <<w[1]>> \o rest
  BY <1>1 DEF Copy, OneLiner, Rest
<1>3. rest \in Seq(T)
  <2> DEFINE I == {i \in DOMAIN w : w[i] \in K}
  <2>1. I \subseteq DOMAIN w
    OBVIOUS
  <2> HIDE DEF I
  <2>2. Picked(w, I) \in Seq(T)
    BY <2>1, PickedIsList
  <2> QED
    BY <2>2 DEF I
<1>4. FirstIn(rest, G, t) <=> FirstIn(w, G \cap K, t)
  <2> DEFINE I == {i \in DOMAIN w : w[i] \in K}
  <2>1. \A i : i \in I <=> i \in DOMAIN w /\ w[i] \in K
    OBVIOUS
  <2> HIDE DEF K, I
  <2>2. FirstIn(Picked(w, I), G, t) <=> FirstIn(w, G \cap K, t)
    BY <2>1, FirstPicked
  <2> QED
    BY <2>2 DEF I
<1>5. 1 \in DOMAIN w /\ w[1] \in T /\ \A i \in DOMAIN w : i \in Nat /\ 1 <= i /\ w[i] \in FactsOf(w)
  BY DEF FactsOf
<1> HIDE DEF rest, copy
<1>6. /\ DOMAIN copy = 1..(Len(rest) + 1) /\ copy[1] = w[1] /\ Len(rest) \in Nat
      /\ DOMAIN rest = 1..Len(rest)
      /\ \A k \in DOMAIN rest : copy[k + 1] = rest[k]
  BY <1>2, <1>3, <1>5
<1>7. /\ \A k \in DOMAIN rest : k + 1 \in DOMAIN copy
      /\ \A k \in DOMAIN copy : k = 1 \/ (k - 1 \in DOMAIN rest /\ copy[k] = rest[k - 1])
      /\ \A k \in DOMAIN copy : k \in Nat /\ 1 <= k
      /\ 1 \in DOMAIN copy
  BY <1>6
<1>8. CASE w[1] \in G
  <2>1. FirstIn(w, G, w[1]) /\ FirstIn(copy, G, w[1])
    BY <1>5, <1>6, <1>7, <1>8 DEF FirstIn
  <2>2. copy \in Seq(T)
    BY CopyIsList DEF copy
  <2>3. (FirstIn(w, G, t) => t = w[1]) /\ (FirstIn(copy, G, t) => t = w[1])
    BY <2>1, <2>2, OneFirst
  <2> QED
    BY <2>1, <2>3 DEF copy
<1>9. CASE w[1] \notin G
  <2>1. FirstIn(w, G, t) <=> FirstIn(w, G \cap K, t)
    <3>1. \A i \in DOMAIN w : w[i] \in G <=> w[i] \in G \cap K
      BY <1>5, <1>9
    <3> HIDE DEF K
    <3> QED
      BY <3>1 DEF FirstIn
  <2>2. ASSUME FirstIn(copy, G, t) PROVE FirstIn(rest, G, t)
    <3>1. PICK k \in DOMAIN copy : copy[k] = t /\ t \in G /\ \A j \in DOMAIN copy : copy[j] \in G => k <= j
      BY <2>2 DEF FirstIn
    <3>2. k # 1
      BY <1>6, <1>9, <3>1
    <3>3. k - 1 \in DOMAIN rest /\ rest[k - 1] = t
      BY <1>7, <3>1, <3>2
    <3>4. ASSUME NEW j \in DOMAIN rest, rest[j] \in G PROVE k - 1 <= j
      <4>1. j + 1 \in DOMAIN copy /\ copy[j + 1] \in G
        BY <1>6, <1>7, <3>4
      <4>2. k <= j + 1 /\ j \in Nat /\ k \in Nat
        BY <1>6, <1>7, <3>1, <4>1
      <4> QED
        BY <4>2
    <3> QED
      BY <3>1, <3>3, <3>4 DEF FirstIn
  <2>3. ASSUME FirstIn(rest, G, t) PROVE FirstIn(copy, G, t)
    <3>1. PICK k \in DOMAIN rest : rest[k] = t /\ t \in G /\ \A j \in DOMAIN rest : rest[j] \in G => k <= j
      BY <2>3 DEF FirstIn
    <3>2. k + 1 \in DOMAIN copy /\ copy[k + 1] = t
      BY <1>6, <1>7, <3>1
    <3>3. ASSUME NEW j \in DOMAIN copy, copy[j] \in G PROVE k + 1 <= j
      <4>1. j - 1 \in DOMAIN rest /\ rest[j - 1] \in G
        BY <1>6, <1>7, <1>9, <3>3
      <4>2. k <= j - 1 /\ j \in Nat /\ k \in Nat
        BY <1>6, <1>7, <3>1, <4>1
      <4> QED
        BY <4>2
    <3> QED
      BY <3>1, <3>2, <3>3 DEF FirstIn
  <2> QED
    BY <1>4, <2>1, <2>2, <2>3 DEF copy
<1> QED
  BY <1>8, <1>9

\* The two forms in which the code takes a first or a last element.
LEMMA ChosenFirst ==
  ASSUME NEW S, NEW s \in Seq(S), NEW G, NEW t, FirstIn(s, G, t),
         NEW good, \A i : i \in good <=> i \in DOMAIN s /\ s[i] \in G
  PROVE  LET k == CHOOSE i \in good : \A j \in good : i <= j
         IN  good # {} /\ k # 0 /\ k \in DOMAIN s /\ s[k] = t
<1> DEFINE k == CHOOSE i \in good : \A j \in good : i <= j
<1>1. PICK i \in DOMAIN s : s[i] = t /\ t \in G /\ \A j \in DOMAIN s : s[j] \in G => i <= j
  BY DEF FirstIn
<1>2. i \in good /\ \A j \in good : i <= j
  BY <1>1
<1>3. k \in good /\ \A j \in good : k <= j
  BY <1>2
<1>4. \A j \in good : j \in Nat /\ j # 0
  OBVIOUS
<1> HIDE DEF k
<1>5. k = i
  BY <1>2, <1>3, <1>4
<1> QED
  BY <1>1, <1>2, <1>4, <1>5 DEF k

LEMMA ChosenLast ==
  ASSUME NEW S, NEW s \in Seq(S), NEW G, NEW t, LastIn(s, G, t),
         NEW good, \A i : i \in good <=> i \in DOMAIN s /\ s[i] \in G
  PROVE  LET k == CHOOSE i \in good : \A j \in good : j <= i
         IN  good # {} /\ k # 0 /\ k \in DOMAIN s /\ s[k] = t
<1> DEFINE k == CHOOSE i \in good : \A j \in good : j <= i
<1>1. PICK i \in DOMAIN s : s[i] = t /\ t \in G /\ \A j \in DOMAIN s : s[j] \in G => j <= i
  BY DEF LastIn
<1>2. i \in good /\ \A j \in good : j <= i
  BY <1>1
<1>3. k \in good /\ \A j \in good : j <= k
  BY <1>2
<1>4. \A j \in good : j \in Nat /\ j # 0
  OBVIOUS
<1> HIDE DEF k
<1>5. k = i
  BY <1>2, <1>3, <1>4
<1> QED
  BY <1>1, <1>2, <1>4, <1>5 DEF k

LEMMA SomeLast ==
  ASSUME NEW S, NEW s \in Seq(S), NEW G, NEW k \in DOMAIN s, s[k] \in G
  PROVE  \E t : LastIn(s, G, t)
<1> DEFINE good == {i \in DOMAIN s : s[i] \in G}
<1>1. good \subseteq 1..Len(s) /\ good # {} /\ Len(s) \in Nat
  OBVIOUS
<1>2. PICK m \in good : \A i \in good : i <= m
  BY <1>1, Greatest
<1>3. LastIn(s, G, s[m])
  BY <1>2 DEF LastIn
<1> QED
  BY <1>3

\* The ship of the proof slot is the first ship of the brief.
LEMMA FirstShipIs ==
  ASSUME NEW S, NEW fs \in Seq(S), HasShip(fs)
  PROVE  \E f : /\ FirstIn(fs, {g \in FactsOf(fs) : g.url \in ShipUrls}, f)
                /\ ProofUrl(fs) = f.url /\ FirstShip(fs) = f.url
<1> DEFINE G == {g \in FactsOf(fs) : g.url \in ShipUrls}
           good == {i \in DOMAIN fs : fs[i].url \in ShipUrls}
           k == CHOOSE i \in good : \A j \in good : i <= j
<1>1. PICK m \in DOMAIN fs : fs[m] \in G
  BY DEF HasShip, Urls, FactsOf
<1>2. PICK f : FirstIn(fs, G, f)
  <2> HIDE DEF G
  <2> QED
    BY <1>1, SomeFirst
<1>3. good # {} /\ k # 0 /\ fs[k] = f
  <2>1. \A i : i \in good <=> i \in DOMAIN fs /\ fs[i] \in G
    BY DEF FactsOf
  <2> HIDE DEF G, good
  <2> QED
    BY <1>2, <2>1, ChosenFirst
<1>4. ProofUrl(fs) = fs[k].url /\ FirstShip(fs) = fs[k].url
  <2> HIDE DEF G
  <2> QED
    BY <1>3 DEF ProofUrl, FirstShip, FirstWhere, k
<1> QED
  BY <1>2, <1>3, <1>4

\* A slot shows the last fact of its kind, else the first line with its mark.
Fills(slot, fs, L, M) ==
  /\ \A f : LastIn(WornFacts(fs), L, f) => slot = <<WornText(f, fs)>>
  /\ (~\E f : LastIn(WornFacts(fs), L, f)) =>
       /\ \A t : FirstIn(Worn(fs), M, t) => slot = <<t>>
       /\ (~\E t : FirstIn(Worn(fs), M, t)) => slot = <<>>

LEMMA SlotIs ==
  ASSUME NEW S, NEW fs \in Seq(S), NEW T, Worn(fs) \in Seq(T), NEW kind, NEW mark,
         NEW L, \A f \in S : f \in L <=> f.kind = kind, NEW M, \A t \in T : t \in M <=> mark \in t
  PROVE  Fills(Slot(fs, kind, mark), fs, L, M)
<1> DEFINE kept == WornFacts(fs)
           texts == Worn(fs)
           labelled == {i \in DOMAIN kept : kept[i].kind = kind}
           shown == {i \in DOMAIN texts : mark \in texts[i]}
           last == CHOOSE i \in labelled : \A j \in labelled : j <= i
           first == CHOOSE i \in shown : \A j \in shown : i <= j
<1>1. kept \in Seq(S) /\ texts \in Seq(T) /\ DOMAIN texts = DOMAIN kept
      /\ texts = [i \in DOMAIN kept |-> WornText(kept[i], fs)]
  BY WornIsSaid DEF Worn
<1>2. /\ \A i : i \in labelled <=> i \in DOMAIN kept /\ kept[i] \in L
      /\ \A i : i \in shown <=> i \in DOMAIN texts /\ texts[i] \in M
  <2> HIDE DEF kept, texts
  <2> QED
    BY <1>1
<1>3. Slot(fs, kind, mark) =
        IF labelled # {} THEN <<texts[last]>>
        ELSE IF (IF shown = {} THEN 0 ELSE first) # 0 THEN <<texts[IF shown = {} THEN 0 ELSE first]>>
        ELSE <<>>
  BY DEF Slot, FirstWhere
<1> HIDE DEF kept, texts, labelled, shown
<1>4. ASSUME NEW f, LastIn(kept, L, f) PROVE Slot(fs, kind, mark) = <<WornText(f, fs)>>
  <2>1. labelled # {} /\ last \in DOMAIN kept /\ kept[last] = f
    <3>1. kept \in Seq(S) /\ \A i : i \in labelled <=> i \in DOMAIN kept /\ kept[i] \in L
      BY <1>1, <1>2
    <3> QED
      BY <1>4, <3>1, ChosenLast
  <2>2. texts[last] = WornText(f, fs)
    <3> HIDE DEF last
    <3> QED
      BY <1>1, <2>1
  <2> HIDE DEF last
  <2> QED
    BY <1>3, <2>1, <2>2
<1>5. ASSUME ~\E f : LastIn(kept, L, f)
      PROVE  /\ \A t : FirstIn(texts, M, t) => Slot(fs, kind, mark) = <<t>>
             /\ (~\E t : FirstIn(texts, M, t)) => Slot(fs, kind, mark) = <<>>
  <2>1. labelled = {}
    BY <1>1, <1>2, <1>5, SomeLast
  <2>2. ASSUME NEW t, FirstIn(texts, M, t) PROVE Slot(fs, kind, mark) = <<t>>
    <3>1. shown # {} /\ first # 0 /\ texts[first] = t
      <4>1. texts \in Seq(T) /\ \A i : i \in shown <=> i \in DOMAIN texts /\ texts[i] \in M
        BY <1>1, <1>2
      <4> QED
        BY <2>2, <4>1, ChosenFirst
    <3> HIDE DEF first
    <3> QED
      BY <1>3, <2>1, <3>1
  <2>3. ASSUME ~\E t : FirstIn(texts, M, t) PROVE Slot(fs, kind, mark) = <<>>
    <3>1. shown = {}
      BY <1>1, <1>2, <2>3, SomeFirst
    <3> HIDE DEF first
    <3> QED
      BY <1>3, <2>1, <3>1
  <2> QED
    BY <2>2, <2>3
<1> QED
  BY <1>4, <1>5 DEF Fills, kept, texts

\* Three lines for each fact.
LEMMA LinesAre ==
  ASSUME NEW S, NEW fs \in Seq(S)
  PROVE  /\ Lines(fs) \in Seq(FactsOf(Lines(fs)))
         /\ \A i \in DOMAIN fs :
              /\ 3 * i - 2 \in DOMAIN Lines(fs) /\ Lines(fs)[3 * i - 2] = fs[i].text
              /\ 3 * i - 1 \in DOMAIN Lines(fs)
              /\ Lines(fs)[3 * i - 1] = IF fs[i].kind \in LongKinds THEN {} ELSE {"short"}
         /\ \A n \in DOMAIN Lines(fs) : \E i \in DOMAIN fs :
              n = 3 * i - 2 \/ n = 3 * i - 1 \/ (n = 3 * i /\ Lines(fs)[n] = {"url", "short"})
<1> DEFINE lines == Lines(fs)
<1>1. Len(fs) \in Nat /\ DOMAIN fs = 1..Len(fs) /\ DOMAIN lines = 1..(3 * Len(fs))
  BY DEF Lines
<1>2. lines \in Seq(FactsOf(lines))
  <2>1. lines = [n \in 1..(3 * Len(fs)) |-> lines[n]] /\ 3 * Len(fs) \in Nat
    BY <1>1 DEF Lines
  <2>2. \A n \in 1..(3 * Len(fs)) : lines[n] \in FactsOf(lines)
    BY <1>1 DEF FactsOf
  <2> HIDE DEF lines
  <2> QED
    BY <2>1, <2>2
<1>3. ASSUME NEW i \in DOMAIN fs
      PROVE  /\ 3 * i - 2 \in DOMAIN lines /\ lines[3 * i - 2] = fs[i].text
             /\ 3 * i - 1 \in DOMAIN lines
             /\ lines[3 * i - 1] = IF fs[i].kind \in LongKinds THEN {} ELSE {"short"}
  <2> DEFINE n == 3 * i - 2
             m == 3 * i - 1
  <2>1. n \in 1..(3 * Len(fs)) /\ n % 3 = 1 /\ ((n - 1) \div 3) + 1 = i
    <3>1. i \in Nat /\ i >= 1 /\ i <= Len(fs) /\ Len(fs) \in Nat
      BY <1>1
    <3>2. n \in 1..(3 * Len(fs)) /\ n % 3 = 1
      BY <3>1
    <3>3. (n - 1) \div 3 = i - 1
      BY <3>1
    <3> QED
      BY <3>1, <3>2, <3>3
  <2>2. m \in 1..(3 * Len(fs)) /\ m % 3 = 2 /\ ((m - 1) \div 3) + 1 = i
    <3>1. i \in Nat /\ i >= 1 /\ i <= Len(fs) /\ Len(fs) \in Nat
      BY <1>1
    <3>2. m \in 1..(3 * Len(fs))
      BY <3>1
    <3>3. \A k \in Nat : (3 * k + 2) % 3 = 2 /\ (3 * k + 1) \div 3 = k
      OBVIOUS
    <3>4. i - 1 \in Nat /\ m = 3 * (i - 1) + 2 /\ m - 1 = 3 * (i - 1) + 1
      BY <3>1
    <3>5. m % 3 = 2 /\ (m - 1) \div 3 = i - 1
      BY <3>3, <3>4
    <3> HIDE DEF m
    <3> QED
      BY <3>1, <3>2, <3>5
  <2> HIDE DEF n, m
  <2>3. n \in DOMAIN lines /\ lines[n] = fs[i].text
    BY <2>1 DEF Lines
  <2>4. m \in DOMAIN lines /\ lines[m] = IF fs[i].kind \in LongKinds THEN {} ELSE {"short"}
    BY <2>2 DEF Lines
  <2> QED
    BY <2>3, <2>4 DEF n, m
<1>4. ASSUME NEW n \in DOMAIN lines
      PROVE  \E i \in DOMAIN fs : n = 3 * i - 2 \/ n = 3 * i - 1 \/ (n = 3 * i /\ lines[n] = {"url", "short"})
  <2> DEFINE i == ((n - 1) \div 3) + 1
  <2>1. n \in 1..(3 * Len(fs))
    BY <1>1
  <2>2. i \in DOMAIN fs /\ (n = 3 * i - 2 \/ n = 3 * i - 1 \/ (n = 3 * i /\ n % 3 = 0))
    BY <1>1, <2>1
  <2> HIDE DEF i
  <2>3. n % 3 = 0 => lines[n] = {"url", "short"}
    BY <2>1 DEF Lines
  <2> QED
    BY <2>2, <2>3
<1> QED
  BY <1>2, <1>3, <1>4

\* The facts that hold a line of substance, and that line.
Substantial(fs) == {f \in FactsOf(fs) : "short" \notin f.text \/ f.kind \in LongKinds}
Opening(f) == IF "short" \notin f.text THEN f.text ELSE {}
FullLines(fs) == {t \in FactsOf(Lines(fs)) : "short" \notin t}

LEMMA OpeningLine ==
  ASSUME NEW S, NEW fs \in Seq(S), NEW f, FirstIn(fs, Substantial(fs), f)
  PROVE  FirstIn(Lines(fs), FullLines(fs), Opening(f))
<1> DEFINE lines == Lines(fs)
           B == Substantial(fs)
           G == FullLines(fs)
<1>1. /\ \A i \in DOMAIN fs :
           /\ 3 * i - 2 \in DOMAIN lines /\ lines[3 * i - 2] = fs[i].text
           /\ 3 * i - 1 \in DOMAIN lines
           /\ lines[3 * i - 1] = IF fs[i].kind \in LongKinds THEN {} ELSE {"short"}
      /\ \A n \in DOMAIN lines : \E i \in DOMAIN fs :
           n = 3 * i - 2 \/ n = 3 * i - 1 \/ (n = 3 * i /\ lines[n] = {"url", "short"})
  BY LinesAre
<1>2. PICK k \in DOMAIN fs : fs[k] = f /\ f \in B /\ \A j \in DOMAIN fs : fs[j] \in B => k <= j
  BY DEF FirstIn
<1>3. \A n \in DOMAIN lines : lines[n] \in G <=> "short" \notin lines[n]
  BY DEF FullLines, FactsOf
<1>4. \A i \in DOMAIN fs : i \in Nat /\ (fs[i] \in B <=> "short" \notin fs[i].text \/ fs[i].kind \in LongKinds)
  BY DEF Substantial, FactsOf
<1> HIDE DEF lines, B, G
<1>5. ASSUME NEW n \in DOMAIN lines, lines[n] \in G
      PROVE  \E i \in DOMAIN fs : /\ k <= i
                                  /\ \/ n = 3 * i - 2 /\ "short" \notin fs[i].text
                                     \/ n = 3 * i - 1 /\ fs[i].kind \in LongKinds
  <2>1. PICK i \in DOMAIN fs : n = 3 * i - 2 \/ n = 3 * i - 1 \/ (n = 3 * i /\ lines[n] = {"url", "short"})
    BY <1>1
  <2>2. "short" \notin lines[n]
    BY <1>3, <1>5
  <2>3. \/ n = 3 * i - 2 /\ "short" \notin fs[i].text
        \/ n = 3 * i - 1 /\ fs[i].kind \in LongKinds
    BY <1>1, <2>1, <2>2
  <2>4. k <= i
    BY <1>2, <1>4, <2>3
  <2> QED
    BY <2>3, <2>4
<1>6. CASE "short" \notin f.text
  <2> DEFINE n == 3 * k - 2
  <2>1. n \in DOMAIN lines /\ lines[n] = Opening(f) /\ lines[n] \in G
    BY <1>1, <1>2, <1>3, <1>6 DEF Opening
  <2>2. ASSUME NEW m \in DOMAIN lines, lines[m] \in G PROVE n <= m
    BY <1>2, <1>4, <1>5, <2>2
  <2> HIDE DEF n
  <2> QED
    BY <2>1, <2>2 DEF FirstIn, lines, G
<1>7. CASE "short" \in f.text
  <2> DEFINE n == 3 * k - 1
  <2>1. f.kind \in LongKinds
    BY <1>2, <1>4, <1>7
  <2>2. n \in DOMAIN lines /\ lines[n] = Opening(f) /\ lines[n] \in G
    BY <1>1, <1>2, <1>3, <1>7, <2>1 DEF Opening
  <2>3. ASSUME NEW m \in DOMAIN lines, lines[m] \in G PROVE n <= m
    <3>1. PICK i \in DOMAIN fs : /\ k <= i
                                 /\ \/ m = 3 * i - 2 /\ "short" \notin fs[i].text
                                    \/ m = 3 * i - 1 /\ fs[i].kind \in LongKinds
      BY <1>5, <2>3
    <3>2. ~(i = k /\ m = 3 * i - 2)
      BY <1>2, <1>4, <1>7, <3>1
    <3>3. i \in Nat /\ k \in Nat
      BY <1>4
    <3> QED
      BY <3>1, <3>2, <3>3
  <2> HIDE DEF n
  <2> QED
    BY <2>2, <2>3 DEF FirstIn, lines, G
<1> QED
  BY <1>6, <1>7

\* A letter is fine whose first full line is no request, and that is signed.
LEMMA LetterIs ==
  ASSUME NEW S, NEW lines \in Seq(S), NEW G, \A t \in S : t \in G <=> "short" \notin t
  PROVE  LetterReason(lines) = "ok"
         <=> /\ {"crush", "team_voice"} \cap SaidIn(lines) = {} /\ "surname" \in SaidIn(lines)
             /\ \E t : FirstIn(lines, G, t) /\ "ask" \notin t
<1> DEFINE full == {i \in DOMAIN lines : "short" \notin lines[i]}
           first == CHOOSE i \in full : \A j \in full : i <= j
           marks == SaidIn(lines)
           none == IF full = {} THEN 0 ELSE first
<1>1. LetterReason(lines) =
        IF "crush" \in marks \/ none = 0 THEN "letter_ask_without_gift"
        ELSE IF "ask" \in lines[none] THEN "letter_ask_without_gift"
        ELSE IF "team_voice" \in marks \/ "surname" \notin marks THEN "letter_without_surname"
        ELSE "ok"
  BY DEF LetterReason, FirstWhere, SaidIn
<1>2. \A i : i \in full <=> i \in DOMAIN lines /\ lines[i] \in G
  OBVIOUS
<1> HIDE DEF marks, full
<1>3. CASE full = {}
  <2>1. ~\E t : FirstIn(lines, G, t)
    BY <1>2, <1>3 DEF FirstIn
  <2> QED
    BY <1>1, <1>3, <2>1 DEF marks
<1>4. CASE full # {}
  <2>1. PICK t : FirstIn(lines, G, t)
    BY <1>2, <1>4, SomeFirst
  <2>2. first # 0 /\ lines[first] = t
    BY <1>2, <2>1, ChosenFirst
  <2>3. \A u : FirstIn(lines, G, u) => u = t
    BY <2>1, OneFirst
  <2> HIDE DEF first
  <2> QED
    BY <1>1, <1>4, <2>1, <2>2, <2>3 DEF marks
<1> QED
  BY <1>3, <1>4

\* A copy of two lines tells two things.
LEMMA CopyTellsTwo ==
  ASSUME NEW T, NEW w \in Seq(T), w # <<>>, Len(Copy(w)) > 1
  PROVE  Copy(w)[2] \in FactsOf(w) /\ w[1] \in FactsOf(w) /\ Copy(w)[2] # w[1]
<1> DEFINE left == {i \in DOMAIN w : w[i] # w[1]}
           rest == Picked(w, left)
<1>1. Copy(w) = <<w[1]>> \o rest
  BY DEF Copy, OneLiner, Rest
<1>2. left \subseteq DOMAIN w /\ 1 \in DOMAIN w /\ rest = Picked(w, left)
  OBVIOUS
<1> HIDE DEF rest, left
<1>3. rest \in Seq(T) /\ \A k \in DOMAIN rest : \E i \in left : rest[k] = w[i]
  BY <1>2, PickedIsList
<1>4. Len(Copy(w)) = 1 + Len(rest) /\ Len(rest) \in Nat
  BY <1>1, <1>3
<1>5. 1 \in DOMAIN rest
  BY <1>3, <1>4
<1>6. Copy(w)[2] = rest[1]
  BY <1>1, <1>3, <1>5
<1>7. PICK i \in left : rest[1] = w[i]
  BY <1>3, <1>5
<1> QED
  BY <1>2, <1>6, <1>7 DEF FactsOf, left

LEMMA SomePicked ==
  ASSUME NEW S, NEW s \in Seq(S), NEW I, I \subseteq DOMAIN s
  PROVE  Picked(s, I) # <<>> <=> I # {}
<1> DEFINE p == Picked(s, I)
<1>1. /\ p \in Seq(S) /\ \A k \in DOMAIN p : \E i \in I : p[k] = s[i]
      /\ \A i \in I : \E k \in DOMAIN p : p[k] = s[i]
  BY PickedIsList
<1> HIDE DEF p
<1>2. p # <<>> <=> DOMAIN p # {}
  BY <1>1
<1>3. DOMAIN p # {} <=> I # {}
  BY <1>1
<1> QED
  BY <1>2, <1>3 DEF p

LEMMA AppendFirst ==
  ASSUME NEW S, NEW s \in Seq(S), NEW x, NEW G, x \notin G, NEW t
  PROVE  FirstIn(Append(s, x), G, t) <=> FirstIn(s, G, t)
<1> DEFINE a == Append(s, x)
<1>1. /\ DOMAIN a = 1..(Len(s) + 1) /\ DOMAIN s = 1..Len(s) /\ Len(s) \in Nat
      /\ a[Len(s) + 1] = x /\ \A i \in DOMAIN s : a[i] = s[i]
  OBVIOUS
<1> HIDE DEF a
<1>2. /\ \A i \in DOMAIN s : i \in DOMAIN a
      /\ \A i \in DOMAIN a : i \in DOMAIN s \/ i = Len(s) + 1
  BY <1>1
<1>3. \A i \in DOMAIN a : a[i] \in G => i \in DOMAIN s
  BY <1>1, <1>2
<1>4. FirstIn(a, G, t) => FirstIn(s, G, t)
  BY <1>1, <1>2, <1>3 DEF FirstIn
<1>5. FirstIn(s, G, t) => FirstIn(a, G, t)
  BY <1>1, <1>2, <1>3 DEF FirstIn
<1> QED
  BY <1>4, <1>5 DEF a

LEMMA SaidOnTop ==
  ASSUME NEW S, NEW s \in Seq(S), NEW x
  PROVE  SaidIn(Append(s, x)) = SaidIn(s) \cup x
<1> DEFINE a == Append(s, x)
<1>1. /\ DOMAIN a = 1..(Len(s) + 1) /\ DOMAIN s = 1..Len(s) /\ Len(s) \in Nat
      /\ a[Len(s) + 1] = x /\ \A i \in DOMAIN s : a[i] = s[i]
  OBVIOUS
<1> HIDE DEF a
<1>2. /\ \A i \in DOMAIN s : i \in DOMAIN a
      /\ \A i \in DOMAIN a : i \in DOMAIN s \/ i = Len(s) + 1
      /\ Len(s) + 1 \in DOMAIN a
  BY <1>1
<1>3. SaidIn(a) = SaidIn(s) \cup x
  BY <1>1, <1>2 DEF SaidIn
<1> QED
  BY <1>3 DEF a

=============================================================================
