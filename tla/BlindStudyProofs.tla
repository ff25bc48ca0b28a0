-------------------------- MODULE BlindStudyProofs --------------------------
(***************************************************************************)
(* Proofs about BlindStudy, for any records, seeds, configurations and     *)
(* reviewers, any number of commands and a crash between any two writes:   *)
(* packets and their mapping fit, reviews are kept, and what is joined is  *)
(* what was read.                                                          *)
(***************************************************************************)
EXTENDS BlindStudy, FiniteSetTheorems, WellFoundedInduction, TLAPS

(* A set of numbers that is not empty has a least one.                     *)
LEMMA LeastNumber ==
  ASSUME NEW S \in SUBSET Nat, S # {}
  PROVE  \E x \in S : \A y \in S : x <= y
<1> DEFINE R == OpToRel(<, Nat)
<1>1. IsWellFoundedOn(R, Nat)
  BY NatLessThanWellFounded
<1>2. \A x, y \in Nat : <<y, x>> \in R <=> y < x
  BY DEF OpToRel
<1> HIDE DEF R
<1>3. \E x \in S : \A y \in S : ~ (<<y, x>> \in R)
  <2>1. S \subseteq Nat /\ S # {}
    OBVIOUS
  <2>2. QED
    BY <1>1, <2>1, WFMin
<1>4. PICK x \in S : \A y \in S : ~ (<<y, x>> \in R)
  BY <1>3
<1>5. \A y \in S : ~ (y < x)
  <2>1. x \in Nat /\ \A y \in S : y \in Nat
    OBVIOUS
  <2>2. QED
    BY <1>2, <1>4, <2>1, Zenon
<1>6. \A y \in S : x \in Nat /\ y \in Nat
  OBVIOUS
<1>7. QED
  BY <1>5, <1>6

(* A set of positions of a list has a last one.                            *)
LEMMA LastPosition ==
  ASSUME NEW n \in Nat, NEW S \in SUBSET (1..n), S # {}
  PROVE  Max(S) \in S /\ \A i \in S : i <= Max(S)
<1> DEFINE back == {n - i : i \in S}
<1>1. back \in SUBSET Nat /\ back # {}
  <2>1. \A i \in S : i \in 1..n
    OBVIOUS
  <2>2. \A i \in S : n - i \in Nat
    BY <2>1
  <2>3. QED
    BY <2>2
<1>2. PICK k \in back : \A l \in back : k <= l
  BY <1>1, LeastNumber
<1>3. PICK i \in S : k = n - i
  BY <1>2
<1>4. \A j \in S : j <= i
  <2>1. \A j \in S : n - i <= n - j
    BY <1>2, <1>3
  <2>2. QED
    BY <2>1
<1>5. Max(S) = CHOOSE x \in S : \A y \in S : x >= y
  BY Zenon DEF Max
<1>6. \A j \in S : i >= j
  BY <1>4
<1>7. Max(S) \in S /\ \A j \in S : Max(S) >= j
  BY <1>5, <1>6
<1>8. QED
  BY <1>7

-----------------------------------------------------------------------------
(* Blind ids.                                                              *)

(* However the others are salted, a record has an id of its own left.      *)
LEMMA SaltsSuffice ==
  ASSUME NEW seed \in Seeds, NEW r \in Ids
  PROVE  \A others \in SUBSET (Ids \ {r}) : \A salt \in [others -> Salts] :
           \E k \in Salts : \A s \in others : RawId[seed][r][k] # RawId[seed][s][salt[s]]
<1>1. \A d \in Seeds, q \in Ids : \A others \in SUBSET (Ids \ {q}) :
        \A salt \in [others -> Salts] :
          \E k \in Salts : \A s \in others : RawId[d][q][k] # RawId[d][s][salt[s]]
  BY BlindAssumption
<1>2. QED
  BY <1>1, Zenon

(* Whatever is selected, the records can take their salts in turn.         *)
LEMMA SaltsExist ==
  ASSUME NEW seed \in Seeds, NEW records \in SUBSET Ids
  PROVE  \E salt \in [records -> Salts] : Salted(records, seed, salt)
<1> DEFINE n == Len(Records)
           upTo(m) == {r \in records : r <= m}
           can(m) == \E salt \in [upTo(m) -> Salts] : Salted(upTo(m), seed, salt)
           bad == {m \in 0..n : ~can(m)}
<1>1. n \in Nat /\ Ids = 1..n
  BY BlindAssumption DEF Ids
<1> HIDE DEF n
<1>0. \A r \in records : r \in Nat /\ 1 <= r /\ r <= n
  <2>1. \A r \in records : r \in Ids
    OBVIOUS
  <2>2. QED
    BY <1>1, <2>1
<1>2. records = upTo(n)
  BY <1>0
<1>7. \A m, r : r \in upTo(m) <=> r \in records /\ r <= m
  OBVIOUS
<1> HIDE DEF can
<1>3. ASSUME bad # {} PROVE FALSE
  <2>1. PICK m \in bad : \A l \in bad : m <= l
    <3>1. bad \in SUBSET Nat
      BY <1>1
    <3>2. QED
      BY <1>3, <3>1, LeastNumber
  <2>2. m # 0
    <3>1. upTo(0) = {}
      BY <1>0
    <3>2. [r \in {} |-> 0] \in [{} -> Salts] /\ Salted({}, seed, [r \in {} |-> 0])
      BY DEF Salted
    <3>3. ASSUME m = 0 PROVE FALSE
      <4>1. ~can(0)
        BY <2>1, <3>3
      <4>2. can(0)
        BY <3>1, <3>2, Zenon DEF can
      <4>3. QED
        BY <4>1, <4>2
    <3>4. QED
      BY <3>3
  <2>3. m \in 1..n /\ m - 1 \in 0..n /\ m - 1 \notin bad
    BY <1>1, <2>1, <2>2
  <2>4. PICK before \in [upTo(m - 1) -> Salts] : Salted(upTo(m - 1), seed, before)
    <3>1. can(m - 1)
      BY <2>3
    <3>2. QED
      BY <3>1 DEF can
  <2>8. ~can(m)
    BY <2>1
  <2> HIDE DEF bad, upTo
  <2>9. \A r \in upTo(m) : r # m => r \in upTo(m - 1)
    BY <1>0, <1>7, <2>3
  <2>10. \A r \in upTo(m - 1) : r \in upTo(m) /\ r \in records /\ r \in Nat /\ r < m
    BY <1>0, <1>7, <2>3
  <2>5. CASE m \notin records
    <3>0. \A r \in records : r # m
      BY <2>5
    <3>1. upTo(m) = upTo(m - 1)
      BY <1>0, <1>7, <2>3, <3>0
    <3>2. QED
      BY <2>4, <2>8, <3>1 DEF can
  <2>6. CASE m \in records
    <3> DEFINE used == {RawId[seed][s][before[s]] : s \in upTo(m - 1)}
               free == {k \in Salts : RawId[seed][m][k] \notin used}
    <3>1. upTo(m - 1) \in SUBSET (Ids \ {m}) /\ m \in Ids
      <4>1. m \in Ids
        BY <1>1, <2>3
      <4>2. m \notin upTo(m - 1)
        BY <2>10, <2>3
      <4>3. upTo(m - 1) \subseteq Ids
        BY <2>10
      <4>4. QED
        BY <4>1, <4>2, <4>3
    <3>2. \E k \in Salts : \A s \in upTo(m - 1) : RawId[seed][m][k] # RawId[seed][s][before[s]]
      <4>1. /\ seed \in Seeds /\ m \in Ids /\ upTo(m - 1) \in SUBSET (Ids \ {m})
            /\ before \in [upTo(m - 1) -> Salts]
        BY <2>4, <3>1
      <4>2. \A others \in SUBSET (Ids \ {m}) : \A salt \in [others -> Salts] :
              \E k \in Salts : \A s \in others : RawId[seed][m][k] # RawId[seed][s][salt[s]]
        BY <4>1, SaltsSuffice, Zenon
      <4>3. \A salt \in [upTo(m - 1) -> Salts] :
              \E k \in Salts : \A s \in upTo(m - 1) : RawId[seed][m][k] # RawId[seed][s][salt[s]]
        BY <4>1, <4>2, Zenon
      <4>4. QED
        BY <4>1, <4>3, Zenon
    <3>3. free \in SUBSET Nat /\ free # {}
      <4>1. Salts \subseteq Nat
        BY BlindAssumption DEF Salts
      <4>2. QED
        BY <3>2, <4>1
    <3>4. PICK k \in free : \A l \in free : k <= l
      BY <3>3, LeastNumber
    <3>4a. RawId[seed][m][k] \notin used
      BY <3>4
    <3>4b. \A l \in Salts : l < k => RawId[seed][m][l] \in used
      <4>1. \A l \in Salts : l \in Nat /\ (l \notin free => RawId[seed][m][l] \in used)
        BY BlindAssumption DEF Salts
      <4>2. k \in Nat
        BY <3>3, <3>4
      <4> HIDE DEF used, free
      <4>3. ASSUME NEW l \in Salts, l < k PROVE l \notin free
        <5>1. l \in Nat /\ ~(k <= l)
          BY <4>1, <4>2, <4>3
        <5>2. QED
          BY <3>4, <5>1
      <4>4. QED
        BY <4>1, <4>3
    <3> DEFINE salt == [r \in upTo(m) |-> IF r = m THEN k ELSE before[r]]
    <3>5. salt \in [upTo(m) -> Salts]
      <4>1. k \in Salts
        BY <3>4
      <4>2. QED
        BY <2>4, <2>9, <4>1
    <3>6. \A r \in upTo(m) : r # m => r \in upTo(m - 1) /\ salt[r] = before[r]
      BY <2>3, <2>9, <2>10
    <3>7. \A r \in upTo(m) : {t \in upTo(m) : t < r} = {t \in upTo(m - 1) : t < r}
      BY <2>3, <2>9, <2>10
    <3>8. {t \in upTo(m - 1) : t < m} = upTo(m - 1)
      BY <2>3, <2>9, <2>10
    <3>9. \A t \in upTo(m - 1) : salt[t] = before[t] /\ t \in upTo(m)
      BY <2>3, <2>9, <2>10
    <3>10. salt[m] = k /\ m \in upTo(m)
      BY <1>0, <1>7, <2>3, <2>6
    <3> HIDE DEF salt
    <3>11. ASSUME NEW r \in upTo(m)
           PROVE  LET taken == {RawId[seed][s][salt[s]] : s \in {t \in upTo(m) : t < r}}
                  IN  /\ RawId[seed][r][salt[r]] \notin taken
                      /\ \A l \in Salts : l < salt[r] => RawId[seed][r][l] \in taken
      <4> DEFINE taken == {RawId[seed][s][salt[s]] : s \in {t \in upTo(m) : t < r}}
                 old == {RawId[seed][s][before[s]] : s \in {t \in upTo(m - 1) : t < r}}
      <4> SUFFICES /\ RawId[seed][r][salt[r]] \notin taken
                   /\ \A l \in Salts : l < salt[r] => RawId[seed][r][l] \in taken
        OBVIOUS
      <4>1. taken = old
        <5> DEFINE before_r == {t \in upTo(m - 1) : t < r}
        <5>1. {t \in upTo(m) : t < r} = before_r
          BY <3>7
        <5>2. \A s \in before_r : salt[s] = before[s]
          BY <3>9
        <5> HIDE DEF before_r
        <5>3. {RawId[seed][s][salt[s]] : s \in before_r}
                = {RawId[seed][s][before[s]] : s \in before_r}
          BY <5>2
        <5>4. taken = {RawId[seed][s][salt[s]] : s \in before_r}
          BY <5>1
        <5>5. QED
          BY <5>3, <5>4 DEF before_r
      <4>2. CASE r = m
        <5>1. old = used
          BY <3>8, <4>2
        <5> HIDE DEF used, taken, old
        <5>2. taken = used /\ salt[r] = k /\ r = m
          BY <3>10, <4>1, <4>2, <5>1
        <5>3. QED
          BY <3>4a, <3>4b, <5>2
      <4>3. CASE r # m
        <5>1. r \in upTo(m - 1) /\ salt[r] = before[r]
          BY <3>6, <4>3
        <5>2. /\ RawId[seed][r][before[r]] \notin old
              /\ \A l \in Salts : l < before[r] => RawId[seed][r][l] \in old
          BY <2>4, <5>1 DEF Salted
        <5> HIDE DEF taken, old
        <5>3. QED
          BY <4>1, <5>1, <5>2
      <4>4. QED
        BY <4>2, <4>3
    <3>12. Salted(upTo(m), seed, salt)
      BY <3>11 DEF Salted
    <3>13. QED
      BY <2>8, <3>5, <3>12 DEF can
  <2>7. QED
    BY <2>5, <2>6
<1>4. can(n)
  BY <1>1, <1>3
<1>5. \E salt \in [upTo(n) -> Salts] : Salted(upTo(n), seed, salt)
  BY <1>4 DEF can
<1>6. QED
  BY <1>2, <1>5

-----------------------------------------------------------------------------
(* What salts there are, the ids are made with: each record's is its own,  *)
(* and the first of its ids that no earlier record has.                    *)
LEMMA IdsAssigned ==
  ASSUME NEW seed \in Seeds, NEW records \in SUBSET Ids
  PROVE  \E salt \in [records -> Salts] :
           /\ Salted(records, seed, salt)
           /\ AssignBlindIds(records, seed) = [r \in records |-> RawId[seed][r][salt[r]]]
<1> DEFINE salt == CHOOSE f \in [records -> Salts] : Salted(records, seed, f)
<1>1. salt \in [records -> Salts] /\ Salted(records, seed, salt)
  BY SaltsExist, Zenon
<1>2. AssignBlindIds(records, seed) = [r \in records |-> RawId[seed][r][salt[r]]]
  BY Zenon DEF AssignBlindIds
<1>3. QED
  BY <1>1, <1>2, Zenon

(* The ids of one selection are distinct, whatever collides.               *)
LEMMA IdsDistinct ==
  ASSUME NEW seed \in Seeds, NEW records \in SUBSET Ids
  PROVE  /\ \A r \in records : AssignBlindIds(records, seed)[r] \in BlindIds(seed, r)
         /\ \A r, s \in records :
              AssignBlindIds(records, seed)[r] = AssignBlindIds(records, seed)[s] => r = s
<1> DEFINE ids == AssignBlindIds(records, seed)
<1>1. PICK salt \in [records -> Salts] :
        Salted(records, seed, salt) /\ ids = [r \in records |-> RawId[seed][r][salt[r]]]
  BY IdsAssigned
<1> HIDE DEF ids
<1>2. \A r \in records : ids[r] = RawId[seed][r][salt[r]] /\ salt[r] \in Salts /\ r \in Nat
  <2>1. \A r \in records : r \in Nat
    BY BlindAssumption DEF Ids
  <2>2. QED
    BY <1>1, <2>1
<1>3. \A r, s \in records : s < r => ids[r] # ids[s]
  <2> SUFFICES ASSUME NEW r \in records, NEW s \in records, s < r PROVE ids[r] # ids[s]
    OBVIOUS
  <2>1. RawId[seed][r][salt[r]] \notin {RawId[seed][q][salt[q]] : q \in {t \in records : t < r}}
    BY <1>1 DEF Salted
  <2>2. QED
    BY <1>2, <2>1
<1>4. \A r, s \in records : r # s => s < r \/ r < s
  BY <1>2
<1>5. \A r, s \in records : ids[r] = ids[s] => r = s
  BY <1>3, <1>4
<1>6. \A r \in records : ids[r] \in BlindIds(seed, r)
  BY <1>2 DEF BlindIds
<1>7. QED
  BY <1>5, <1>6 DEF ids

(* A selection is made of the records there are.                           *)
LEMMA SelectionOfRecords ==
  ASSUME NEW config \in Configs, NEW records, NEW selected \in SelectRecords(config, records)
  PROVE  selected \subseteq records
<1>1. config.mode \in {"all", "explicit", "stratified", "random"}
  BY BlindAssumption
<1>2. CASE config.mode = "all"
  BY <1>2 DEF SelectRecords
<1>3. CASE config.mode = "explicit"
  BY <1>3 DEF SelectRecords
<1>4. CASE config.mode = "stratified"
  <2>1. \A g : StratifiedPick(g, config.count) \subseteq g
    BY DEF StratifiedPick
  <2>2. \A g \in Groups(records) : g \subseteq records
    BY DEF Groups, GroupOf
  <2>3. UNION {StratifiedPick(g, config.count) : g \in Groups(records)} \subseteq records
    BY <2>1, <2>2
  <2>4. selected = UNION {StratifiedPick(g, config.count) : g \in Groups(records)}
    BY <1>4 DEF SelectRecords
  <2>5. QED
    BY <2>3, <2>4
<1>5. CASE config.mode = "random"
  BY <1>5 DEF SelectRecords
<1>6. QED
  BY <1>1, <1>2, <1>3, <1>4, <1>5

LEMMA SelectionsOfIds ==
  ASSUME NEW config \in Configs, NEW selected \in Selections(config)
  PROVE  selected \in SUBSET Ids
<1>1. PICK came \in SUBSET Late :
        selected \in SelectRecords(config, FilterRecords(config, (Ids \ Late) \cup came))
  BY DEF Selections
<1>2. selected \subseteq FilterRecords(config, (Ids \ Late) \cup came)
  BY <1>1, SelectionOfRecords
<1>3. FilterRecords(config, (Ids \ Late) \cup came) \subseteq Ids
  BY BlindAssumption DEF FilterRecords
<1>4. QED
  BY <1>2, <1>3

(* Where colliding records are selected together, a record has the same id *)
(* in every selection that is made with a seed: the records whose ids it   *)
(* could take are the same, and they have taken the same.                  *)
LEMMA SameIdEverywhere ==
  ASSUME CollidingTogether, NEW c \in Configs, NEW d \in Configs, c.seed = d.seed,
         NEW S \in Selections(c), NEW T \in Selections(d), NEW r \in S \cap T
  PROVE  AssignBlindIds(S, c.seed)[r] = AssignBlindIds(T, c.seed)[r]
<1> DEFINE seed == c.seed
           idsS == AssignBlindIds(S, seed)
           idsT == AssignBlindIds(T, seed)
           differ == {q \in S \cap T : idsS[q] # idsT[q]}
<1>1. seed \in Seeds /\ S \in SUBSET Ids /\ T \in SUBSET Ids
  BY BlindAssumption, SelectionsOfIds
<1>2. Ids \subseteq Nat /\ Salts \subseteq Nat
  BY BlindAssumption DEF Ids, Salts
<1>3. PICK saltS \in [S -> Salts] :
        Salted(S, seed, saltS) /\ idsS = [q \in S |-> RawId[seed][q][saltS[q]]]
  BY <1>1, IdsAssigned
<1>4. PICK saltT \in [T -> Salts] :
        Salted(T, seed, saltT) /\ idsT = [q \in T |-> RawId[seed][q][saltT[q]]]
  BY <1>1, IdsAssigned
<1> HIDE DEF idsS, idsT
<1>5. ASSUME NEW q \in Ids, NEW s \in Ids, s # q, BlindIds(seed, q) \cap BlindIds(seed, s) # {}
      PROVE  (q \in S => s \in S) /\ (q \in T => s \in T)
  <2>1. \A config \in Configs : config.seed = seed =>
          \A selected \in Selections(config) : q \in selected <=> s \in selected
    BY <1>1, <1>5 DEF CollidingTogether
  <2>2. QED
    BY <2>1
<1> HIDE DEF seed
<1>6. ASSUME differ # {} PROVE FALSE
  <2>1. differ \in SUBSET Nat
    BY <1>1, <1>2
  <2>2. PICK q \in differ : \A s \in differ : q <= s
    BY <1>6, <2>1, LeastNumber
  <2>3. q \in S /\ q \in T /\ q \in Ids /\ q \in Nat /\ idsS[q] # idsT[q]
    BY <1>1, <1>2, <2>2
  <2>4. \A s \in S \cap T : s < q => idsS[s] = idsT[s]
    <3>1. \A s \in S \cap T : s \in Nat
      BY <1>1, <1>2
    <3>2. QED
      BY <2>2, <2>3, <3>1
  <2> DEFINE usedS == {RawId[seed][s][saltS[s]] : s \in {t \in S : t < q}}
             usedT == {RawId[seed][s][saltT[s]] : s \in {t \in T : t < q}}
  <2>5. ASSUME NEW k \in Salts PROVE RawId[seed][q][k] \in usedS <=> RawId[seed][q][k] \in usedT
    <3>1. ASSUME RawId[seed][q][k] \in usedS PROVE RawId[seed][q][k] \in usedT
      <4>1. PICK s \in S : s < q /\ RawId[seed][q][k] = RawId[seed][s][saltS[s]]
        BY <3>1
      <4>2. s \in Ids /\ s # q /\ saltS[s] \in Salts
        BY <1>1, <1>2, <2>3, <4>1
      <4>3. RawId[seed][q][k] \in BlindIds(seed, q) \cap BlindIds(seed, s)
        BY <4>1, <4>2 DEF BlindIds
      <4>4. s \in T
        BY <1>5, <2>3, <4>2, <4>3
      <4>5. RawId[seed][s][saltS[s]] = RawId[seed][s][saltT[s]]
        BY <1>3, <1>4, <2>4, <4>1, <4>4
      <4>6. QED
        BY <4>1, <4>4, <4>5
    <3>2. ASSUME RawId[seed][q][k] \in usedT PROVE RawId[seed][q][k] \in usedS
      <4>1. PICK s \in T : s < q /\ RawId[seed][q][k] = RawId[seed][s][saltT[s]]
        BY <3>2
      <4>2. s \in Ids /\ s # q /\ saltT[s] \in Salts
        BY <1>1, <1>2, <2>3, <4>1
      <4>3. RawId[seed][q][k] \in BlindIds(seed, q) \cap BlindIds(seed, s)
        BY <4>1, <4>2 DEF BlindIds
      <4>4. s \in S
        BY <1>5, <2>3, <4>2, <4>3
      <4>5. RawId[seed][s][saltS[s]] = RawId[seed][s][saltT[s]]
        BY <1>3, <1>4, <2>4, <4>1, <4>4
      <4>6. QED
        BY <4>1, <4>4, <4>5
    <3>3. QED
      BY <3>1, <3>2
  <2>6. /\ RawId[seed][q][saltS[q]] \notin usedS
        /\ \A k \in Salts : k < saltS[q] => RawId[seed][q][k] \in usedS
    BY <1>3, <2>3 DEF Salted
  <2>7. /\ RawId[seed][q][saltT[q]] \notin usedT
        /\ \A k \in Salts : k < saltT[q] => RawId[seed][q][k] \in usedT
    BY <1>4, <2>3 DEF Salted
  <2>8. saltS[q] \in Salts /\ saltT[q] \in Salts /\ saltS[q] \in Nat /\ saltT[q] \in Nat
    BY <1>2, <1>3, <1>4, <2>3
  <2> HIDE DEF usedS, usedT
  <2>9. ~(saltS[q] < saltT[q]) /\ ~(saltT[q] < saltS[q])
    BY <2>5, <2>6, <2>7, <2>8
  <2>10. saltS[q] = saltT[q]
    BY <2>8, <2>9
  <2>11. QED
    BY <1>3, <1>4, <2>3, <2>10
<1>7. QED
  BY <1>6 DEF idsS, idsT, seed

(* Then no id is ever given to two records.                                *)
LEMMA GivenOnce ==
  ASSUME CollidingTogether, NEW g \in Given, NEW h \in Given, g.blindId = h.blindId
  PROVE  g.record = h.record
<1>1. \A x \in Given : \E e \in Configs : \E R \in Selections(e) :
        x.record \in R /\ x.blindId = AssignBlindIds(R, e.seed)[x.record]
  BY DEF Given
<1>2. PICK c \in Configs : \E R \in Selections(c) :
        g.record \in R /\ g.blindId = AssignBlindIds(R, c.seed)[g.record]
  BY <1>1
<1>3. PICK S \in Selections(c) : g.record \in S /\ g.blindId = AssignBlindIds(S, c.seed)[g.record]
  BY <1>2
<1>4. PICK d \in Configs : \E R \in Selections(d) :
        h.record \in R /\ h.blindId = AssignBlindIds(R, d.seed)[h.record]
  BY <1>1
<1>5. PICK T \in Selections(d) : h.record \in T /\ h.blindId = AssignBlindIds(T, d.seed)[h.record]
  BY <1>4
<1>6. c.seed \in Seeds /\ d.seed \in Seeds /\ S \in SUBSET Ids /\ T \in SUBSET Ids
  BY BlindAssumption, SelectionsOfIds
<1>7. g.blindId \in BlindIds(c.seed, g.record) /\ h.blindId \in BlindIds(d.seed, h.record)
  BY <1>3, <1>5, <1>6, IdsDistinct
<1>8. ASSUME g.record # h.record PROVE FALSE
  <2>1. g.record \in Ids /\ h.record \in Ids
    BY <1>3, <1>5, <1>6
  <2>2. /\ c.seed = d.seed
        /\ \A config \in Configs : config.seed = c.seed =>
             \A selected \in Selections(config) : g.record \in selected <=> h.record \in selected
    BY <1>6, <1>7, <1>8, <2>1 DEF CollidingTogether
  <2>3. h.record \in S
    BY <1>3, <2>2
  <2>4. AssignBlindIds(S, c.seed)[h.record] = AssignBlindIds(T, d.seed)[h.record]
    BY <1>5, <2>2, <2>3, SameIdEverywhere
  <2>5. AssignBlindIds(S, c.seed)[g.record] = AssignBlindIds(S, c.seed)[h.record]
    BY <1>3, <1>5, <2>4
  <2>6. QED
    BY <1>3, <1>6, <1>8, <2>3, <2>5, IdsDistinct
<1>9. QED
  BY <1>8

-----------------------------------------------------------------------------
(* Reviews.                                                                *)

(* The elements of a list at some positions are just these, each once.     *)
LEMMA AtPositions ==
  ASSUME NEW S, NEW list \in Seq(S), NEW P \in SUBSET DOMAIN list
  PROVE  /\ At(list, P) \in Seq(S) /\ DOMAIN At(list, P) = 1..Cardinality(P)
         /\ \E at \in Bijection(1..Cardinality(P), P) :
              \A n \in 1..Cardinality(P) : At(list, P)[n] = list[at[n]]
<1> DEFINE upTo(i) == {j \in P : j <= i}
           rank(i) == Cardinality({j \in P : j <= i})
           size == Cardinality(P)
           D == 1..size
           pick(n) == CHOOSE i \in P : rank(i) = n
<1>1. \A i \in P : i \in Nat
  OBVIOUS
<1>2. IsFiniteSet(P) /\ size \in Nat
  <2>1. IsFiniteSet(1..Len(list))
    BY FS_Interval
  <2>2. P \subseteq 1..Len(list)
    OBVIOUS
  <2>3. QED
    BY <2>1, <2>2, FS_Subset, FS_CardinalityType
<1>3. At(list, P) = [n \in D |-> list[pick(n)]]
  BY Zenon DEF At
<1>4. IsFiniteSet(D) /\ Cardinality(D) = size
  <2>1. 1 \in Int /\ size \in Int
    BY <1>2
  <2>2. IsFiniteSet(1..size) /\ Cardinality(1..size) = IF 1 > size THEN 0 ELSE size - 1 + 1
    BY <2>1, FS_Interval
  <2>3. QED
    BY <1>2, <2>2
<1>5. \A i \in P : /\ IsFiniteSet(upTo(i)) /\ upTo(i) \subseteq P /\ i \in upTo(i)
                   /\ rank(i) = Cardinality(upTo(i)) /\ rank(i) \in Nat
  BY <1>1, <1>2, FS_Subset, FS_CardinalityType
<1> HIDE DEF D, size
<1>6. \A i \in P : rank(i) \in D
  <2> SUFFICES ASSUME NEW i \in P PROVE rank(i) \in D
    OBVIOUS
  <2>1. Cardinality(upTo(i)) <= size
    BY <1>2, <1>5, FS_Subset DEF size
  <2>2. Cardinality(upTo(i)) # 0
    BY <1>5, FS_EmptySet
  <2> HIDE DEF upTo, rank
  <2>3. rank(i) <= size /\ rank(i) # 0 /\ rank(i) \in Nat
    BY <1>5, <2>1, <2>2
  <2>4. QED
    BY <1>2, <2>3 DEF D
<1>7. \A i, j \in P : i < j => rank(i) < rank(j)
  <2> SUFFICES ASSUME NEW i \in P, NEW j \in P, i < j PROVE rank(i) < rank(j)
    OBVIOUS
  <2>1. upTo(i) \cup {j} \subseteq upTo(j) /\ j \notin upTo(i)
    BY <1>1
  <2>2. Cardinality(upTo(i) \cup {j}) = Cardinality(upTo(i)) + 1
    BY <1>5, <2>1, FS_AddElement
  <2>3. Cardinality(upTo(i) \cup {j}) <= Cardinality(upTo(j))
    BY <1>5, <2>1, FS_Subset
  <2> HIDE DEF upTo, rank
  <2>4. QED
    BY <1>5, <2>2, <2>3
<1> HIDE DEF upTo, rank
<1>8. \A i, j \in P : rank(i) = rank(j) => i = j
  BY <1>1, <1>5, <1>7
<1>9. \A n \in D : \E i \in P : rank(i) = n
  <2> DEFINE f == [i \in P |-> rank(i)]
  <2>1. f \in Injection(P, D)
    BY <1>6, <1>8 DEF Injection, IsInjective
  <2>2. f \in Surjection(P, D)
    BY <1>2, <1>4, <2>1, FS_Injection DEF size
  <2>3. QED
    BY <2>2 DEF Surjection
<1>10. \A n \in D : pick(n) \in P /\ rank(pick(n)) = n
  BY <1>9
<1>11. \A i \in P : pick(rank(i)) = i
  BY <1>6, <1>8, <1>10
<1> HIDE DEF pick
<1>12. At(list, P) \in Seq(S) /\ DOMAIN At(list, P) = D
  <2>1. \A n \in D : list[pick(n)] \in S
    BY <1>10
  <2>2. QED
    BY <1>2, <1>3, <2>1 DEF D
<1> DEFINE at == [n \in D |-> pick(n)]
<1>13. at \in Bijection(D, P)
  <2>1. at \in Injection(D, P)
    <3>1. \A m, n \in D : pick(m) = pick(n) => m = n
      BY <1>10
    <3>2. QED
      BY <1>10, <3>1 DEF Injection, IsInjective
  <2>2. at \in Surjection(D, P)
    BY <1>6, <1>10, <1>11 DEF Surjection
  <2>3. QED
    BY <2>1, <2>2 DEF Bijection
<1>14. \A n \in D : At(list, P)[n] = list[at[n]]
  BY <1>3
<1>15. QED
  BY <1>12, <1>13, <1>14 DEF D, size

(* An import accepts reviews of the batch, and without an update only one  *)
(* of a key, for which there is none yet.                                  *)
LEMMA ImportAccepts ==
  ASSUME NEW S, NEW batch \in Seq(S), NEW existing, NEW update \in BOOLEAN
  PROVE  /\ ImportHumanReviews(batch, existing, update) \in Seq(S)
         /\ ~update => LET accepted == ImportHumanReviews(batch, existing, update)
                       IN  OnePerKey(accepted) /\ Keys(accepted) \cap Keys(existing) = {}
<1> DEFINE valid == {i \in DOMAIN batch : ValidateHumanReviewRecord(batch[i])}
           seenKey(i) == \/ Key(batch[i]) \in Keys(existing)
                         \/ \E j \in valid : j < i /\ Key(batch[j]) = Key(batch[i])
           P == {i \in valid : update \/ ~seenKey(i)}
           accepted == ImportHumanReviews(batch, existing, update)
           D == 1..Cardinality(P)
<1>1. accepted = At(batch, P)
  BY Zenon DEF ImportHumanReviews
<1>2. P \in SUBSET DOMAIN batch /\ \A i \in P : i \in valid /\ i \in Nat
  OBVIOUS
<1>3. ~update => \A i \in P : ~seenKey(i)
  OBVIOUS
<1> HIDE DEF P, accepted
<1>5. accepted \in Seq(S) /\ DOMAIN accepted = D
  BY <1>1, <1>2, AtPositions
<1>6. PICK at \in Bijection(D, P) : \A n \in D : accepted[n] = batch[at[n]]
  BY <1>1, <1>2, AtPositions
<1>7. (\A n \in D : at[n] \in P) /\ \A m, n \in D : at[m] = at[n] => m = n
  BY <1>6 DEF Bijection, Injection, IsInjective
<1> HIDE DEF D
<1>8. ASSUME ~update, NEW m \in D, NEW n \in D, Key(accepted[m]) = Key(accepted[n]) PROVE m = n
  <2>1. Key(batch[at[m]]) = Key(batch[at[n]])
    BY <1>6, <1>8
  <2>2. ~(at[m] < at[n]) /\ ~(at[n] < at[m])
    BY <1>2, <1>3, <1>7, <1>8, <2>1
  <2>3. at[m] = at[n]
    BY <1>2, <1>7, <2>2
  <2>4. QED
    BY <1>7, <2>3
<1>9. ASSUME ~update, NEW n \in D PROVE Key(accepted[n]) \notin Keys(existing)
  BY <1>3, <1>6, <1>7, <1>9
<1>10. ~update => OnePerKey(accepted)
  BY <1>5, <1>8 DEF OnePerKey
<1>11. ~update => Keys(accepted) \cap Keys(existing) = {}
  <2>1. Keys(accepted) = {Key(accepted[n]) : n \in D}
    BY <1>5 DEF Keys
  <2> HIDE DEF accepted
  <2>2. QED
    BY <1>9, <2>1
<1>12. QED
  BY <1>5, <1>10, <1>11 DEF accepted

(* The keys of two lists, one after the other.                             *)
LEMMA KeysOfBoth ==
  ASSUME NEW S, NEW existing \in Seq(S), NEW incoming \in Seq(S)
  PROVE  Keys(existing \o incoming) = Keys(existing) \cup Keys(incoming)
<1> DEFINE all == existing \o incoming
           n == Len(existing)
<1>1. /\ n \in Nat /\ Len(incoming) \in Nat /\ DOMAIN existing = 1..n
      /\ DOMAIN incoming = 1..Len(incoming) /\ DOMAIN all = 1..(n + Len(incoming))
      /\ \A i \in 1..n : all[i] = existing[i]
      /\ \A i \in 1..Len(incoming) : all[n + i] = incoming[i]
  OBVIOUS
<1> HIDE DEF all, n
<1>2. \A i \in DOMAIN all : \/ i \in DOMAIN existing /\ all[i] = existing[i]
                            \/ i - n \in DOMAIN incoming /\ all[i] = incoming[i - n]
  <2> SUFFICES ASSUME NEW i \in DOMAIN all, i \notin DOMAIN existing
               PROVE  i - n \in DOMAIN incoming /\ all[i] = incoming[i - n]
    BY <1>1
  <2>1. i - n \in 1..Len(incoming) /\ n + (i - n) = i
    BY <1>1
  <2>2. QED
    BY <1>1, <2>1
<1>3. \A i \in DOMAIN existing : i \in DOMAIN all /\ all[i] = existing[i]
  BY <1>1
<1>4. \A i \in DOMAIN incoming : n + i \in DOMAIN all /\ all[n + i] = incoming[i]
  BY <1>1
<1>5. Keys(all) = Keys(existing) \cup Keys(incoming)
  BY <1>2, <1>3, <1>4 DEF Keys
<1>6. QED
  BY <1>5 DEF all

(* Reviews of new keys can be appended.                                    *)
LEMMA AppendSupersedes ==
  ASSUME NEW S, NEW existing \in Seq(S), NEW incoming \in Seq(S),
         OnePerKey(existing), OnePerKey(incoming), Keys(incoming) \cap Keys(existing) = {}
  PROVE  Supersedes(existing \o incoming, existing, incoming)
<1> DEFINE all == existing \o incoming
           n == Len(existing)
<1>1. /\ n \in Nat /\ Len(incoming) \in Nat /\ DOMAIN existing = 1..n
      /\ DOMAIN incoming = 1..Len(incoming) /\ DOMAIN all = 1..(n + Len(incoming))
      /\ \A i \in 1..n : all[i] = existing[i]
      /\ \A i \in 1..Len(incoming) : all[n + i] = incoming[i]
  OBVIOUS
<1>2. Keys(all) = Keys(existing) \cup Keys(incoming)
  BY KeysOfBoth
<1> HIDE DEF all, n
<1>3. \A i \in DOMAIN all : \/ i \in DOMAIN existing /\ all[i] = existing[i]
                            \/ i - n \in DOMAIN incoming /\ all[i] = incoming[i - n] /\ i > n
  <2> SUFFICES ASSUME NEW i \in DOMAIN all, i \notin DOMAIN existing
               PROVE  i - n \in DOMAIN incoming /\ all[i] = incoming[i - n] /\ i > n
    BY <1>1
  <2>1. i - n \in 1..Len(incoming) /\ n + (i - n) = i /\ i > n
    BY <1>1
  <2>2. QED
    BY <1>1, <2>1
<1>4. /\ \A i \in DOMAIN existing : Key(existing[i]) \notin Keys(incoming)
      /\ \A i \in DOMAIN incoming : Key(incoming[i]) \notin Keys(existing)
      /\ \A i \in DOMAIN existing : Key(existing[i]) \in Keys(existing)
      /\ \A i \in DOMAIN incoming : Key(incoming[i]) \in Keys(incoming)
  BY DEF Keys
<1>5. OnePerKey(all)
  <2> SUFFICES ASSUME NEW i \in DOMAIN all, NEW j \in DOMAIN all, Key(all[i]) = Key(all[j])
               PROVE  i = j
    BY DEF OnePerKey
  <2>1. CASE i \in DOMAIN existing /\ all[i] = existing[i]
    <3>1. j \in DOMAIN existing /\ all[j] = existing[j]
      BY <1>3, <1>4, <2>1
    <3>2. QED
      BY <2>1, <3>1 DEF OnePerKey
  <2>2. CASE i - n \in DOMAIN incoming /\ all[i] = incoming[i - n]
    <3>1. j - n \in DOMAIN incoming /\ all[j] = incoming[j - n]
      BY <1>3, <1>4, <2>2
    <3>2. i - n = j - n
      BY <2>2, <3>1 DEF OnePerKey
    <3>3. QED
      BY <1>1, <3>2
  <2>3. QED
    BY <1>3, <2>1, <2>2
<1>6. ASSUME NEW i \in DOMAIN all
      PROVE  \/ all[i] \in ToSet(existing) /\ Key(all[i]) \notin Keys(incoming)
             \/ \E j \in DOMAIN incoming :
                  all[i] = incoming[j] /\ \A k \in DOMAIN incoming : j < k => Key(incoming[k]) # Key(incoming[j])
  <2>1. CASE i \in DOMAIN existing /\ all[i] = existing[i]
    BY <1>4, <2>1 DEF ToSet
  <2>2. CASE i - n \in DOMAIN incoming /\ all[i] = incoming[i - n]
    <3>1. \A k \in DOMAIN incoming : i - n < k => Key(incoming[k]) # Key(incoming[i - n])
      <4>1. \A k \in DOMAIN incoming : i - n < k => k # i - n
        BY <1>1, <2>2
      <4>2. QED
        BY <2>2, <4>1 DEF OnePerKey
    <3>2. QED
      BY <2>2, <3>1
  <2>3. QED
    BY <1>3, <2>1, <2>2
<1>7. Supersedes(all, existing, incoming)
  BY <1>2, <1>5, <1>6 DEF Supersedes
<1>8. QED
  BY <1>7 DEF all

(* A function on the numbers up to n with values in S is a sequence over S. *)
LEMMA FunctionSequence ==
  ASSUME NEW S, NEW n \in Nat, NEW f, f = [k \in 1..n |-> f[k]], \A k \in 1..n : f[k] \in S
  PROVE  f \in Seq(S)
<1>1. f \in [1..n -> S]
  OBVIOUS
<1>2. QED
  BY <1>1

(* A merge has the last review of every key.                               *)
LEMMA MergeSupersedes ==
  ASSUME NEW S, NEW existing \in Seq(S), NEW incoming \in Seq(S)
  PROVE  /\ MergeReviews(existing, incoming) \in Seq(S)
         /\ Supersedes(MergeReviews(existing, incoming), existing, incoming)
<1> DEFINE all == existing \o incoming
           n == Len(existing)
           N == n + Len(incoming)
           first == {i \in DOMAIN all : \A j \in DOMAIN all : j < i => Key(all[j]) # Key(all[i])}
           same(r) == {i \in DOMAIN all : Key(all[i]) = Key(r)}
           last(r) == all[Max({i \in DOMAIN all : Key(all[i]) = Key(r)})]
           merged == MergeReviews(existing, incoming)
           D == 1..Cardinality(first)
<1>1. /\ n \in Nat /\ Len(incoming) \in Nat /\ DOMAIN existing = 1..n /\ N \in Nat
      /\ DOMAIN incoming = 1..Len(incoming) /\ DOMAIN all = 1..N
      /\ \A i \in 1..n : all[i] = existing[i]
      /\ \A i \in 1..Len(incoming) : all[n + i] = incoming[i]
      /\ all \in Seq(S)
  OBVIOUS
<1>2. Keys(all) = Keys(existing) \cup Keys(incoming)
  BY KeysOfBoth
<1>3. merged = [k \in DOMAIN At(all, first) |-> last(At(all, first)[k])]
  BY Zenon DEF MergeReviews
<1>4. first \in SUBSET DOMAIN all
  OBVIOUS
<1>5. \A i \in first, j \in DOMAIN all : j < i => Key(all[j]) # Key(all[i])
  OBVIOUS
<1>6. \A i \in DOMAIN all : i \notin first => \E j \in DOMAIN all : j < i /\ Key(all[j]) = Key(all[i])
  OBVIOUS
<1>7. N \in Nat /\ N = n + Len(incoming)
  BY <1>1
<1> HIDE DEF all, n, N, first, merged
<1>8. DOMAIN At(all, first) = D
  BY <1>1, <1>4, AtPositions
<1>9. PICK at \in Bijection(D, first) : \A k \in D : At(all, first)[k] = all[at[k]]
  <2>1. all \in Seq(S) /\ first \in SUBSET DOMAIN all
    BY <1>1, <1>4
  <2>2. QED
    BY <2>1, AtPositions, Zenon
<1>10. /\ \A k \in D : at[k] \in first /\ at[k] \in DOMAIN all
       /\ \A k, l \in D : at[k] = at[l] => k = l
       /\ \A i \in first : \E k \in D : at[k] = i
  BY <1>4, <1>9 DEF Bijection, Injection, IsInjective, Surjection
<1> HIDE DEF D
<1>11. \A k \in D : merged[k] = last(all[at[k]])
  BY <1>3, <1>8, <1>9
<1>12. \A i \in DOMAIN all : Max(same(all[i])) \in same(all[i]) /\ \A j \in same(all[i]) : j <= Max(same(all[i]))
  <2> SUFFICES ASSUME NEW i \in DOMAIN all
               PROVE  Max(same(all[i])) \in same(all[i]) /\ \A j \in same(all[i]) : j <= Max(same(all[i]))
    OBVIOUS
  <2>1. same(all[i]) \in SUBSET (1..N) /\ same(all[i]) # {}
    <3>1. i \in same(all[i]) /\ same(all[i]) \subseteq DOMAIN all
      OBVIOUS
    <3> HIDE DEF same
    <3>2. QED
      BY <1>1, <3>1
  <2> HIDE DEF same
  <2>2. QED
    BY <1>7, <2>1, LastPosition
<1>13. ASSUME NEW k \in D
       PROVE  \E l \in DOMAIN all : /\ merged[k] = all[l] /\ Key(all[l]) = Key(all[at[k]])
                                    /\ \A j \in DOMAIN all : l < j => Key(all[j]) # Key(all[l])
  <2> DEFINE l == Max(same(all[at[k]]))
  <2>1. l \in same(all[at[k]]) /\ \A j \in same(all[at[k]]) : j <= l
    BY <1>10, <1>12
  <2>2. merged[k] = all[l]
    BY <1>11
  <2> HIDE DEF l
  <2>3. l \in DOMAIN all /\ Key(all[l]) = Key(all[at[k]])
    BY <2>1
  <2>4. \A j \in DOMAIN all : l < j => Key(all[j]) # Key(all[l])
    <3>1. \A j \in DOMAIN all : l < j => ~(j <= l)
      BY <1>1, <2>3
    <3>2. QED
      BY <2>1, <2>3, <3>1
  <2>5. QED
    BY <2>2, <2>3, <2>4
<1> HIDE DEF same, last
<1>14. merged \in Seq(S) /\ DOMAIN merged = D
  <2>1. DOMAIN merged = D /\ \A k \in D : merged[k] \in S
    <3>1. \A l \in DOMAIN all : all[l] \in S
      BY <1>1
    <3>2. QED
      BY <1>3, <1>8, <1>13, <3>1
  <2>2. Cardinality(first) \in Nat
    <3>1. IsFiniteSet(1..N)
      BY <1>7, FS_Interval
    <3>2. QED
      BY <1>1, <1>4, <3>1, FS_Subset, FS_CardinalityType
  <2>3. merged = [k \in D |-> merged[k]]
    BY <1>3, <1>8
  <2>4. merged \in Seq(S)
    <3> DEFINE m == Cardinality(first)
    <3>1. m \in Nat /\ D = 1..m
      BY <2>2 DEF D
    <3> HIDE DEF m
    <3>2. merged = [k \in 1..m |-> merged[k]] /\ \A k \in 1..m : merged[k] \in S
      BY <2>1, <2>3, <3>1
    <3>3. QED
      BY <3>1, <3>2, FunctionSequence
  <2>5. QED
    BY <2>1, <2>4
<1>15. OnePerKey(merged)
  <2> SUFFICES ASSUME NEW k \in D, NEW l \in D, Key(merged[k]) = Key(merged[l]) PROVE k = l
    BY <1>14 DEF OnePerKey
  <2>1. Key(all[at[k]]) = Key(all[at[l]])
    <3>1. Key(merged[k]) = Key(all[at[k]]) /\ Key(merged[l]) = Key(all[at[l]])
      BY <1>13
    <3>2. QED
      BY <3>1
  <2>2. ~(at[k] < at[l]) /\ ~(at[l] < at[k])
    BY <1>5, <1>10, <2>1
  <2>3. at[k] = at[l]
    BY <1>1, <1>10, <2>2
  <2>4. QED
    BY <1>10, <2>3
<1>16. Keys(merged) = Keys(all)
  <2>1. ASSUME NEW k \in D PROVE Key(merged[k]) \in Keys(all)
    BY <1>13 DEF Keys
  <2>2. ASSUME NEW i \in DOMAIN all PROVE \E k \in D : Key(merged[k]) = Key(all[i])
    <3> DEFINE equal == {j \in DOMAIN all : Key(all[j]) = Key(all[i])}
    <3>1. equal \in SUBSET Nat /\ equal # {}
      BY <1>1
    <3>2. PICK j \in equal : \A h \in equal : j <= h
      BY <3>1, LeastNumber
    <3>3. j \in first
      <4>1. \A h \in DOMAIN all : h < j => ~(j <= h)
        BY <1>1, <3>2
      <4>2. QED
        BY <1>6, <3>2, <4>1
    <3>4. PICK k \in D : at[k] = j
      BY <1>10, <3>3
    <3>5. Key(merged[k]) = Key(all[j])
      BY <1>13, <3>4
    <3>6. QED
      BY <3>2, <3>5
  <2>3. Keys(merged) = {Key(merged[k]) : k \in D}
    BY <1>14 DEF Keys
  <2>4. Keys(all) = {Key(all[i]) : i \in DOMAIN all}
    BY DEF Keys
  <2>5. QED
    BY <2>1, <2>2, <2>3, <2>4
<1>17. ASSUME NEW k \in D
       PROVE  \/ merged[k] \in ToSet(existing) /\ Key(merged[k]) \notin Keys(incoming)
              \/ \E j \in DOMAIN incoming :
                   merged[k] = incoming[j] /\ \A h \in DOMAIN incoming : j < h => Key(incoming[h]) # Key(incoming[j])
  <2>1. PICK l \in DOMAIN all : /\ merged[k] = all[l]
                                /\ \A j \in DOMAIN all : l < j => Key(all[j]) # Key(all[l])
    BY <1>13
  <2>2. \A h \in DOMAIN incoming : n + h \in DOMAIN all /\ all[n + h] = incoming[h]
    BY <1>1, <1>7
  <2>3. CASE l <= n
    <3>1. l \in DOMAIN existing /\ all[l] = existing[l]
      BY <1>1, <2>3
    <3>2. \A h \in DOMAIN incoming : Key(incoming[h]) # Key(all[l])
      <4>1. \A h \in DOMAIN incoming : l < n + h
        BY <1>1, <2>3
      <4>2. QED
        BY <2>1, <2>2, <4>1
    <3>3. QED
      BY <2>1, <3>1, <3>2 DEF ToSet, Keys
  <2>4. CASE ~(l <= n)
    <3>1. l - n \in DOMAIN incoming /\ n + (l - n) = l
      BY <1>1, <1>7, <2>4
    <3>2. all[l] = incoming[l - n]
      BY <2>2, <3>1
    <3>3. \A h \in DOMAIN incoming : l - n < h => Key(incoming[h]) # Key(all[l])
      <4>1. \A h \in DOMAIN incoming : l - n < h => l < n + h
        BY <1>1
      <4>2. QED
        BY <2>1, <2>2, <4>1
    <3>4. QED
      BY <2>1, <3>1, <3>2, <3>3
  <2>5. QED
    BY <2>3, <2>4
<1>18. Supersedes(merged, existing, incoming)
  BY <1>2, <1>14, <1>15, <1>16, <1>17 DEF Supersedes
<1>19. QED
  BY <1>14, <1>18 DEF merged

-----------------------------------------------------------------------------
(* The steps.                                                              *)

(* The pairs that `blind create` makes are those of one draw.              *)
LEMMA PairsOfOneDraw == ASSUME NEW drawn PROVE OneDraw(BuildPairwise(drawn))
<1>1. \A p \in drawn.pairs : Match(p, drawn).drawn = drawn
  BY DEF Match
<1>2. \A m \in BuildPairwise(drawn) : m.drawn = drawn
  BY <1>1 DEF BuildPairwise
<1>3. QED
  BY <1>2 DEF OneDraw

(* What `blind create` makes of its selection fits together.               *)
LEMMA PacketMade ==
  ASSUME BlindInv, NEW config \in Configs,
         NEW selected \in SelectRecords(config, FilterRecords(config, present)),
         NEW stamp \in 0..MaxCommands
  PROVE  LET out == GenerateBlindReviewSet(selected, config, stamp)
         IN  /\ out.stamp = stamp /\ out.items \subseteq Item
             /\ OnePerId(out.items) /\ OneDraw(out.matches)
             /\ out.mapped = {Name(item) : item \in out.items}
<1> DEFINE seed == config.seed
           ids == AssignBlindIds(selected, seed)
           kept == {r \in selected : ~ApplyRedaction(r, config.policy).excluded}
           itemOf(r) == [blindId |-> ids[r], record |-> r, stamp |-> stamp,
                         identity |-> ApplyRedaction(r, config.policy).identity]
           drawn == [seed |-> seed, pairs |-> IF config.pairwise THEN Matches(selected) ELSE {}]
           out == GenerateBlindReviewSet(selected, config, stamp)
<1>1. selected \in Selections(config)
  <2> DEFINE came == present \cap Late
  <2>1. came \in SUBSET Late /\ present = (Ids \ Late) \cup came
    BY DEF BlindInv, TypeOK
  <2> HIDE DEF came
  <2>2. QED
    BY <2>1 DEF Selections
<1>2. seed \in Seeds /\ selected \in SUBSET Ids
  BY <1>1, BlindAssumption, SelectionsOfIds
<1>3. \A r \in selected : [blindId |-> ids[r], record |-> r] \in Given
  BY <1>1 DEF Given
<1>4. /\ \A r \in selected : ids[r] \in BlindIds(seed, r)
      /\ \A r, s \in selected : ids[r] = ids[s] => r = s
  BY <1>2, IdsDistinct
<1>5. /\ out.items = {itemOf(r) : r \in kept} /\ out.mapped = MappingEntries(kept, ids)
      /\ out.stamp = stamp /\ out.matches = BuildPairwise(drawn)
  BY DEF GenerateBlindReviewSet
<1> HIDE DEF ids, out, seed, drawn
<1>6. \A r \in kept : itemOf(r) \in Item /\ Name(itemOf(r)) = [blindId |-> ids[r], record |-> r]
  <2> SUFFICES ASSUME NEW r \in kept
               PROVE  itemOf(r) \in Item /\ Name(itemOf(r)) = [blindId |-> ids[r], record |-> r]
    OBVIOUS
  <2>1. r \in selected /\ r \in Ids
    BY <1>2
  <2>2. ApplyRedaction(r, config.policy).identity \in SUBSET {"response", "artifact"}
    <3>1. Records[r].phrases \subseteq {"response", "artifact"}
      BY <2>1, BlindAssumption
    <3>2. ApplyRedaction(r, config.policy).identity \subseteq Records[r].phrases
      BY DEF ApplyRedaction
    <3>3. QED
      BY <3>1, <3>2
  <2>3. ids[r] \in UNION {BlindIds(d, q) : d \in Seeds, q \in Ids}
    BY <1>2, <1>4, <2>1
  <2>4. Name(itemOf(r)) = [blindId |-> ids[r], record |-> r]
    BY DEF Name
  <2>5. QED
    BY <1>3, <2>1, <2>2, <2>3, <2>4 DEF Item
<1>7. OnePerId(out.items)
  BY <1>4, <1>5 DEF OnePerId
<1>8. out.mapped = {Name(item) : item \in out.items}
  <2>1. out.mapped = {[blindId |-> ids[r], record |-> r] : r \in kept}
    BY <1>5 DEF MappingEntries
  <2>2. out.items = {itemOf(r) : r \in kept}
    BY <1>5
  <2>3. \A r \in kept : Name(itemOf(r)) = [blindId |-> ids[r], record |-> r]
    BY <1>6
  <2> HIDE DEF itemOf, kept
  <2>4. QED
    BY <2>1, <2>2, <2>3
<1>9. OneDraw(out.matches)
  BY <1>5, PairsOfOneDraw
<1>10. out.items \subseteq Item
  BY <1>5, <1>6
<1>11. QED
  BY <1>5, <1>7, <1>8, <1>9, <1>10 DEF out

(* Initially nothing is there.                                             *)
LEMMA BlindInitial == Init => BlindInv
<1> SUFFICES ASSUME Init PROVE BlindInv
  OBVIOUS
<1> USE DEF Init
<1>1. TypeOK
  <2>1. present = Ids \ Late /\ Ids \ Late \subseteq Ids
    OBVIOUS
  <2>2. 0 \in 0..MaxCommands /\ 0 \in 0..MaxCrashes /\ 0 \in 0..0
    BY BlindAssumption
  <2>3. reviews \in [kind : {"torn", "ok"}, list : Seq(Submission)]
    OBVIOUS
  <2>4. QED
    BY <2>1, <2>2, <2>3 DEF TypeOK, None, NoJob
<1>2. PacketComplete
  BY DEF PacketComplete
<1>3. PacketOfCommand
  BY DEF PacketOfCommand, Creating, NoJob
<1>4. PairsMapped
  BY DEF PairsMapped, Paired, OneDraw, None, NoJob, Creating
<1>5. ReviewsInOrder
  <2>1. DOMAIN reviews.list = {}
    OBVIOUS
  <2>2. QED
    BY <2>1 DEF ReviewsInOrder, OnePerKey, NoJob
<1>6. QED
  BY <1>1, <1>2, <1>3, <1>4, <1>5 DEF BlindInv

(* Steps that write none of the files of the set.                          *)
LEMMA Counters ==
  ASSUME BlindInv
  PROVE  /\ commands \in Nat /\ crashes \in Nat /\ MaxCommands \in Nat /\ MaxCrashes \in Nat
         /\ set.stamp \in Nat /\ mapping.stamp \in Nat
         /\ commands <= MaxCommands /\ set.stamp <= commands /\ mapping.stamp <= commands
BY BlindAssumption DEF BlindInv, TypeOK

LEMMA QuietInv ==
  ASSUME BlindInv, UNCHANGED <<set, itemFiles, pairs, mapping, reviews, pairReviews, job, seen, crashes>>,
         present \subseteq present', present' \subseteq Ids,
         commands' = commands \/ Command
  PROVE  BlindInv'
<1>1. commands' \in Nat /\ commands <= commands' /\ commands' <= MaxCommands
  BY Counters DEF Command
<1>2. TypeOK'
  <2>1. (commands \in 0..MaxCommands)'
    BY <1>1, Counters
  <2>2. set'.stamp \in 0..commands' /\ mapping'.stamp \in 0..commands'
    BY <1>1, Counters
  <2>3. QED
    BY <2>1, <2>2 DEF BlindInv, TypeOK
<1>3. PacketComplete'
  BY DEF BlindInv, PacketComplete
<1>4. PacketOfCommand'
  <2>1. CASE commands' = commands
    BY <2>1 DEF BlindInv, PacketOfCommand, Creating
  <2>2. CASE Command
    BY <2>2 DEF Command, PacketOfCommand, Creating
  <2>3. QED
    BY <2>1, <2>2
<1>5. PairsMapped'
  BY DEF BlindInv, PairsMapped, Paired, Creating
<1>6. ReviewsInOrder'
  BY DEF BlindInv, ReviewsInOrder
<1>7. QED
  BY <1>2, <1>3, <1>4, <1>5, <1>6 DEF BlindInv

LEMMA RecordArrivesInv == ASSUME BlindInv, RecordArrives PROVE BlindInv'
<1>1. UNCHANGED <<set, itemFiles, pairs, mapping, reviews, pairReviews, job, seen, crashes, commands>>
  BY DEF RecordArrives, public, bounds
<1>2. present \subseteq present' /\ present' \subseteq Ids
  BY BlindAssumption DEF RecordArrives, BlindInv, TypeOK
<1>3. QED
  BY <1>1, <1>2, QuietInv

LEMMA ReportInv == ASSUME BlindInv, RunHumanReviewReport \/ RunHumanReviewUnblind PROVE BlindInv'
<1>1. UNCHANGED <<set, itemFiles, pairs, mapping, reviews, pairReviews, job, seen, crashes, present>> /\ Command
  BY DEF RunHumanReviewReport, RunHumanReviewUnblind, public
<1>2. present \subseteq present' /\ present' \subseteq Ids
  BY <1>1 DEF BlindInv, TypeOK
<1>3. QED
  BY <1>1, <1>2, QuietInv

LEMMA BlindStutter == ASSUME BlindInv, UNCHANGED vars PROVE BlindInv'
<1>1. UNCHANGED <<set, itemFiles, pairs, mapping, reviews, pairReviews, job, seen, crashes, commands, present>>
  BY DEF vars, public, bounds
<1>2. present \subseteq present' /\ present' \subseteq Ids
  BY <1>1 DEF BlindInv, TypeOK
<1>3. QED
  BY <1>1, <1>2, QuietInv

LEMMA CrashInv == ASSUME BlindInv, Crash PROVE BlindInv'
<1>1. /\ UNCHANGED <<set, itemFiles, pairs, mapping, reviews, pairReviews, seen, commands, present>>
      /\ job' = NoJob /\ crashes' = crashes + 1 /\ crashes < MaxCrashes
  BY DEF Crash, public
<1>2. crashes' \in 0..MaxCrashes
  BY <1>1, Counters
<1>3. TypeOK'
  BY <1>1, <1>2 DEF BlindInv, TypeOK, NoJob
<1>4. PacketComplete'
  BY <1>1 DEF BlindInv, PacketComplete
<1>5. PacketOfCommand'
  BY <1>1 DEF PacketOfCommand, Creating, NoJob
<1>6. PairsMapped'
  BY <1>1 DEF BlindInv, PairsMapped, Paired, NoJob, Creating
<1>7. ReviewsInOrder'
  BY <1>1 DEF BlindInv, ReviewsInOrder, NoJob
<1>8. QED
  BY <1>3, <1>4, <1>5, <1>6, <1>7 DEF BlindInv

LEMMA PlacePairReviewInv == ASSUME BlindInv, PlacePairReview PROVE BlindInv'
<1>1. /\ UNCHANGED <<set, itemFiles, pairs, mapping, reviews, job, seen, crashes, present>>
      /\ Command
  BY DEF PlacePairReview, public
<1>2. PICK m \in pairs.matches, choice \in Preferences :
        pairReviews' = pairReviews \cup {[match |-> m, choice |-> choice]}
  BY DEF PlacePairReview
<1>3. Paired' = Paired
  <2>1. m \in Paired /\ m = [match |-> m, choice |-> choice].match
    BY DEF Paired
  <2>2. Paired' \subseteq Paired
    BY <1>1, <1>2 DEF Paired
  <2>3. Paired \subseteq Paired'
    BY <1>1, <1>2 DEF Paired
  <2>4. QED
    BY <2>2, <2>3
<1>4. job.stage = "none" /\ commands' = commands + 1 /\ commands < MaxCommands
  BY <1>1 DEF Command
<1>5. TypeOK'
  <2>1. commands' \in 0..MaxCommands /\ set.stamp \in 0..commands' /\ mapping.stamp \in 0..commands'
    BY <1>4, Counters
  <2>2. \A v \in pairReviews' : v.choice \in Preferences
    BY <1>2 DEF BlindInv, TypeOK
  <2>3. QED
    BY <1>1, <2>1, <2>2 DEF BlindInv, TypeOK
<1>6. PacketComplete'
  BY <1>1 DEF BlindInv, PacketComplete
<1>7. PacketOfCommand'
  BY <1>1, <1>4 DEF PacketOfCommand, Creating
<1>8. PairsMapped'
  BY <1>1, <1>3, <1>4 DEF BlindInv, PairsMapped, Creating
<1>9. ReviewsInOrder'
  BY <1>1 DEF BlindInv, ReviewsInOrder
<1>10. QED
  BY <1>5, <1>6, <1>7, <1>8, <1>9 DEF BlindInv

(* `blind create` opens the set: what is on disk is older.                 *)
LEMMA RunBlindCreateInv == ASSUME BlindInv, RunBlindCreate PROVE BlindInv'
<1>1. /\ UNCHANGED <<present, itemFiles, pairs, mapping, reviews, pairReviews, seen, crashes>>
      /\ set' = Torn /\ job.stage = "none" /\ commands' = commands + 1 /\ commands < MaxCommands
  BY DEF RunBlindCreate, Command
<1>2. commands' \in 0..MaxCommands
  BY <1>1, Counters
<1>3. PICK config \in Configs : \E selected \in SelectRecords(config, FilterRecords(config, present)) :
        LET out == GenerateBlindReviewSet(selected, config, commands')
        IN  job' = [stage |-> "set", out |-> out, todo |-> out.items]
  BY DEF RunBlindCreate
<1>4. PICK selected \in SelectRecords(config, FilterRecords(config, present)) :
        LET out == GenerateBlindReviewSet(selected, config, commands')
        IN  job' = [stage |-> "set", out |-> out, todo |-> out.items]
  BY <1>3
<1> DEFINE out == GenerateBlindReviewSet(selected, config, commands')
<1>5. out.stamp = commands' /\ out.items \subseteq Item
  BY <1>2, PacketMade
<1>6. OnePerId(out.items) /\ OneDraw(out.matches)
  BY <1>2, PacketMade
<1>7. out.mapped = {Name(item) : item \in out.items}
  BY <1>2, PacketMade
<1>8. job' = [stage |-> "set", out |-> out, todo |-> out.items]
  BY <1>4
<1> HIDE DEF out
<1>9. TypeOK'
  <2>1. mapping.stamp \in 0..commands' /\ 0 \in 0..commands'
    BY <1>1, Counters
  <2>2. Torn.kind = "torn" /\ Torn.items = {} /\ Torn.stamp = 0
    BY DEF Torn, None
  <2>3. QED
    BY <1>1, <1>2, <1>8, <2>1, <2>2 DEF BlindInv, TypeOK
<1>10. PairsMapped'
  BY <1>1, <1>6, <1>8 DEF BlindInv, PairsMapped, Paired
<1>11. PacketComplete'
  <2>1. set'.stamp = 0
    BY <1>1 DEF Torn, None
  <2>2. mapping'.kind = "ok" => mapping'.stamp # 0
    BY <1>1, Counters DEF BlindInv, TypeOK
  <2>3. QED
    BY <2>1, <2>2 DEF PacketComplete
<1>12. PacketOfCommand'
  <2>1. mapping.stamp < commands' /\ commands' > 0
    BY <1>1, Counters
  <2>2. QED
    BY <1>1, <1>5, <1>6, <1>7, <1>8, <2>1 DEF PacketOfCommand
<1>13. ReviewsInOrder'
  BY <1>1, <1>8 DEF BlindInv, ReviewsInOrder
<1>14. QED
  BY <1>9, <1>10, <1>11, <1>12, <1>13 DEF BlindInv

(* The set is there; the mapping, if there is one, is older.               *)
LEMMA WriteSetInv == ASSUME BlindInv, WriteSet PROVE BlindInv'
<1>1. /\ UNCHANGED <<present, itemFiles, pairs, mapping, reviews, pairReviews, seen, commands, crashes>>
      /\ job.stage = "set" /\ job' = [job EXCEPT !.stage = "items"]
      /\ set' = [kind |-> "ok", stamp |-> job.out.stamp, items |-> job.out.items, matches |-> {}]
  BY DEF WriteSet, bounds
<1>2. job = [stage |-> "set", out |-> job.out, todo |-> job.todo]
  BY <1>1 DEF BlindInv, TypeOK
<1>3. job' = [stage |-> "items", out |-> job.out, todo |-> job.todo]
  BY <1>1, <1>2
<1>4. /\ job.out.stamp = commands /\ commands > 0
      /\ job.out.items \subseteq Item /\ OnePerId(job.out.items)
      /\ job.out.mapped = {Name(item) : item \in job.out.items}
      /\ job.todo = job.out.items
      /\ mapping.kind = "ok" => mapping.stamp < commands
  BY <1>1 DEF BlindInv, PacketOfCommand, Creating
<1>5. TypeOK'
  <2>1. commands \in 0..commands
    BY Counters
  <2>2. QED
    BY <1>1, <1>3, <1>4, <2>1 DEF BlindInv, TypeOK
<1>6. PacketComplete'
  <2>1. ~(mapping.kind = "ok" /\ mapping.stamp = commands)
    BY <1>4, Counters
  <2>2. QED
    BY <1>1, <1>4, <2>1 DEF PacketComplete
<1>7. PacketOfCommand'
  BY <1>1, <1>3, <1>4 DEF PacketOfCommand
<1>8. PairsMapped'
  BY <1>1, <1>3 DEF BlindInv, PairsMapped, Paired, Creating
<1>9. ReviewsInOrder'
  BY <1>1, <1>3 DEF BlindInv, ReviewsInOrder
<1>10. QED
  BY <1>5, <1>6, <1>7, <1>8, <1>9 DEF BlindInv

(* An item takes the place of a file of its name: never of another item of *)
(* this set.                                                               *)
LEMMA WriteItemInv == ASSUME BlindInv, WriteItem PROVE BlindInv'
<1> DEFINE item == CHOOSE i \in job.todo : TRUE
<1>1. /\ UNCHANGED <<present, set, pairs, mapping, reviews, pairReviews, commands, crashes>>
      /\ job.stage = "items" /\ item \in job.todo
      /\ itemFiles' = {f \in itemFiles : f.blindId # item.blindId} \cup {item}
      /\ seen' = seen \cup {item} /\ job' = [job EXCEPT !.todo = @ \ {item}]
  BY DEF WriteItem, bounds
<1> HIDE DEF item
<1>2. job = [stage |-> "items", out |-> job.out, todo |-> job.todo]
  BY <1>1 DEF BlindInv, TypeOK
<1>3. job' = [stage |-> "items", out |-> job.out, todo |-> job.todo \ {item}]
  BY <1>1, <1>2
<1>4. /\ job.out.stamp = commands /\ commands > 0
      /\ job.out.items \subseteq Item /\ OnePerId(job.out.items)
      /\ job.out.mapped = {Name(i) : i \in job.out.items}
      /\ job.todo \subseteq job.out.items
      /\ mapping.kind = "ok" => mapping.stamp < commands
      /\ set.kind = "ok" /\ set.stamp = commands /\ set.items = job.out.items
      /\ job.out.items \ job.todo \subseteq itemFiles
  BY <1>1 DEF BlindInv, PacketOfCommand, Creating
<1>5. item \in job.out.items /\ item \in Item
  BY <1>1, <1>4
<1>6. TypeOK'
  <2>1. itemFiles' \subseteq Item /\ seen' \subseteq Item
    BY <1>1, <1>5 DEF BlindInv, TypeOK
  <2>2. \A f, g \in itemFiles' : f.blindId = g.blindId => f = g
    BY <1>1 DEF BlindInv, TypeOK
  <2>3. QED
    BY <1>1, <1>3, <2>1, <2>2 DEF BlindInv, TypeOK
<1>7. PacketComplete'
  <2>1. ~(mapping.kind = "ok" /\ mapping.stamp = commands)
    BY <1>4, Counters
  <2>2. QED
    BY <1>1, <1>4, <2>1 DEF PacketComplete
<1>8. job.out.items \ (job.todo \ {item}) \subseteq itemFiles'
  <2>1. \A i \in job.out.items : i.blindId = item.blindId => i = item
    BY <1>4, <1>5 DEF OnePerId
  <2>2. QED
    BY <1>1, <1>4, <2>1
<1>9. PacketOfCommand'
  BY <1>1, <1>3, <1>4, <1>8 DEF PacketOfCommand
<1>10. PairsMapped'
  BY <1>1, <1>3 DEF BlindInv, PairsMapped, Paired, Creating
<1>11. ReviewsInOrder'
  BY <1>1, <1>3 DEF BlindInv, ReviewsInOrder
<1>12. QED
  BY <1>6, <1>7, <1>9, <1>10, <1>11 DEF BlindInv

(* Before the mapping is opened the set and all its items are on disk.     *)
LEMMA ItemsWritten ==
  ASSUME BlindInv, job.stage \in {"items", "pairs", "private"}, job.todo = {}
  PROVE  /\ job = [stage |-> job.stage, out |-> job.out, todo |-> {}]
         /\ job.out.stamp = commands /\ commands > 0
         /\ job.out.items \subseteq Item /\ OnePerId(job.out.items)
         /\ job.out.mapped = {Name(i) : i \in job.out.items}
         /\ mapping.kind = "ok" => mapping.stamp < commands
         /\ set.kind = "ok" /\ set.stamp = commands /\ set.items = job.out.items
         /\ job.out.items \ {} \subseteq itemFiles
<1>1. job = [stage |-> job.stage, out |-> job.out, todo |-> {}]
  BY DEF BlindInv, TypeOK
<1>2. QED
  BY <1>1 DEF BlindInv, PacketOfCommand, Creating

(* The packet of pairs is opened and written beside an older mapping.      *)
LEMMA PairsInv == ASSUME BlindInv, OpenPairs \/ WritePairs PROVE BlindInv'
<1>1. /\ UNCHANGED <<present, set, itemFiles, mapping, reviews, pairReviews, seen, commands, crashes>>
      /\ job.stage \in {"items", "pairs"}
      /\ \E stage \in {"pairs", "private"} : job' = [job EXCEPT !.stage = stage]
      /\ pairs'.matches = {} \/ pairs'.matches = job.out.matches
  BY DEF OpenPairs, WritePairs, bounds, Torn, None
<1>2. PICK stage \in {"pairs", "private"} : job' = [job EXCEPT !.stage = stage]
  BY <1>1
<1>3. job.todo = {}
  BY DEF OpenPairs, WritePairs, BlindInv, PacketOfCommand, Creating
<1>4. job' = [stage |-> stage, out |-> job.out, todo |-> {}]
  <2>1. job = [stage |-> job.stage, out |-> job.out, todo |-> {}]
    BY <1>1, <1>3, ItemsWritten
  <2>2. QED
    BY <1>2, <2>1
<1>5. TypeOK'
  BY <1>1, <1>4 DEF BlindInv, TypeOK
<1>6. PacketComplete'
  BY <1>1 DEF BlindInv, PacketComplete
<1>7. PacketOfCommand'
  BY <1>1, <1>3, <1>4, ItemsWritten DEF PacketOfCommand
<1>8. PairsMapped'
  <2>1. OneDraw(job.out.matches)
    BY <1>1 DEF BlindInv, PairsMapped, Creating
  <2>2. \A m \in Paired' : m \in job.out.matches \/ m \in Paired
    BY <1>1 DEF Paired
  <2>3. \A m \in Paired' : m \in BuildPairwise(m.drawn)
    BY <2>1, <2>2 DEF BlindInv, PairsMapped, OneDraw
  <2> HIDE DEF Paired
  <2>4. QED
    BY <1>1, <1>4, <2>1, <2>3 DEF BlindInv, PairsMapped
<1>9. ReviewsInOrder'
  BY <1>1, <1>4 DEF BlindInv, ReviewsInOrder
<1>10. QED
  BY <1>5, <1>6, <1>7, <1>8, <1>9 DEF BlindInv

(* The older mapping is gone.                                              *)
LEMMA OpenMappingInv == ASSUME BlindInv, OpenMapping PROVE BlindInv'
<1>1. /\ UNCHANGED <<present, set, itemFiles, pairs, reviews, pairReviews, seen, commands, crashes>>
      /\ job.stage \in {"items", "private"} /\ job' = [job EXCEPT !.stage = "mapping"]
      /\ mapping' = [kind |-> "torn", stamp |-> 0, entries |-> {}, matches |-> {}]
  BY DEF OpenMapping, bounds, public
<1>2. job.todo = {}
  BY DEF OpenMapping, BlindInv, PacketOfCommand, Creating
<1>3. job' = [stage |-> "mapping", out |-> job.out, todo |-> {}]
  <2>1. job = [stage |-> job.stage, out |-> job.out, todo |-> {}]
    BY <1>1, <1>2, ItemsWritten
  <2>2. QED
    BY <1>1, <2>1
<1>4. TypeOK'
  <2>1. 0 \in 0..commands
    BY Counters
  <2>2. QED
    BY <1>1, <1>3, <2>1 DEF BlindInv, TypeOK
<1>5. PacketComplete'
  BY <1>1 DEF PacketComplete
<1>6. PacketOfCommand'
  BY <1>1, <1>2, <1>3, ItemsWritten DEF PacketOfCommand
<1>7. PairsMapped'
  <2>1. OneDraw(job.out.matches) /\ OneDraw({})
    BY <1>1 DEF BlindInv, PairsMapped, Creating, OneDraw
  <2>2. QED
    BY <1>1, <1>3, <2>1 DEF BlindInv, PairsMapped, Paired
<1>8. ReviewsInOrder'
  BY <1>1, <1>3 DEF BlindInv, ReviewsInOrder
<1>9. QED
  BY <1>4, <1>5, <1>6, <1>7, <1>8 DEF BlindInv

(* The mapping is there, and with it everything it speaks of.              *)
LEMMA WriteMappingInv == ASSUME BlindInv, WriteMapping PROVE BlindInv'
<1>1. /\ UNCHANGED <<present, set, itemFiles, pairs, reviews, pairReviews, seen, commands, crashes>>
      /\ job.stage = "mapping" /\ job' = NoJob
      /\ mapping' = [kind |-> "ok", stamp |-> job.out.stamp, entries |-> job.out.mapped,
                     matches |-> job.out.matches]
  BY DEF WriteMapping, public, bounds
<1>2. /\ job.out.stamp = commands /\ commands > 0
      /\ job.out.items \subseteq Item
      /\ job.out.mapped = {Name(i) : i \in job.out.items}
      /\ set.stamp = commands /\ set.items = job.out.items
      /\ job.todo = {} /\ job.out.items \ job.todo \subseteq itemFiles
  BY <1>1 DEF BlindInv, PacketOfCommand, Creating
<1>3. TypeOK'
  <2>1. commands \in 0..commands
    BY Counters
  <2>2. job.out.mapped \subseteq Given
    BY <1>2 DEF Item
  <2>3. QED
    BY <1>1, <1>2, <2>1, <2>2 DEF BlindInv, TypeOK, NoJob
<1>4. PacketComplete'
  <2>1. \A item \in job.out.items : [blindId |-> item.blindId, record |-> item.record] \in job.out.mapped
    BY <1>2 DEF Name
  <2>2. job.out.items \subseteq itemFiles
    BY <1>2
  <2>3. QED
    BY <1>1, <1>2, <2>1, <2>2 DEF PacketComplete
<1>5. PacketOfCommand'
  BY <1>1 DEF PacketOfCommand, Creating, NoJob
<1>6. PairsMapped'
  <2>1. OneDraw(job.out.matches)
    BY <1>1 DEF BlindInv, PairsMapped, Creating
  <2>2. QED
    BY <1>1, <2>1 DEF BlindInv, PairsMapped, Paired, NoJob, Creating
<1>7. ReviewsInOrder'
  BY <1>1 DEF BlindInv, ReviewsInOrder, NoJob
<1>8. QED
  BY <1>3, <1>4, <1>5, <1>6, <1>7 DEF BlindInv

(* An import has made of the reviews what it should.                       *)
LEMMA RunHumanReviewImportInv == ASSUME BlindInv, RunHumanReviewImport PROVE BlindInv'
<1>1. /\ UNCHANGED <<present, set, itemFiles, pairs, mapping, pairReviews, seen, crashes>>
      /\ reviews' = [reviews EXCEPT !.kind = "torn"]
      /\ job.stage = "none" /\ commands' = commands + 1 /\ commands < MaxCommands
  BY DEF RunHumanReviewImport, Command, public
<1>2. PICK batch \in Batches, update \in BOOLEAN :
        LET accepted == ImportHumanReviews(batch, reviews.list, update)
            merged == IF update THEN MergeReviews(reviews.list, accepted)
                      ELSE reviews.list \o accepted
        IN  job' = [stage |-> "save", todo |-> {},
                    out |-> [stamp |-> 0, list |-> merged, batch |-> accepted]]
  BY DEF RunHumanReviewImport
<1> DEFINE accepted == ImportHumanReviews(batch, reviews.list, update)
           merged == IF update THEN MergeReviews(reviews.list, accepted)
                     ELSE reviews.list \o accepted
<1>3. job' = [stage |-> "save", todo |-> {},
              out |-> [stamp |-> 0, list |-> merged, batch |-> accepted]]
  BY <1>2
<1>4. batch \in Seq(Submission)
  <2> DEFINE S == {Review(w, item, raw) : w \in Reviewers, item \in seen, raw \in Raws}
  <2>1. S \subseteq Submission
    BY DEF BlindInv, TypeOK, Submission
  <2>2. batch \in UNION {[1..m -> S] : m \in 0..MaxBatch}
    BY DEF Batches, SeqOf
  <2>3. MaxBatch \in Nat
    BY BlindAssumption
  <2> HIDE DEF S
  <2>4. PICK m \in 0..MaxBatch : batch \in [1..m -> S]
    BY <2>2
  <2>5. batch \in [1..m -> Submission] /\ m \in Nat
    BY <2>1, <2>3, <2>4
  <2>6. QED
    BY <2>5
<1>5. reviews = [kind |-> reviews.kind, list |-> reviews.list] /\ reviews.list \in Seq(Submission)
  BY DEF BlindInv, TypeOK
<1>6. reviews' = [kind |-> "torn", list |-> reviews.list]
  BY <1>1, <1>5
<1>7. /\ accepted \in Seq(Submission)
      /\ ~update => OnePerKey(accepted) /\ Keys(accepted) \cap Keys(reviews.list) = {}
  BY <1>4, ImportAccepts
<1>8. OnePerKey(reviews.list)
  BY DEF BlindInv, ReviewsInOrder
<1> HIDE DEF accepted
<1>9. merged \in Seq(Submission) /\ Supersedes(merged, reviews.list, accepted)
  <2>1. CASE update
    BY <1>5, <1>7, <2>1, MergeSupersedes
  <2>2. CASE ~update
    <3>1. reviews.list \o accepted \in Seq(Submission)
      BY <1>5, <1>7
    <3>2. Supersedes(reviews.list \o accepted, reviews.list, accepted)
      BY <1>5, <1>7, <1>8, <2>2, AppendSupersedes
    <3>3. QED
      BY <2>2, <3>1, <3>2
  <2>3. QED
    BY <2>1, <2>2
<1> HIDE DEF merged
<1>10. TypeOK'
  <2>1. commands' \in 0..MaxCommands /\ set.stamp \in 0..commands' /\ mapping.stamp \in 0..commands'
    BY <1>1, Counters
  <2>2. reviews' \in [kind : {"torn", "ok"}, list : Seq(Submission)]
    BY <1>5, <1>6
  <2>3. QED
    BY <1>1, <1>3, <2>1, <2>2 DEF BlindInv, TypeOK
<1>11. PacketComplete'
  BY <1>1 DEF BlindInv, PacketComplete
<1>12. PacketOfCommand'
  BY <1>3 DEF PacketOfCommand, Creating
<1>13. PairsMapped'
  <2>1. ~Creating'
    BY <1>3 DEF Creating
  <2>2. QED
    BY <1>1, <2>1 DEF BlindInv, PairsMapped, Paired
<1>14. ReviewsInOrder'
  BY <1>3, <1>6, <1>8, <1>9 DEF ReviewsInOrder
<1>15. QED
  BY <1>10, <1>11, <1>12, <1>13, <1>14 DEF BlindInv

(* What is saved has one review of each key.                               *)
LEMMA SaveReviewsInv == ASSUME BlindInv, SaveReviews PROVE BlindInv'
<1>1. /\ UNCHANGED <<present, set, itemFiles, pairs, mapping, pairReviews, seen, commands, crashes>>
      /\ reviews' = [kind |-> "ok", list |-> job.out.list]
      /\ job.stage = "save" /\ job' = NoJob
  BY DEF SaveReviews, public, bounds
<1>2. job.out.list \in Seq(Submission) /\ OnePerKey(job.out.list)
  BY <1>1 DEF BlindInv, ReviewsInOrder, Supersedes
<1>3. TypeOK'
  BY <1>1, <1>2 DEF BlindInv, TypeOK, NoJob
<1>4. PacketComplete'
  BY <1>1 DEF BlindInv, PacketComplete
<1>5. PacketOfCommand'
  BY <1>1 DEF PacketOfCommand, Creating, NoJob
<1>6. PairsMapped'
  BY <1>1 DEF BlindInv, PairsMapped, Paired, NoJob, Creating
<1>7. ReviewsInOrder'
  BY <1>1, <1>2 DEF ReviewsInOrder, NoJob
<1>8. QED
  BY <1>3, <1>4, <1>5, <1>6, <1>7 DEF BlindInv

LEMMA BlindStep == BlindInv /\ [Next]_vars => BlindInv'
<1> SUFFICES ASSUME BlindInv, [Next]_vars PROVE BlindInv'
  OBVIOUS
<1>1. CASE RecordArrives
  BY <1>1, RecordArrivesInv
<1>2. CASE RunBlindCreate
  BY <1>2, RunBlindCreateInv
<1>3. CASE WriteSet
  BY <1>3, WriteSetInv
<1>4. CASE WriteItem
  BY <1>4, WriteItemInv
<1>5. CASE OpenPairs \/ WritePairs
  BY <1>5, PairsInv
<1>6. CASE OpenMapping
  BY <1>6, OpenMappingInv
<1>7. CASE WriteMapping
  BY <1>7, WriteMappingInv
<1>8. CASE PlacePairReview
  BY <1>8, PlacePairReviewInv
<1>9. CASE RunHumanReviewImport
  BY <1>9, RunHumanReviewImportInv
<1>10. CASE SaveReviews
  BY <1>10, SaveReviewsInv
<1>11. CASE RunHumanReviewReport \/ RunHumanReviewUnblind
  BY <1>11, ReportInv
<1>12. CASE Crash
  BY <1>12, CrashInv
<1>13. CASE UNCHANGED vars
  BY <1>13, BlindStutter
<1>14. QED
  BY <1>1, <1>2, <1>3, <1>4, <1>5, <1>6, <1>7, <1>8, <1>9, <1>10, <1>11, <1>12, <1>13 DEF Next

-----------------------------------------------------------------------------
(* Every file has its type, what is on disk of the set and its mapping     *)
(* fits, and an import in progress is about to lose nothing.               *)
THEOREM BlindInvariant == Spec => []BlindInv
<1>1. Init => BlindInv
  BY BlindInitial
<1>2. BlindInv /\ [Next]_vars => BlindInv'
  BY BlindStep
<1>3. QED
  BY <1>1, <1>2, PTL DEF Spec

(* A mapping of the set's generation, wherever a command died: every item  *)
(* of the set has its file and its entry.                                  *)
THEOREM PacketsComplete == Spec => []PacketComplete
<1>1. BlindInv => PacketComplete
  BY DEF BlindInv
<1>2. QED
  BY <1>1, BlindInvariant, PTL

(* `unblind` joins every review that was accepted of an item the set has.  *)
THEOREM AcceptedJoined == Spec => []AcceptedAreJoined
<1>1. BlindInv => AcceptedAreJoined
  <2> SUFFICES ASSUME BlindInv, mapping.kind = "ok", mapping.stamp = set.stamp,
                      NEW i \in DOMAIN reviews.list,
                      NEW item \in set.items, item.blindId = reviews.list[i].blindId
               PROVE  \E u \in UnblindReviews(reviews.list) : u.review = reviews.list[i]
    BY DEF AcceptedAreJoined
  <2> DEFINE review == reviews.list[i]
             joined == [review |-> review, record |-> item.record]
  <2>1. [blindId |-> item.blindId, record |-> item.record] \in mapping.entries
    BY DEF BlindInv, PacketComplete
  <2>2. item.record \in Ids
    BY DEF BlindInv, TypeOK, Item
  <2>3. review \in ToSet(reviews.list)
    BY DEF ToSet
  <2>4. joined \in [review : ToSet(reviews.list), record : Ids]
    BY <2>2, <2>3
  <2>5. joined \in UnblindReviews(reviews.list)
    BY <2>1, <2>4 DEF UnblindReviews
  <2>6. QED
    BY <2>5
<1>2. QED
  BY <1>1, BlindInvariant, PTL

(* Where records whose ids may collide are selected together, a review is  *)
(* joined with the record its reviewer read, however often the set has     *)
(* been generated again since.                                             *)
THEOREM AttributedWhenTogether == CollidingTogether => (Spec => []AttributedToShown)
<1>1. ASSUME CollidingTogether PROVE BlindInv => AttributedToShown
  <2> SUFFICES ASSUME BlindInv, mapping.kind = "ok", NEW u \in UnblindReviews(reviews.list)
               PROVE  u.record = u.review.about
    BY DEF AttributedToShown
  <2>1. /\ u.review \in ToSet(reviews.list)
        /\ [blindId |-> u.review.blindId, record |-> u.record] \in mapping.entries
    BY DEF UnblindReviews
  <2>2. u.review \in Submission
    <3>1. reviews.list \in Seq(Submission)
      BY DEF BlindInv, TypeOK
    <3>2. PICK i \in DOMAIN reviews.list : u.review = reviews.list[i]
      BY <2>1 DEF ToSet
    <3>3. QED
      BY <3>1, <3>2
  <2>3. PICK w \in Reviewers, item \in Item, raw \in Raws : u.review = Review(w, item, raw)
    BY <2>2 DEF Submission
  <2>4. u.review.blindId = item.blindId /\ u.review.about = item.record
    BY <2>3 DEF Review
  <2>5. Name(item) \in Given /\ Name(item) = [blindId |-> item.blindId, record |-> item.record]
    BY DEF Item, Name
  <2>6. [blindId |-> u.review.blindId, record |-> u.record] \in Given
    BY <2>1 DEF BlindInv, TypeOK
  <2> DEFINE g == [blindId |-> u.review.blindId, record |-> u.record]
             h == [blindId |-> item.blindId, record |-> item.record]
  <2>7. g \in Given /\ h \in Given /\ g.blindId = h.blindId
    BY <2>4, <2>5, <2>6
  <2> HIDE DEF g, h
  <2>8. g.record = h.record
    BY <1>1, <2>7, GivenOnce
  <2>9. QED
    BY <2>4, <2>8 DEF g, h
<1>2. ASSUME CollidingTogether PROVE Spec => []AttributedToShown
  <2>1. BlindInv => AttributedToShown
    BY <1>1, <1>2
  <2>2. QED
    BY <2>1, BlindInvariant, PTL
<1>3. QED
  BY <1>2

(* An import that ends leaves every review of before and of its batch      *)
(* there once, the later one of a key.                                     *)
THEOREM ReviewsAreKept == Spec => ReviewsKept
<1>1. BlindInv /\ [Next]_vars =>
        [reviews.kind = "torn" /\ reviews'.kind = "ok"
           => Supersedes(reviews'.list, reviews.list, job.out.batch)]_vars
  <2> SUFFICES ASSUME BlindInv, [Next]_vars, reviews.kind = "torn", reviews'.kind = "ok"
               PROVE  Supersedes(reviews'.list, reviews.list, job.out.batch)
    OBVIOUS
  <2>1. CASE SaveReviews
    <3>1. job.stage = "save" /\ reviews'.list = job.out.list
      BY <2>1 DEF SaveReviews
    <3>2. Supersedes(job.out.list, reviews.list, job.out.batch)
      BY <3>1 DEF BlindInv, ReviewsInOrder
    <3>3. QED
      BY <3>1, <3>2
  <2>2. CASE RunHumanReviewImport
    BY <2>2 DEF RunHumanReviewImport
  <2>3. CASE UNCHANGED reviews
    BY <2>3
  <2>4. SaveReviews \/ RunHumanReviewImport \/ UNCHANGED reviews
    BY DEF Next, RecordArrives, RunBlindCreate, WriteSet, WriteItem, OpenPairs, WritePairs,
           OpenMapping, WriteMapping, PlacePairReview, RunHumanReviewReport, RunHumanReviewUnblind, Crash, vars
  <2>5. QED
    BY <2>1, <2>2, <2>3, <2>4
<1>2. QED
  BY <1>1, BlindInvariant, PTL DEF Spec, ReviewsKept

(* An id that no other pair of the mapping has is given to the entry of    *)
(* the pair.                                                               *)
LEMMA EntryOfItsOwn ==
  ASSUME BlindInv, NEW m \in Paired, Attributable(m)
  PROVE  m \in mapping.matches /\ Entry(m.blindId) = m
<1>1. PICK n \in mapping.matches : n.drawn = m.drawn
  BY DEF Attributable
<1>2. mapping.matches = BuildPairwise(m.drawn)
  BY <1>1 DEF BlindInv, PairsMapped, OneDraw
<1>3. m \in mapping.matches
  BY <1>2 DEF BlindInv, PairsMapped
<1>4. \A x \in mapping.matches : x.blindId = m.blindId => x = m
  <2> SUFFICES ASSUME NEW x \in mapping.matches, x.blindId = m.blindId PROVE x = m
    OBVIOUS
  <2>1. x.pair = m.pair
    BY DEF Attributable
  <2>2. \A y \in BuildPairwise(m.drawn) : y = Match(y.pair, m.drawn)
    BY DEF BuildPairwise, Match
  <2>3. QED
    BY <1>2, <1>3, <2>1, <2>2
<1>5. QED
  BY <1>3, <1>4 DEF Entry

(* In every report a pairwise review counts for the target whose answer    *)
(* was preferred and for no other, unless the mapping's sides were drawn   *)
(* for another list of pairs or two of its pairs have the id.              *)
THEOREM PairsAttributed == Spec => PairwiseAttributed
<1>1. BlindInv /\ [Next]_vars =>
        [output'.kind = "unblinded" /\ output' # output =>
           \A v \in pairReviews, t \in Targets :
             Attributable(v.match) /\ v.choice # "equivalent" =>
               (v \in output'.wins[t]
                  <=> Records[IF v.choice = "a" THEN v.match.a ELSE v.match.b].target = t)]_vars
  <2> SUFFICES ASSUME BlindInv, [Next]_vars, output'.kind = "unblinded", output' # output,
                      NEW v \in pairReviews, NEW t \in Targets,
                      Attributable(v.match), v.choice # "equivalent"
               PROVE  v \in output'.wins[t]
                        <=> Records[IF v.choice = "a" THEN v.match.a ELSE v.match.b].target = t
    OBVIOUS
  <2>1. RunHumanReviewReport \/ RunHumanReviewUnblind
    BY DEF Next, RecordArrives, RunBlindCreate, WriteSet, WriteItem, OpenPairs, WritePairs,
           OpenMapping, WriteMapping, PlacePairReview, RunHumanReviewImport, SaveReviews, Crash, vars
  <2>2. RunHumanReviewReport
    BY <2>1 DEF RunHumanReviewUnblind
  <2>3. PICK unblind \in BOOLEAN : (unblind => mapping.kind = "ok") /\ output' = Analyze(reviews.list, unblind)
    BY <2>2 DEF RunHumanReviewReport
  <2>4. unblind
    BY <2>3 DEF Analyze
  <2>5. output'.wins = [s \in Targets |-> IF unblind THEN PairwiseWins(s) ELSE {}]
    BY <2>3 DEF Analyze
  <2>6. output'.wins[t] = PairwiseWins(t)
    BY <2>4, <2>5
  <2>7. v.match \in mapping.matches /\ Entry(v.match.blindId) = v.match
    <3>1. v.match \in Paired
      BY DEF Paired
    <3>2. QED
      BY <3>1, EntryOfItsOwn
  <2>8. v.choice = "a" \/ v.choice = "b"
    BY BlindAssumption DEF BlindInv, TypeOK
  <2>9. QED
    BY <2>6, <2>7, <2>8 DEF PairwiseWins
<1>2. QED
  BY <1>1, BlindInvariant, PTL DEF Spec, PairwiseAttributed
=============================================================================
