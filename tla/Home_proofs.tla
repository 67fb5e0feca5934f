----------------------------- MODULE Home_proofs -----------------------------
(***************************************************************************)
(* Theorems about the home page, for any accounts and vaults, any number   *)
(* of questions, events, reloads, changes of account and failures.         *)
(***************************************************************************)
EXTENDS Home, FiniteSetTheorems, SequenceTheorems, WellFoundedInduction, TLAPS

-----------------------------------------------------------------------------
(***************************************************************************)
(* A non-empty set of naturals has a least element.                        *)
(***************************************************************************)
LEMMA LeastIndex ==
  ASSUME NEW S \in SUBSET Nat, S # {}
  PROVE  \E i \in S : \A j \in S : i <= j
<1> DEFINE R == OpToRel(<, Nat)
<1>1. PICK i \in S : \A j \in S : ~ (<<j, i>> \in R)
  <2> HIDE DEF R
  <2>1. IsWellFoundedOn(R, Nat)
    BY NatLessThanWellFounded DEF R
  <2>2. QED
    BY <2>1, WFMin
<1>2. ASSUME NEW j \in S PROVE i <= j
  <2>1. ~ (j < i)
    BY <1>1 DEF OpToRel
  <2>2. QED
    BY <2>1
<1>3. QED
  BY <1>2

-----------------------------------------------------------------------------
(***************************************************************************)
(* What the listeners ask, one after the other: the pairs of questions in  *)
(* one sequence, which FlattenSeq builds by a recursion over them.         *)
(***************************************************************************)
FlattenStep(seqs, H) ==
  H = [i \in 1 .. Len(seqs) |-> IF i = 1 THEN seqs[i] ELSE H[i - 1] \o seqs[i]]

LEMMA FlattenUnfolds ==
  ASSUME NEW seqs, Len(seqs) # 0, \E G : FlattenStep(seqs, G)
  PROVE  \E H : FlattenStep(seqs, H) /\ FlattenSeq(seqs) = H[Len(seqs)]
  BY DEF FlattenStep, FlattenSeq

Pairs(order, n) ==
  [k \in 1 .. 2 * n |->
     IF k % 2 = 1 THEN Ask("exists", order[(k + 1) \div 2]) ELSE Ask("vault", order[k \div 2])]

LEMMA PairsAsk ==
  ASSUME NEW order \in Seq(Users), NEW n \in 0 .. Len(order)
  PROVE  /\ Pairs(order, n) \in Seq(Call) /\ Len(Pairs(order, n)) = 2 * n
         /\ DOMAIN Pairs(order, n) = 1 .. 2 * n
         /\ \A k \in 1 .. 2 * n : \E q \in {"exists", "vault"}, i \in 1 .. Len(order) :
              Pairs(order, n)[k] = Ask(q, order[i])
<1>1. Len(order) \in Nat /\ n \in Nat /\ 2 * n \in Nat
  BY LenProperties
<1>2. ASSUME NEW k \in 1 .. 2 * n
      PROVE  \E q \in {"exists", "vault"}, i \in 1 .. Len(order) : Pairs(order, n)[k] = Ask(q, order[i])
  <2>1. CASE k % 2 = 1
    <3>1. (k + 1) \div 2 \in 1 .. Len(order)
      BY <1>1, <2>1
    <3>2. QED
      BY <2>1, <3>1 DEF Pairs
  <2>2. CASE k % 2 # 1
    <3>1. k \div 2 \in 1 .. Len(order)
      BY <1>1, <2>2
    <3>2. QED
      BY <2>2, <3>1 DEF Pairs
  <2>3. QED
    BY <2>1, <2>2
<1>3. \A q \in {"exists", "vault"}, u \in Users : Ask(q, u) \in Call
  BY DEF Ask, Call
<1>4. \A i \in 1 .. Len(order) : order[i] \in Users
  BY ElementOfSeq
<1>5. \A k \in 1 .. 2 * n : Pairs(order, n)[k] \in Call
  BY <1>2, <1>3, <1>4
<1>6. Pairs(order, n) \in [1 .. 2 * n -> Call] /\ DOMAIN Pairs(order, n) = 1 .. 2 * n
  <2>1. Pairs(order, n) = [k \in 1 .. 2 * n |-> Pairs(order, n)[k]]
    BY DEF Pairs
  <2>2. QED
    BY <1>5, <2>1, Zenon
<1>7. Pairs(order, n) \in Seq(Call)
  BY <1>1, <1>6, SeqDef, Zenon
<1>8. QED
  BY <1>1, <1>2, <1>6, <1>7, LenProperties

LEMMA PairsGrow ==
  ASSUME NEW order \in Seq(Users), NEW n \in 1 .. Len(order)
  PROVE  Pairs(order, n - 1) \o ListenerAsks(order[n]) = Pairs(order, n)
<1> DEFINE fewer == Pairs(order, n - 1)
           two == ListenerAsks(order[n])
           more == Pairs(order, n)
           both == fewer \o two
<1>1. Len(order) \in Nat /\ n \in Nat /\ n >= 1 /\ n - 1 \in 0 .. Len(order) /\ n \in 0 .. Len(order)
  BY LenProperties
<1>2. fewer \in Seq(Call) /\ Len(fewer) = 2 * (n - 1)
  BY <1>1, PairsAsk
<1>3. more \in Seq(Call) /\ Len(more) = 2 * n
  BY <1>1, PairsAsk
<1>4. /\ two \in Seq(Call) /\ Len(two) = 2
      /\ two[1] = Ask("exists", order[n]) /\ two[2] = Ask("vault", order[n])
  BY ElementOfSeq DEF ListenerAsks, Ask, Call
<1>5. /\ \A k \in 1 .. 2 * (n - 1) : more[k] = fewer[k]
      /\ more[2 * n - 1] = two[1] /\ more[2 * n] = two[2]
  <2>1. \A k \in 1 .. 2 * (n - 1) : k \in 1 .. 2 * n
    BY <1>1
  <2>2. \A k \in 1 .. 2 * (n - 1) : more[k] = fewer[k]
    BY <2>1 DEF Pairs
  <2>3. /\ 2 * n - 1 \in 1 .. 2 * n /\ (2 * n - 1) % 2 = 1 /\ (2 * n - 1 + 1) \div 2 = n
        /\ 2 * n \in 1 .. 2 * n /\ (2 * n) % 2 # 1 /\ (2 * n) \div 2 = n
    BY <1>1
  <2>4. more[2 * n - 1] = Ask("exists", order[n]) /\ more[2 * n] = Ask("vault", order[n])
    BY <2>3 DEF Pairs
  <2>5. QED
    BY <1>4, <2>2, <2>4
<1> HIDE DEF fewer, two, more
<1>6. /\ both \in Seq(Call) /\ Len(both) = 2 * n
      /\ \A i \in 1 .. 2 * n : both[i] = IF i <= 2 * (n - 1) THEN fewer[i] ELSE two[i - 2 * (n - 1)]
  <2>1. Len(fewer) + Len(two) = 2 * n
    BY <1>1, <1>2, <1>4
  <2>2. /\ both \in Seq(Call) /\ Len(both) = Len(fewer) + Len(two)
        /\ \A i \in 1 .. Len(fewer) + Len(two) :
             both[i] = IF i <= Len(fewer) THEN fewer[i] ELSE two[i - Len(fewer)]
    BY <1>2, <1>4, ConcatProperties, Zenon
  <2> HIDE DEF both
  <2>3. QED
    BY <1>2, <2>1, <2>2
<1> HIDE DEF both
<1>7. ASSUME NEW i \in 1 .. 2 * n PROVE both[i] = more[i]
  <2>1. CASE i <= 2 * (n - 1)
    <3>1. i \in 1 .. 2 * (n - 1)
      BY <1>1, <2>1
    <3>2. QED
      BY <1>5, <1>6, <2>1, <3>1
  <2>2. CASE i = 2 * n - 1
    BY <1>1, <1>5, <1>6, <2>2
  <2>3. CASE i = 2 * n
    BY <1>1, <1>5, <1>6, <2>3
  <2>4. QED
    BY <1>1, <2>1, <2>2, <2>3
<1>8. both = more
  BY <1>3, <1>6, <1>7, SeqEqual
<1>9. QED
  BY <1>8 DEF both, fewer, two, more

LEMMA AsksFlattened ==
  ASSUME NEW order \in Seq(Users)
  PROVE  FlattenSeq([i \in 1 .. Len(order) |-> ListenerAsks(order[i])]) = Pairs(order, Len(order))
<1> DEFINE seqs == [i \in 1 .. Len(order) |-> ListenerAsks(order[i])]
           G == [i \in 1 .. Len(order) |-> Pairs(order, i)]
<1>1. Len(order) \in Nat /\ seqs = [i \in 1 .. Len(order) |-> seqs[i]] /\ Len(seqs) = Len(order)
      /\ \A i \in 1 .. Len(order) : seqs[i] = ListenerAsks(order[i])
  BY LenProperties
<1> HIDE DEF seqs
<1>2. CASE Len(order) = 0
  <2>1. FlattenSeq(seqs) = << >>
    BY <1>1, <1>2 DEF FlattenSeq
  <2>2. Pairs(order, 0) = << >>
    BY DEF Pairs
  <2>3. QED
    BY <1>2, <2>1, <2>2 DEF seqs
<1>3. CASE Len(order) # 0
  <2>1. \A i \in 1 .. Len(order) :
          Pairs(order, i) = IF i = 1 THEN seqs[i] ELSE Pairs(order, i - 1) \o seqs[i]
    <3>1. SUFFICES ASSUME NEW i \in 1 .. Len(order)
                   PROVE  Pairs(order, i) = IF i = 1 THEN seqs[i] ELSE Pairs(order, i - 1) \o seqs[i]
      OBVIOUS
    <3>2. CASE i = 1
      <4>1. Pairs(order, 1) = << >> \o ListenerAsks(order[1])
        <5>1. Pairs(order, 0) = << >>
          BY DEF Pairs
        <5>2. 1 - 1 = 0 /\ 1 \in 1 .. Len(order)
          BY <3>2
        <5>3. QED
          BY <5>1, <5>2, PairsGrow
      <4>2. ListenerAsks(order[1]) \in Seq(Call)
        BY <3>2, ElementOfSeq DEF ListenerAsks, Ask, Call
      <4>3. QED
        BY <1>1, <3>2, <4>1, <4>2, ConcatEmptySeq
    <3>3. CASE i # 1
      BY <1>1, <3>3, PairsGrow
    <3>4. QED
      BY <3>2, <3>3
  <2>2. FlattenStep(seqs, G)
    <3>1. \A i \in 1 .. Len(order) : i # 1 => i - 1 \in 1 .. Len(order)
      BY <1>1
    <3>2. QED
      BY <1>1, <2>1, <3>1 DEF FlattenStep
  <2>3. PICK H : FlattenStep(seqs, H) /\ FlattenSeq(seqs) = H[Len(seqs)]
    BY <1>1, <1>3, <2>2, FlattenUnfolds
  <2>4. \A i \in 1 .. Len(order) : H[i] = IF i = 1 THEN seqs[i] ELSE H[i - 1] \o seqs[i]
    BY <1>1, <2>3 DEF FlattenStep
  <2>5. \A i \in 1 .. Len(order) : H[i] = Pairs(order, i)
    <3> DEFINE wrong == {i \in 1 .. Len(order) : H[i] # Pairs(order, i)}
    <3>1. SUFFICES ASSUME wrong # {} PROVE FALSE
      OBVIOUS
    <3>2. wrong \in SUBSET Nat
      BY <1>1
    <3>3. PICK i \in wrong : \A j \in wrong : i <= j
      BY <3>1, <3>2, LeastIndex
    <3>4. i \in 1 .. Len(order) /\ H[i] # Pairs(order, i)
      BY <3>3
    <3>5. i # 1
      BY <2>1, <2>4, <3>4
    <3>6. i - 1 \in 1 .. Len(order) /\ ~(i <= i - 1)
      BY <1>1, <3>4, <3>5
    <3>7. H[i - 1] = Pairs(order, i - 1)
      BY <3>3, <3>6
    <3>8. QED
      BY <2>1, <2>4, <3>4, <3>5, <3>7
  <2>6. QED
    BY <1>1, <1>3, <2>3, <2>5 DEF seqs
<1>4. QED
  BY <1>2, <1>3

(***************************************************************************)
(* One event makes every listener ask its two questions, in some order; a  *)
(* page with one listener asks two in all.                                 *)
(***************************************************************************)
LEMMA ListenersAsk ==
  ASSUME listeners \subseteq Users, IsFiniteSet(listeners), NEW order \in SetToSeqs(listeners),
         NEW asks, asks = FlattenSeq([i \in 1 .. Len(order) |-> ListenerAsks(order[i])])
  PROVE  /\ asks \in Seq(Call)
         /\ \A u : listeners = {u} => asks = ListenerAsks(u)
<1>1. Cardinality(listeners) \in Nat
  BY FS_CardinalityType
<1>2. order \in [1 .. Cardinality(listeners) -> listeners]
  BY DEF SetToSeqs
<1>3. order \in Seq(listeners) /\ Len(order) = Cardinality(listeners)
  <2>1. order \in Seq(listeners)
    BY <1>1, <1>2, SeqDef, Zenon
  <2>2. Len(order) \in Nat /\ DOMAIN order = 1 .. Len(order) /\ DOMAIN order = 1 .. Cardinality(listeners)
    BY <1>2, <2>1, LenProperties
  <2>3. QED
    BY <1>1, <2>1, <2>2
<1>4. order \in Seq(Users)
  <2>1. order \in [1 .. Cardinality(listeners) -> Users]
    BY <1>2
  <2>2. QED
    BY <1>1, <2>1, SeqDef, Zenon
<1>5. asks = Pairs(order, Len(order))
  BY <1>4, AsksFlattened
<1>6. asks \in Seq(Call)
  <2>1. Len(order) \in 0 .. Len(order)
    BY <1>1, <1>3
  <2>2. QED
    BY <1>4, <1>5, <2>1, PairsAsk
<1>7. ASSUME NEW u, listeners = {u} PROVE asks = ListenerAsks(u)
  <2>1. Cardinality(listeners) = 1
    BY <1>7, FS_Singleton
  <2>2. Len(order) = 1 /\ order[1] = u
    BY <1>2, <1>3, <1>7, <2>1
  <2>3. Pairs(order, 0) \o ListenerAsks(order[1]) = Pairs(order, 1)
    <3>1. 1 \in 1 .. Len(order) /\ 1 - 1 = 0
      BY <2>2
    <3>2. Pairs(order, 1 - 1) \o ListenerAsks(order[1]) = Pairs(order, 1)
      BY <1>4, <3>1, PairsGrow
    <3>3. QED
      BY <3>1, <3>2
  <2>4. Pairs(order, 0) = << >>
    BY DEF Pairs
  <2>5. ListenerAsks(u) \in Seq(Call)
    BY <1>7 DEF ListenerAsks, Ask, Call
  <2>6. << >> \o ListenerAsks(u) = ListenerAsks(u)
    BY <2>5, ConcatEmptySeq
  <2>7. QED
    BY <1>5, <2>2, <2>3, <2>4, <2>6
<1>8. QED
  BY <1>6, <1>7

(***************************************************************************)
(* The questions left when one is answered or fails, and those there are   *)
(* when two more are asked.                                                *)
(***************************************************************************)
LEMMA RemoveAtIs ==
  ASSUME NEW S, NEW s \in Seq(S), NEW k \in DOMAIN s
  PROVE  /\ RemoveAt(s, k) \in Seq(S)
         /\ Len(RemoveAt(s, k)) = Len(s) - 1
         /\ DOMAIN RemoveAt(s, k) = 1 .. Len(s) - 1
         /\ \A i \in 1 .. Len(s) - 1 : RemoveAt(s, k)[i] = IF i < k THEN s[i] ELSE s[i + 1]
<1> DEFINE before == SubSeq(s, 1, k - 1)
           after == SubSeq(s, k + 1, Len(s))
<1>1. k \in 1 .. Len(s) /\ Len(s) \in Nat /\ \A i \in 1 .. Len(s) : s[i] \in S
  OBVIOUS
<1>2. k \in Int /\ k - 1 \in Int /\ k + 1 \in Int /\ Len(s) \in Int
  BY <1>1
<1>3. /\ before \in Seq(S) /\ Len(before) = k - 1
      /\ \A i \in 1 .. k - 1 : before[i] = s[i]
  <2>1. \A i \in 1 .. k - 1 : s[i] \in S
    BY <1>1, <1>2
  <2>2. /\ before \in Seq(S)
        /\ Len(before) = IF 1 <= k - 1 THEN k - 1 - 1 + 1 ELSE 0
        /\ \A i \in 1 .. k - 1 - 1 + 1 : before[i] = s[1 + i - 1]
    BY <1>2, <2>1, SubSeqProperties
  <2> HIDE DEF before
  <2>3. QED
    BY <1>1, <2>2
<1>4. /\ after \in Seq(S) /\ Len(after) = Len(s) - k
      /\ \A i \in 1 .. Len(s) - k : after[i] = s[k + i]
  <2>1. \A i \in k + 1 .. Len(s) : s[i] \in S
    BY <1>1, <1>2
  <2>2. /\ after \in Seq(S)
        /\ Len(after) = IF k + 1 <= Len(s) THEN Len(s) - (k + 1) + 1 ELSE 0
        /\ \A i \in 1 .. Len(s) - (k + 1) + 1 : after[i] = s[k + 1 + i - 1]
    BY <1>2, <2>1, SubSeqProperties
  <2> HIDE DEF after
  <2>3. QED
    BY <1>1, <2>2
<1>5. RemoveAt(s, k) = before \o after
  BY DEF RemoveAt
<1> HIDE DEF before, after
<1>6. /\ before \o after \in Seq(S) /\ Len(before \o after) = Len(before) + Len(after)
      /\ \A i \in 1 .. Len(before) + Len(after) :
           (before \o after)[i] = IF i <= Len(before) THEN before[i] ELSE after[i - Len(before)]
  BY <1>3, <1>4, ConcatProperties
<1>7. Len(before) + Len(after) = Len(s) - 1
  BY <1>1, <1>3, <1>4
<1>8. ASSUME NEW i \in 1 .. Len(s) - 1
      PROVE  (before \o after)[i] = IF i < k THEN s[i] ELSE s[i + 1]
  <2>1. (before \o after)[i] = IF i <= k - 1 THEN before[i] ELSE after[i - (k - 1)]
    BY <1>3, <1>6, <1>7
  <2>2. CASE i <= k - 1
    <3>1. i \in 1 .. k - 1 /\ i < k
      BY <1>1, <2>2
    <3>2. QED
      BY <1>3, <2>1, <2>2, <3>1
  <2>3. CASE ~(i <= k - 1)
    <3>1. i - (k - 1) \in 1 .. Len(s) - k /\ k + (i - (k - 1)) = i + 1 /\ ~(i < k)
      BY <1>1, <2>3
    <3>2. QED
      BY <1>4, <2>1, <2>3, <3>1
  <2>4. QED
    BY <2>2, <2>3
<1>9. DOMAIN (before \o after) = 1 .. Len(before \o after)
  BY <1>6, LenProperties
<1>10. QED
  BY <1>5, <1>6, <1>7, <1>8, <1>9

LEMMA TwoMoreCalls ==
  ASSUME NEW s \in Seq(Call), NEW c \in Call, NEW d \in Call
  PROVE  /\ s \o <<c, d>> \in Seq(Call)
         /\ Len(s \o <<c, d>>) = Len(s) + 2 /\ Len(s) \in Nat
         /\ DOMAIN (s \o <<c, d>>) = 1 .. Len(s) + 2 /\ DOMAIN s = 1 .. Len(s)
         /\ \A i \in 1 .. Len(s) : (s \o <<c, d>>)[i] = s[i]
         /\ (s \o <<c, d>>)[Len(s) + 1] = c /\ (s \o <<c, d>>)[Len(s) + 2] = d
<1> DEFINE two == <<c, d>>
           more == s \o two
<1>1. two \in Seq(Call) /\ Len(two) = 2 /\ two[1] = c /\ two[2] = d
  OBVIOUS
<1>2. Len(s) \in Nat /\ DOMAIN s = 1 .. Len(s)
  BY LenProperties
<1> HIDE DEF two
<1>3. /\ more \in Seq(Call) /\ Len(more) = Len(s) + Len(two)
      /\ \A i \in 1 .. Len(s) + Len(two) : more[i] = IF i <= Len(s) THEN s[i] ELSE two[i - Len(s)]
  BY <1>1, ConcatProperties
<1> HIDE DEF more
<1>4. DOMAIN more = 1 .. Len(s) + 2 /\ Len(more) = Len(s) + 2
  BY <1>1, <1>3, LenProperties
<1>5. \A i \in 1 .. Len(s) : more[i] = s[i]
  BY <1>1, <1>2, <1>3
<1>6. more[Len(s) + 1] = c /\ more[Len(s) + 2] = d
  BY <1>1, <1>2, <1>3
<1>7. QED
  BY <1>2, <1>3, <1>4, <1>5, <1>6 DEF more, two

-----------------------------------------------------------------------------
(***************************************************************************)
(* The invariant.  A page without a foreign listener and without a failed  *)
(* question only asks about its own account; when no event is on its way   *)
(* the last question of each kind will be answered with the truth, or none *)
(* is under way and the page has it.  A vault gets its first employee from *)
(* a Dashboard that then loads it, and after a reload the vault's question *)
(* is answered before the one that mounts the Dashboard.                   *)
(***************************************************************************)
Mine == allVaults[address]

\* no two addresses have one vault, and who has employees is somebody's vault
OneOwner == \A u, w \in Users : allVaults[u] = allVaults[w] /\ allVaults[u] # Zero => u = w
StaffedOwned == \A v \in staffed : \E u \in Users : allVaults[u] = v

OwnCalls == \A i \in DOMAIN calls : calls[i].of = address /\ calls[i].answer \in {Undefined, Zero, Mine}

Known ==
  /\ vaultContract # Undefined => vaultContract = Mine
  /\ isExists => Mine # Zero

Asked(q) == \E i \in DOMAIN calls : calls[i].asks = q

LastIsFresh(q) ==
  \A i \in DOMAIN calls :
    calls[i].asks = q /\ (\A j \in DOMAIN calls : calls[j].asks = q => j <= i) =>
      calls[i].answer \in {Undefined, Mine}

ExistsSettles == LastIsFresh("exists") /\ (~Asked("exists") => (isExists <=> Mine # Zero))
VaultSettles == LastIsFresh("vault") /\ (~Asked("vault") /\ Mine # Zero => vaultContract = Mine)

StaffedKnown ==
  Mine \in staffed =>
    /\ \/ vaultContract = Mine
       \/ /\ ~Mounted /\ calls # << >>
          /\ calls[1].asks = "vault" /\ calls[1].answer \in {Undefined, Mine}
    /\ Mounted => shown # Undefined

\* what holds of such a page
Right ==
  /\ OwnCalls /\ Known
  /\ events = 0 => ExistsSettles /\ VaultSettles
  /\ vaultLoading => Asked("exists")
  /\ StaffedKnown

PageRight == OwnListeners /\ errors = 0 => Right

TypedPage == HomeTypeOK /\ IsFiniteSet(listeners) /\ address \in listeners

HomeInv == TypedPage /\ OneOwner /\ StaffedOwned /\ PageRight

-----------------------------------------------------------------------------
LEMMA EffectsTyped ==
  ASSUME HomeTypeOK, vaultContract' \in Vaults \cup {Undefined}, DashboardEffects
  PROVE  shown' \in Vaults \cup {Undefined}
  BY DEF HomeTypeOK, DashboardEffects

LEMMA LoadForTyped ==
  ASSUME NEW a \in Users
  PROVE  LoadFor(a) \in Seq(Call) /\ Ask("exists", a) \in Call /\ Ask("vault", a) \in Call
<1>1. Ask("exists", a) \in Call /\ Ask("vault", a) \in Call
  BY DEF Ask, Call
<1>2. QED
  BY <1>1 DEF LoadFor

(***************************************************************************)
(* Every action keeps the variables typed and the listeners finitely many, *)
(* one of them the connected account's.                                    *)
(***************************************************************************)
LEMMA TypedInit == HomeInit => TypedPage
<1> SUFFICES ASSUME HomeInit PROVE TypedPage
  OBVIOUS
<1> USE DEF HomeInit
<1>1. MasterTypeOK
  BY DEF MasterInit, MasterTypeOK
<1>2. calls \in Seq(Call)
  BY LoadForTyped
<1>3. IsFiniteSet(listeners) /\ listeners \subseteq Users
  BY FS_Singleton
<1>4. isExists \in BOOLEAN /\ vaultLoading \in BOOLEAN
  OBVIOUS
<1>5. address \in Users /\ address \in listeners /\ vaultContract = Undefined /\ shown = Undefined
  OBVIOUS
<1>6. events \in Nat /\ switches \in 0 .. MaxSwitches /\ reloads \in 0 .. MaxReloads /\ errors \in 0 .. MaxErrors
  BY HomeAssumption DEF HomeAssumption
<1>7. QED
  BY <1>1, <1>2, <1>3, <1>4, <1>5, <1>6, Zenon DEF TypedPage, HomeTypeOK

LEMMA TypedReload == ASSUME TypedPage, Reload PROVE TypedPage'
<1> USE DEF TypedPage, Reload
<1>1. MasterTypeOK'
  BY DEF HomeTypeOK, MasterTypeOK, masterVars
<1>2. calls' \in Seq(Call)
  BY LoadForTyped DEF HomeTypeOK
<1>3. IsFiniteSet(listeners') /\ listeners' \subseteq Users
  BY FS_Singleton DEF HomeTypeOK
<1>4. isExists' \in BOOLEAN /\ vaultLoading' \in BOOLEAN
  OBVIOUS
<1>5. /\ address' \in Users /\ address' \in listeners'
      /\ vaultContract' = Undefined /\ shown' = Undefined
  BY DEF HomeTypeOK
<1>6. /\ events' \in Nat /\ switches' \in 0 .. MaxSwitches
      /\ reloads' \in 0 .. MaxReloads /\ errors' \in 0 .. MaxErrors
  BY HomeAssumption DEF HomeAssumption, HomeTypeOK
<1>7. vaultContract' \in Vaults \cup {Undefined} /\ shown' \in Vaults \cup {Undefined}
  BY <1>5
<1> HIDE DEF Reload
<1>8. QED
  BY <1>1, <1>2, <1>3, <1>4, <1>5, <1>6, <1>7, Zenon DEF HomeTypeOK

LEMMA TypedSwitch == ASSUME TypedPage, NEW a \in Users, SwitchAccount(a) PROVE TypedPage'
<1> USE DEF TypedPage, SwitchAccount
<1>1. MasterTypeOK'
  BY DEF HomeTypeOK, MasterTypeOK, masterVars
<1>2. calls' \in Seq(Call)
  BY LoadForTyped, TwoMoreCalls DEF HomeTypeOK, LoadFor
<1>3. IsFiniteSet(listeners') /\ listeners' \subseteq Users
  BY FS_AddElement DEF HomeTypeOK
<1>4. shown' \in Vaults \cup {Undefined}
  BY EffectsTyped DEF HomeTypeOK
<1>5. QED
  BY <1>1, <1>2, <1>3, <1>4, HomeAssumption DEF HomeAssumption, HomeTypeOK

LEMMA TypedRead == ASSUME TypedPage, NEW i \in DOMAIN calls, Read(i) PROVE TypedPage'
<1> USE DEF TypedPage, Read
<1>1. MasterTypeOK'
  BY DEF HomeTypeOK, MasterTypeOK, masterVars
<1>2. calls[i] \in Call /\ Len(calls) \in Nat /\ DOMAIN calls = 1 .. Len(calls)
  BY ElementOfSeq DEF HomeTypeOK
<1>3. [calls[i] EXCEPT !.answer = allVaults[calls[i].of]] \in Call
  BY <1>2 DEF HomeTypeOK, MasterTypeOK, Call
<1>4. calls' = [calls EXCEPT ![i] = [calls[i] EXCEPT !.answer = allVaults[calls[i].of]]]
  OBVIOUS
<1>5. calls' \in Seq(Call)
  BY <1>3, <1>4, ExceptSeq DEF HomeTypeOK
<1>6. QED
  BY <1>1, <1>5 DEF HomeTypeOK

LEMMA TypedReturn == ASSUME TypedPage, NEW i \in DOMAIN calls, Return(i) PROVE TypedPage'
<1> USE DEF TypedPage, Return
<1>1. MasterTypeOK'
  BY DEF HomeTypeOK, MasterTypeOK, masterVars
<1>2. calls[i] \in Call
  BY ElementOfSeq DEF HomeTypeOK
<1>3. calls' \in Seq(Call)
  BY RemoveAtIs DEF HomeTypeOK
<1>4. /\ vaultContract' \in Vaults \cup {Undefined}
      /\ isExists' \in BOOLEAN /\ vaultLoading' \in BOOLEAN
  BY <1>2 DEF HomeTypeOK, VaultAnswered, Call
<1>5. shown' \in Vaults \cup {Undefined}
  BY <1>4, EffectsTyped
<1>6. QED
  BY <1>1, <1>3, <1>4, <1>5 DEF HomeTypeOK

LEMMA TypedFail == ASSUME TypedPage, NEW i \in DOMAIN calls, Fail(i) PROVE TypedPage'
<1> USE DEF TypedPage, Fail
<1>1. MasterTypeOK'
  BY DEF HomeTypeOK, MasterTypeOK, masterVars
<1>2. calls' \in Seq(Call)
  BY RemoveAtIs DEF HomeTypeOK
<1>3. shown' \in Vaults \cup {Undefined}
  BY EffectsTyped DEF HomeTypeOK
<1>4. errors' \in 0 .. MaxErrors
  BY HomeAssumption DEF HomeAssumption, HomeTypeOK
<1>5. vaultLoading' \in BOOLEAN
  BY DEF HomeTypeOK, FailedCheck
<1>6. QED
  BY <1>1, <1>2, <1>3, <1>4, <1>5 DEF HomeTypeOK

LEMMA TypedEvent == ASSUME TypedPage, VaultCreated PROVE TypedPage'
<1> USE DEF TypedPage, VaultCreated
<1>1. MasterTypeOK'
  BY DEF HomeTypeOK, MasterTypeOK, masterVars
<1>2. calls' \in Seq(Call)
  <2>1. PICK order \in SetToSeqs(listeners) :
          calls' = calls \o FlattenSeq([i \in 1 .. Len(order) |-> ListenerAsks(order[i])])
    OBVIOUS
  <2>2. FlattenSeq([i \in 1 .. Len(order) |-> ListenerAsks(order[i])]) \in Seq(Call)
    BY ListenersAsk DEF HomeTypeOK
  <2>3. QED
    BY <2>1, <2>2, ConcatProperties DEF HomeTypeOK
<1>3. shown' \in Vaults \cup {Undefined}
  BY EffectsTyped DEF HomeTypeOK
<1>4. QED
  BY <1>1, <1>2, <1>3 DEF HomeTypeOK

LEMMA TypedCreate == ASSUME TypedPage, NEW u \in Users, CreateVault(u) PROVE TypedPage'
<1> USE DEF TypedPage, CreateVault
<1>1. MasterTypeOK'
  BY DEF HomeTypeOK, MasterTypeOK, createVault
<1>2. QED
  BY <1>1 DEF HomeTypeOK

LEMMA TypedAdd == ASSUME TypedPage, AddEmployee PROVE TypedPage'
<1> USE DEF TypedPage, AddEmployee
<1>1. MasterTypeOK'
  BY DEF HomeTypeOK, MasterTypeOK, addEmployees
<1>2. QED
  BY <1>1 DEF HomeTypeOK

LEMMA TypedElsewhere == ASSUME TypedPage, Elsewhere PROVE TypedPage'
<1> USE DEF TypedPage, Elsewhere, pageVars
<1>1. MasterTypeOK'
  BY DEF HomeTypeOK, MasterTypeOK, addEmployees
<1>2. QED
  BY <1>1 DEF HomeTypeOK

LEMMA TypedNext == TypedPage /\ [HomeNext]_homeVars => TypedPage'
<1> SUFFICES ASSUME TypedPage, [HomeNext]_homeVars PROVE TypedPage'
  OBVIOUS
<1>1. CASE HomeNext
  BY <1>1, TypedSwitch, TypedCreate, TypedRead, TypedReturn, TypedFail, TypedEvent, TypedAdd,
     TypedElsewhere, TypedReload DEF HomeNext
<1>2. CASE UNCHANGED homeVars
  BY <1>2 DEF TypedPage, HomeTypeOK, MasterTypeOK, homeVars, masterVars, pageVars
<1>3. QED
  BY <1>1, <1>2

(***************************************************************************)
(* The page's state stays well formed, whatever is asked, answered, lost   *)
(* or announced, by any number of listeners (Home.js).                     *)
(***************************************************************************)
THEOREM HomeTyped == HomeSpec => []HomeTypeOK
<1>1. TypedPage => HomeTypeOK
  BY DEF TypedPage
<1>2. QED
  BY <1>1, TypedInit, TypedNext, PTL DEF HomeSpec

-----------------------------------------------------------------------------
(***************************************************************************)
(* Vaults and their owners: a new vault is nobody's yet and has no         *)
(* employees, and only an owner adds them.                                 *)
(***************************************************************************)
Owned == TypedPage /\ OneOwner /\ StaffedOwned

LEMMA OwnedInit == HomeInit => Owned
  BY TypedInit, MasterAssumption
  DEF Owned, OneOwner, StaffedOwned, HomeInit, MasterInit

LEMMA OwnersKept ==
  ASSUME Owned, UNCHANGED masterVars
  PROVE  (OneOwner /\ StaffedOwned)'
  BY DEF Owned, OneOwner, StaffedOwned, masterVars

LEMMA OwnersCreate ==
  ASSUME Owned, NEW c \in Users, createVault(c)
  PROVE  /\ (OneOwner /\ StaffedOwned)'
         /\ allVaults'[c] \in Vaults /\ allVaults'[c] \notin staffed'
         /\ \A u \in Users \ {c} : allVaults'[u] = allVaults[u]
<1>1. PICK v \in Vaults : /\ \A u \in Users : allVaults[u] # v
                          /\ allVaults' = [allVaults EXCEPT ![c] = v]
  BY DEF createVault
<1>2. allVaults \in [Users -> Vaults \cup {Zero}] /\ allVaults[c] = Zero /\ staffed' = staffed
  BY DEF Owned, TypedPage, HomeTypeOK, MasterTypeOK, createVault
<1>3. allVaults'[c] = v /\ \A u \in Users \ {c} : allVaults'[u] = allVaults[u]
  BY <1>1, <1>2
<1>4. v \notin staffed'
  BY <1>1, <1>2 DEF Owned, StaffedOwned
<1>5. OneOwner'
  BY <1>1, <1>3 DEF Owned, OneOwner
<1>6. StaffedOwned'
  <2>1. SUFFICES ASSUME NEW w \in staffed PROVE \E u \in Users : allVaults'[u] = w
    BY <1>2 DEF StaffedOwned
  <2>2. PICK u \in Users : allVaults[u] = w
    BY DEF Owned, StaffedOwned
  <2>3. w \in Vaults
    BY DEF Owned, TypedPage, HomeTypeOK, MasterTypeOK
  <2>4. u # c
    BY <1>2, <2>2, <2>3, MasterAssumption DEF MasterAssumption
  <2>5. QED
    BY <1>3, <2>2, <2>4
<1>7. QED
  BY <1>1, <1>3, <1>4, <1>5, <1>6

LEMMA OwnersAdd ==
  ASSUME Owned, NEW u \in Users, NEW v \in Vaults, addEmployees(u, v)
  PROVE  (OneOwner /\ StaffedOwned)'
  BY DEF Owned, OneOwner, StaffedOwned, addEmployees

LEMMA OwnedNext == Owned /\ [HomeNext]_homeVars => Owned'
<1> SUFFICES ASSUME Owned, [HomeNext]_homeVars PROVE Owned'
  OBVIOUS
<1>1. TypedPage'
  BY TypedNext DEF Owned
<1>2. (OneOwner /\ StaffedOwned)'
  <2>1. CASE UNCHANGED masterVars
    BY <2>1, OwnersKept
  <2>2. ASSUME NEW u \in Users, CreateVault(u) PROVE (OneOwner /\ StaffedOwned)'
    BY <2>2, OwnersCreate DEF CreateVault
  <2>3. CASE AddEmployee
    BY <2>3, OwnersAdd DEF AddEmployee, Owned, TypedPage, HomeTypeOK
  <2>4. CASE Elsewhere
    BY <2>4, OwnersAdd DEF Elsewhere
  <2>5. QED
    BY <2>1, <2>2, <2>3, <2>4
    DEF HomeNext, homeVars, SwitchAccount, Read, Return, Fail, VaultCreated, Reload
<1>3. QED
  BY <1>1, <1>2 DEF Owned

-----------------------------------------------------------------------------
(***************************************************************************)
(* What one step does to the questions under way.                          *)
(***************************************************************************)
\* two fresh questions, whatever there was before
LEMMA FreshQuestions ==
  ASSUME calls' \in Seq(Call), NEW n \in Nat, DOMAIN calls' = 1 .. n + 2,
         {calls'[n + 1].asks, calls'[n + 2].asks} = {"exists", "vault"},
         calls'[n + 1].answer = Undefined, calls'[n + 2].answer = Undefined,
         NEW q \in {"exists", "vault"}
  PROVE  Asked(q)' /\ LastIsFresh(q)'
<1>1. n + 1 \in 1 .. n + 2 /\ n + 2 \in 1 .. n + 2
  OBVIOUS
<1>2. PICK k \in {n + 1, n + 2} : calls'[k].asks = q
  OBVIOUS
<1>3. Asked(q)'
  BY <1>1, <1>2 DEF Asked
<1>4. ASSUME NEW i \in 1 .. n + 2, \A j \in 1 .. n + 2 : calls'[j].asks = q => j <= i
      PROVE  calls'[i].answer = Undefined
  <2>1. k <= i
    BY <1>1, <1>2, <1>4
  <2>2. i = n + 1 \/ i = n + 2
    BY <2>1
  <2>3. QED
    BY <2>2
<1>5. QED
  BY <1>3, <1>4 DEF LastIsFresh

\* the first question is answered
LEMMA FirstReturns ==
  ASSUME calls \in Seq(Call), 1 \in DOMAIN calls, calls' = RemoveAt(calls, 1), UNCHANGED <<address, allVaults>>,
         NEW q
  PROVE  /\ LastIsFresh(q) => LastIsFresh(q)'
         /\ LastIsFresh(q) /\ ~Asked(q)' /\ calls[1].asks = q => calls[1].answer \in {Undefined, Mine}
         /\ ~Asked(q)' /\ calls[1].asks # q => ~Asked(q)
<1> DEFINE n == Len(calls)
<1>1. n \in Nat /\ DOMAIN calls = 1 .. n /\ n >= 1
  BY LenProperties
<1>2. DOMAIN calls' = 1 .. n - 1 /\ \A i \in 1 .. n - 1 : calls'[i] = calls[i + 1]
  <2>1. /\ DOMAIN calls' = 1 .. n - 1
        /\ \A i \in 1 .. n - 1 : calls'[i] = IF i < 1 THEN calls[i] ELSE calls[i + 1]
    BY RemoveAtIs
  <2>2. QED
    BY <1>1, <2>1
<1> HIDE DEF n
<1>3. \A j \in 1 .. n : j = 1 \/ j - 1 \in 1 .. n - 1
  BY <1>1
<1>4. \A i \in 1 .. n - 1 : i + 1 \in 1 .. n
  BY <1>1
<1>5. LastIsFresh(q) => LastIsFresh(q)'
  <2>1. SUFFICES ASSUME LastIsFresh(q), NEW i \in 1 .. n - 1, calls'[i].asks = q,
                        \A j \in 1 .. n - 1 : calls'[j].asks = q => j <= i
                 PROVE  calls'[i].answer \in {Undefined, Mine}
    BY <1>2 DEF LastIsFresh, Mine
  <2>2. ASSUME NEW j \in 1 .. n, calls[j].asks = q PROVE j <= i + 1
    <3>1. CASE j = 1
      BY <1>1, <3>1
    <3>2. CASE j # 1
      <4>1. j - 1 \in 1 .. n - 1 /\ (j - 1) + 1 = j
        BY <1>3, <3>2
      <4>2. calls'[j - 1] = calls[j]
        BY <1>2, <4>1
      <4>3. j - 1 <= i
        BY <2>1, <2>2, <4>1, <4>2
      <4>4. QED
        BY <1>1, <4>3
    <3>3. QED
      BY <3>1, <3>2
  <2>3. i + 1 \in 1 .. n /\ calls[i + 1].asks = q /\ calls'[i] = calls[i + 1]
    BY <1>2, <1>4, <2>1
  <2>4. calls[i + 1].answer \in {Undefined, Mine}
    BY <1>1, <2>1, <2>2, <2>3 DEF LastIsFresh
  <2>5. QED
    BY <2>3, <2>4
<1>6. ASSUME ~Asked(q)', NEW j \in 1 .. n, calls[j].asks = q PROVE j = 1
  <2>1. CASE j # 1
    <3>1. j - 1 \in 1 .. n - 1 /\ (j - 1) + 1 = j
      BY <1>3, <2>1
    <3>2. calls'[j - 1] = calls[j]
      BY <1>2, <3>1
    <3>3. QED
      BY <1>2, <1>6, <3>1, <3>2 DEF Asked
  <2>2. QED
    BY <2>1
<1>7. ASSUME LastIsFresh(q), ~Asked(q)', calls[1].asks = q PROVE calls[1].answer \in {Undefined, Mine}
  <2>1. \A j \in DOMAIN calls : calls[j].asks = q => j <= 1
    BY <1>1, <1>6, <1>7
  <2>2. QED
    BY <1>7, <2>1 DEF LastIsFresh
<1>8. ASSUME ~Asked(q)', calls[1].asks # q PROVE ~Asked(q)
  BY <1>1, <1>6, <1>8 DEF Asked
<1>9. QED
  BY <1>5, <1>7, <1>8

-----------------------------------------------------------------------------
(***************************************************************************)
(* Every action keeps the page right, given that it was.                   *)
(***************************************************************************)
LEMMA MineTyped ==
  ASSUME TypedPage
  PROVE  Mine \in Vaults \cup {Zero} /\ Mine # Undefined /\ address \in Users
  BY HomeAssumption DEF HomeAssumption, TypedPage, HomeTypeOK, MasterTypeOK, Mine

LEMMA LoadForAsks ==
  /\ \A a : DOMAIN LoadFor(a) = 1 .. 2 /\ LoadFor(a)[1] = Ask("vault", a) /\ LoadFor(a)[2] = Ask("exists", a)
  /\ \A a : ListenerAsks(a) = <<Ask("exists", a), Ask("vault", a)>>
  BY DEF LoadFor, ListenerAsks

\* a page that has just been loaded
LEMMA RightWhenLoaded ==
  ASSUME TypedPage', calls' = LoadFor(address'), vaultContract' = Undefined, ~isExists', vaultLoading'
  PROVE  Right'
<1>1. /\ DOMAIN calls' = 1 .. 0 + 2 /\ 0 + 1 = 1 /\ 0 + 2 = 2 /\ 1 .. 0 + 2 = {1, 2}
      /\ calls'[1] = Ask("vault", address') /\ calls'[2] = Ask("exists", address')
  BY LoadForAsks
<1>2. \A q \in {"exists", "vault"} : Asked(q)' /\ LastIsFresh(q)'
  <2>1. SUFFICES ASSUME NEW q \in {"exists", "vault"} PROVE Asked(q)' /\ LastIsFresh(q)'
    OBVIOUS
  <2>2. /\ {calls'[0 + 1].asks, calls'[0 + 2].asks} = {"exists", "vault"}
        /\ calls'[0 + 1].answer = Undefined /\ calls'[0 + 2].answer = Undefined
    BY <1>1 DEF Ask
  <2>3. calls' \in Seq(Call) /\ 0 \in Nat
    BY DEF TypedPage, HomeTypeOK
  <2>4. QED
    BY <1>1, <2>2, <2>3, FreshQuestions
<1>3. OwnCalls'
  BY <1>1 DEF OwnCalls, Ask
<1>4. Known'
  BY DEF Known
<1>5. ExistsSettles' /\ VaultSettles'
  BY <1>2 DEF ExistsSettles, VaultSettles
<1>6. StaffedKnown'
  <2>1. ~Mounted' /\ calls' # << >> /\ calls'[1].asks = "vault" /\ calls'[1].answer = Undefined
    BY <1>1 DEF Mounted, Ask
  <2>2. QED
    BY <2>1 DEF StaffedKnown
<1>7. QED
  BY <1>2, <1>3, <1>4, <1>5, <1>6 DEF Right

LEMMA RightInit == HomeInit => PageRight
<1> SUFFICES ASSUME HomeInit PROVE PageRight
  OBVIOUS
<1>1. /\ DOMAIN calls = {1, 2}
      /\ calls[1] = Ask("vault", address) /\ calls[2] = Ask("exists", address)
  BY LoadForAsks DEF HomeInit
<1>2. Asked("exists") /\ Asked("vault")
  BY <1>1 DEF Asked, Ask
<1>3. LastIsFresh("exists") /\ LastIsFresh("vault") /\ OwnCalls
  BY <1>1 DEF LastIsFresh, OwnCalls, Ask
<1>4. Mine = Zero /\ staffed = {} /\ Known
  BY DEF HomeInit, MasterInit, Mine, Known
<1>5. QED
  BY <1>2, <1>3, <1>4 DEF PageRight, Right, ExistsSettles, VaultSettles, StaffedKnown

LEMMA RightReload ==
  ASSUME Owned, TypedPage', Reload PROVE PageRight'
<1>1. Right'
  BY RightWhenLoaded DEF Reload
<1>2. QED
  BY <1>1 DEF PageRight, Right

LEMMA RightSwitch ==
  ASSUME Owned, NEW a \in Users, SwitchAccount(a) PROVE PageRight'
<1>1. address \in listeners' /\ address # address'
  BY DEF Owned, TypedPage, SwitchAccount
<1>2. ~OwnListeners'
  BY <1>1 DEF OwnListeners
<1>3. QED
  BY <1>2 DEF PageRight

LEMMA RightFail ==
  ASSUME Owned, NEW i \in DOMAIN calls, Fail(i) PROVE PageRight'
<1>1. errors' # 0
  BY DEF Fail, Owned, TypedPage, HomeTypeOK
<1>2. QED
  BY <1>1 DEF PageRight

LEMMA RightRead ==
  ASSUME Owned, Right, NEW i \in DOMAIN calls, Read(i) PROVE Right'
<1> USE DEF Read
<1>1. /\ Mine' = Mine /\ address' = address /\ staffed' = staffed
      /\ Mounted' = Mounted
  BY DEF Mine, masterVars, Mounted
<1>2. Mine \in Vaults \cup {Zero} /\ Mine # Undefined
  BY MineTyped DEF Owned
<1>3. calls \in Seq(Call) /\ calls[i] \in Call
  BY ElementOfSeq DEF Owned, TypedPage, HomeTypeOK
<1>4. calls[i].of = address
  BY DEF Right, OwnCalls
<1>5. /\ DOMAIN calls' = DOMAIN calls
      /\ \A j \in DOMAIN calls : /\ calls'[j].asks = calls[j].asks /\ calls'[j].of = calls[j].of
                                 /\ calls'[j].answer = IF j = i THEN Mine ELSE calls[j].answer
  BY <1>3, <1>4 DEF Mine, Call
<1> HIDE DEF Read
<1>6. OwnCalls'
  BY <1>1, <1>5 DEF OwnCalls, Right
<1>7. \A q : (Asked(q)' <=> Asked(q)) /\ (LastIsFresh(q) => LastIsFresh(q)')
  BY <1>1, <1>5 DEF Asked, LastIsFresh
<1>8. UNCHANGED <<vaultContract, isExists, vaultLoading, events, shown>>
  BY DEF Read
<1>9. Known'
  BY <1>1, <1>8 DEF Known, Right
<1>10. ExistsSettles => ExistsSettles'
  BY <1>1, <1>7, <1>8 DEF ExistsSettles
<1>11. VaultSettles => VaultSettles'
  BY <1>1, <1>7, <1>8 DEF VaultSettles
<1>12. StaffedKnown'
  <2>1. SUFFICES ASSUME Mine \in staffed
                 PROVE  /\ \/ vaultContract = Mine
                           \/ /\ ~Mounted /\ calls' # << >>
                              /\ calls'[1].asks = "vault" /\ calls'[1].answer \in {Undefined, Mine}
                        /\ Mounted => shown # Undefined
    BY <1>1, <1>8 DEF StaffedKnown
  <2>2. StaffedKnown
    BY DEF Right
  <2>3. CASE vaultContract = Mine
    BY <2>1, <2>2, <2>3 DEF StaffedKnown
  <2>4. CASE vaultContract # Mine
    <3>1. /\ ~Mounted /\ calls # << >>
          /\ calls[1].asks = "vault" /\ calls[1].answer \in {Undefined, Mine}
      BY <2>1, <2>2, <2>4 DEF StaffedKnown
    <3>2. 1 \in DOMAIN calls
      BY <1>3, <3>1, EmptySeq, LenProperties
    <3>3. calls' # << >>
      BY <1>5, <3>2
    <3>4. QED
      BY <1>5, <3>1, <3>2, <3>3
  <2>5. QED
    BY <2>3, <2>4
<1>13. QED
  BY <1>6, <1>7, <1>8, <1>9, <1>10, <1>11, <1>12 DEF Right

LEMMA RightReturn ==
  ASSUME Owned, Right, InOrder, NEW i \in DOMAIN calls, Return(i) PROVE Right'
<1> DEFINE c == calls[1]
<1>1. /\ i = 1 /\ 1 \in DOMAIN calls /\ calls' = RemoveAt(calls, 1) /\ c.answer # Undefined
      /\ UNCHANGED <<address, allVaults, staffed, events>> /\ Mine' = Mine
  BY DEF Return, MayReturn, masterVars, Mine
<1>2. calls \in Seq(Call) /\ c \in Call
  BY <1>1, ElementOfSeq DEF Owned, TypedPage, HomeTypeOK
<1>3. c.of = address /\ c.answer \in {Zero, Mine} /\ c.asks \in {"exists", "vault"}
  BY <1>1, <1>2 DEF Right, OwnCalls, Call
<1>4. Mine \in Vaults \cup {Zero} /\ Mine # Undefined /\ (Mine \in staffed => Mine # Zero)
  BY MineTyped, MasterAssumption DEF MasterAssumption, Owned, TypedPage, HomeTypeOK, MasterTypeOK
<1>5. \A q : /\ LastIsFresh(q) => LastIsFresh(q)'
             /\ LastIsFresh(q) /\ ~Asked(q)' /\ c.asks = q => c.answer \in {Undefined, Mine}
             /\ ~Asked(q)' /\ c.asks # q => ~Asked(q)
  BY <1>1, <1>2, FirstReturns
<1>6. OwnCalls'
  <2>1. /\ DOMAIN calls' = 1 .. Len(calls) - 1 /\ DOMAIN calls = 1 .. Len(calls) /\ Len(calls) \in Nat
        /\ \A j \in 1 .. Len(calls) - 1 : calls'[j] = IF j < 1 THEN calls[j] ELSE calls[j + 1]
    BY <1>1, <1>2, RemoveAtIs, LenProperties
  <2>2. \A j \in DOMAIN calls' : j + 1 \in DOMAIN calls /\ calls'[j] = calls[j + 1]
    BY <2>1
  <2>3. QED
    BY <1>1, <2>2 DEF Right, OwnCalls
<1> HIDE DEF c
<1>7. Right
  OBVIOUS
<1>8. CASE c.asks = "vault"
  <2>1. /\ vaultContract' = IF c.answer # Zero THEN c.answer ELSE vaultContract
        /\ UNCHANGED <<isExists, vaultLoading>>
        /\ shown' = IF ~Mounted' THEN Undefined ELSE IF Mounted THEN shown ELSE vaultContract'
    BY <1>1, <1>8 DEF Return, VaultAnswered, DashboardEffects, c
  <2>2. Known'
    BY <1>1, <1>3, <1>7, <2>1 DEF Right, Known
  <2>3. vaultLoading' => Asked("exists")'
    BY <1>5, <1>7, <1>8, <2>1 DEF Right
  <2>4. events' = 0 => ExistsSettles' /\ VaultSettles'
    <3>1. SUFFICES ASSUME events = 0 PROVE ExistsSettles' /\ VaultSettles'
      BY <1>1
    <3>2. ExistsSettles /\ VaultSettles
      BY <1>7, <3>1 DEF Right
    <3>3. ExistsSettles'
      BY <1>1, <1>5, <1>8, <2>1, <3>2 DEF ExistsSettles
    <3>4. ~Asked("vault")' => c.answer = Mine
      BY <1>1, <1>5, <1>8, <3>2 DEF VaultSettles, c
    <3>5. VaultSettles'
      BY <1>1, <1>5, <2>1, <3>2, <3>4 DEF VaultSettles
    <3>6. QED
      BY <3>3, <3>5
  <2>5. StaffedKnown'
    <3>1. SUFFICES ASSUME Mine \in staffed
                   PROVE  vaultContract' = Mine /\ (Mounted' => shown' # Undefined)
      BY <1>1 DEF StaffedKnown
    <3>2. Mounted' = Mounted
      BY <2>1 DEF Mounted
    <3>3. vaultContract = Mine \/ c.answer = Mine
      BY <1>1, <1>7, <3>1 DEF Right, StaffedKnown, c
    <3>4. vaultContract' = Mine
      BY <1>3, <1>4, <2>1, <3>1, <3>3
    <3>5. Mounted => shown # Undefined
      BY <1>7, <3>1 DEF Right, StaffedKnown
    <3>6. QED
      BY <2>1, <3>2, <3>4, <3>5
  <2>6. QED
    BY <1>6, <2>2, <2>3, <2>4, <2>5 DEF Right
<1>9. CASE c.asks = "exists"
  <2>1. /\ isExists' = (c.answer # Zero) /\ vaultLoading' = FALSE /\ vaultContract' = vaultContract
        /\ shown' = IF ~Mounted' THEN Undefined ELSE IF Mounted THEN shown ELSE vaultContract'
    BY <1>1, <1>9 DEF Return, DashboardEffects, c
  <2>2. Known'
    BY <1>1, <1>3, <1>7, <2>1 DEF Right, Known
  <2>3. events' = 0 => ExistsSettles' /\ VaultSettles'
    <3>1. SUFFICES ASSUME events = 0 PROVE ExistsSettles' /\ VaultSettles'
      BY <1>1
    <3>2. ExistsSettles /\ VaultSettles
      BY <1>7, <3>1 DEF Right
    <3>3. VaultSettles'
      BY <1>1, <1>5, <1>9, <2>1, <3>2 DEF VaultSettles
    <3>4. ~Asked("exists")' => c.answer = Mine
      BY <1>1, <1>5, <1>9, <3>2 DEF ExistsSettles, c
    <3>5. ExistsSettles'
      BY <1>1, <1>5, <2>1, <3>2, <3>4 DEF ExistsSettles
    <3>6. QED
      BY <3>3, <3>5
  <2>4. StaffedKnown'
    <3>1. SUFFICES ASSUME Mine \in staffed
                   PROVE  vaultContract' = Mine /\ (Mounted' => shown' # Undefined)
      BY <1>1 DEF StaffedKnown
    <3>2. vaultContract = Mine
      BY <1>7, <1>9, <3>1 DEF Right, StaffedKnown, c
    <3>3. Mounted => shown # Undefined
      BY <1>7, <3>1 DEF Right, StaffedKnown
    <3>4. QED
      BY <1>4, <2>1, <3>2, <3>3
  <2>5. QED
    BY <1>6, <2>1, <2>2, <2>3, <2>4 DEF Right
<1>10. QED
  BY <1>3, <1>8, <1>9

LEMMA RightEvent ==
  ASSUME Owned, TypedPage', Right, OwnListeners, VaultCreated PROVE Right'
<1> DEFINE n == Len(calls)
<1>1. UNCHANGED <<address, allVaults, staffed, vaultContract, isExists>> /\ Mine' = Mine /\ vaultLoading'
  BY DEF VaultCreated, masterVars, Mine
<1>2. calls \in Seq(Call) /\ address \in Users /\ calls' \in Seq(Call)
  BY DEF Owned, TypedPage, HomeTypeOK
<1>3. calls' = calls \o <<Ask("exists", address), Ask("vault", address)>>
  <2>1. PICK order \in SetToSeqs(listeners) :
          calls' = calls \o FlattenSeq([i \in 1 .. Len(order) |-> ListenerAsks(order[i])])
    BY DEF VaultCreated
  <2>2. FlattenSeq([i \in 1 .. Len(order) |-> ListenerAsks(order[i])]) = ListenerAsks(address)
    BY ListenersAsk DEF OwnListeners, Owned, TypedPage, HomeTypeOK
  <2>3. QED
    BY <2>1, <2>2 DEF ListenerAsks
<1>4. /\ n \in Nat /\ DOMAIN calls = 1 .. n /\ DOMAIN calls' = 1 .. n + 2
      /\ \A i \in 1 .. n : calls'[i] = calls[i]
      /\ calls'[n + 1] = Ask("exists", address) /\ calls'[n + 2] = Ask("vault", address)
  BY <1>2, <1>3, TwoMoreCalls, LoadForTyped
<1> HIDE DEF n
<1>5. \A i \in 1 .. n + 2 : i \in 1 .. n \/ i = n + 1 \/ i = n + 2
  BY <1>4
<1>6. OwnCalls'
  BY <1>1, <1>4, <1>5 DEF OwnCalls, Right, Ask
<1>7. \A q \in {"exists", "vault"} : Asked(q)' /\ LastIsFresh(q)'
  <2>1. SUFFICES ASSUME NEW q \in {"exists", "vault"} PROVE Asked(q)' /\ LastIsFresh(q)'
    OBVIOUS
  <2>2. /\ {calls'[n + 1].asks, calls'[n + 2].asks} = {"exists", "vault"}
        /\ calls'[n + 1].answer = Undefined /\ calls'[n + 2].answer = Undefined
    BY <1>4 DEF Ask
  <2>3. QED
    BY <1>2, <1>4, <2>2, FreshQuestions
<1>8. Known'
  BY <1>1 DEF Known, Right
<1>9. ExistsSettles' /\ VaultSettles'
  BY <1>7 DEF ExistsSettles, VaultSettles
<1>10. StaffedKnown'
  <2>1. ~Mounted'
    BY <1>1 DEF Mounted
  <2>2. SUFFICES ASSUME Mine \in staffed, vaultContract # Mine
                 PROVE  calls' # << >> /\ calls'[1].asks = "vault" /\ calls'[1].answer \in {Undefined, Mine}
    BY <1>1, <2>1 DEF StaffedKnown
  <2>3. calls # << >> /\ calls[1].asks = "vault" /\ calls[1].answer \in {Undefined, Mine}
    BY <2>2 DEF Right, StaffedKnown
  <2>4. 1 \in 1 .. n
    BY <1>2, <1>4, <2>3, EmptySeq, LenProperties DEF n
  <2>5. calls'[1] = calls[1] /\ 1 \in DOMAIN calls'
    BY <1>4, <2>4
  <2>6. QED
    BY <2>3, <2>5
<1>11. QED
  BY <1>6, <1>7, <1>8, <1>9, <1>10 DEF Right

LEMMA RightCreate ==
  ASSUME Owned, Right, NEW u \in Users, CreateVault(u) PROVE Right'
<1>1. /\ UNCHANGED <<address, calls, vaultContract, isExists, vaultLoading, shown>>
      /\ events' # 0 /\ createVault(u) /\ staffed' = staffed
  <2>1. events \in Nat
    BY DEF Owned, TypedPage, HomeTypeOK
  <2>2. createVault(u) /\ events' = events + 1
        /\ UNCHANGED <<address, calls, vaultContract, isExists, vaultLoading, shown>>
    BY DEF CreateVault
  <2>3. staffed' = staffed
    BY <2>2 DEF createVault
  <2>4. events' # 0
    BY <2>1, <2>2
  <2>5. QED
    BY <2>2, <2>3, <2>4
<1>2. /\ allVaults'[u] \in Vaults /\ allVaults'[u] \notin staffed'
      /\ \A w \in Users \ {u} : allVaults'[w] = allVaults[w]
  BY <1>1, OwnersCreate
<1>3. address \in Users /\ vaultContract \in Vaults \cup {Undefined}
  BY DEF Owned, TypedPage, HomeTypeOK
<1>4. CASE u # address
  <2>1. Mine' = Mine
    BY <1>1, <1>2, <1>3, <1>4 DEF Mine
  <2>2. OwnCalls' /\ (vaultLoading' => Asked("exists")')
    BY <1>1, <2>1 DEF OwnCalls, Asked, Right
  <2>3. Known' /\ StaffedKnown'
    BY <1>1, <2>1 DEF Known, StaffedKnown, Mounted, Right
  <2>4. QED
    BY <1>1, <2>2, <2>3 DEF Right
<1>5. CASE u = address
  <2>1. ~vaultLoading /\ ~isExists /\ Mine = Zero
    BY <1>5 DEF CreateVault, createVault, Mine
  <2>2. vaultContract = Undefined
    BY <1>3, <2>1, MasterAssumption DEF MasterAssumption, Right, Known
  <2>3. OwnCalls'
    BY <1>1, <2>1 DEF OwnCalls, Right
  <2>4. Known' /\ StaffedKnown'
    BY <1>1, <1>2, <1>5, <2>1, <2>2 DEF Known, StaffedKnown, Mine
  <2>5. QED
    BY <1>1, <2>1, <2>3, <2>4 DEF Right
<1>6. QED
  BY <1>4, <1>5

LEMMA RightAdd ==
  ASSUME Owned, Right, AddEmployee PROVE Right'
<1>1. /\ UNCHANGED <<address, calls, vaultContract, isExists, vaultLoading, events, allVaults>>
      /\ vaultContract # Undefined /\ shown' = vaultContract
  BY DEF AddEmployee, addEmployees
<1>2. Mine' = Mine /\ vaultContract = Mine
  BY <1>1 DEF Mine, Right, Known
<1>3. OwnCalls' /\ Known' /\ (vaultLoading' => Asked("exists")')
  BY <1>1, <1>2 DEF OwnCalls, Known, Asked, Right
<1>4. (ExistsSettles /\ VaultSettles) => (ExistsSettles' /\ VaultSettles')
  BY <1>1, <1>2 DEF ExistsSettles, VaultSettles, LastIsFresh, Asked
<1>5. StaffedKnown'
  BY <1>1, <1>2 DEF StaffedKnown
<1>6. QED
  BY <1>1, <1>3, <1>4, <1>5 DEF Right

LEMMA RightElsewhere ==
  ASSUME Owned, Right, Elsewhere PROVE Right'
<1>1. PICK u \in Users \ {address}, v \in Vaults : addEmployees(u, v)
  BY DEF Elsewhere
<1>2. /\ UNCHANGED <<address, calls, vaultContract, isExists, vaultLoading, events, shown, allVaults>>
      /\ staffed' = staffed \cup {v} /\ allVaults[u] = v
  BY <1>1 DEF Elsewhere, pageVars, addEmployees
<1>3. address \in Users /\ v # Zero
  BY MasterAssumption DEF MasterAssumption, Owned, TypedPage, HomeTypeOK
<1>4. Mine' = Mine /\ Mine # v
  BY <1>2, <1>3 DEF Mine, Owned, OneOwner
<1>5. OwnCalls' /\ Known' /\ (vaultLoading' => Asked("exists")')
  BY <1>2, <1>4 DEF OwnCalls, Known, Asked, Right
<1>6. (ExistsSettles /\ VaultSettles) => (ExistsSettles' /\ VaultSettles')
  BY <1>2, <1>4 DEF ExistsSettles, VaultSettles, LastIsFresh, Asked
<1>7. StaffedKnown'
  BY <1>2, <1>4 DEF StaffedKnown, Mounted, Right
<1>8. QED
  BY <1>2, <1>5, <1>6, <1>7 DEF Right

LEMMA RightIdle ==
  ASSUME Right, UNCHANGED homeVars PROVE Right'
<1>1. UNCHANGED <<address, calls, vaultContract, isExists, vaultLoading, events, shown, allVaults, staffed>>
  BY DEF homeVars, masterVars, pageVars
<1>2. Mine' = Mine /\ Mounted' = Mounted
  BY <1>1 DEF Mine, Mounted
<1>3. OwnCalls' /\ Known' /\ (vaultLoading' => Asked("exists")')
  BY <1>1, <1>2 DEF OwnCalls, Known, Asked, Right
<1>4. (ExistsSettles /\ VaultSettles) => (ExistsSettles' /\ VaultSettles')
  BY <1>1, <1>2 DEF ExistsSettles, VaultSettles, LastIsFresh, Asked
<1>5. StaffedKnown'
  BY <1>1, <1>2 DEF StaffedKnown, Right
<1>6. QED
  BY <1>1, <1>3, <1>4, <1>5 DEF Right

\* what keeps the listeners and failures as they are only has to keep the page right
LEMMA RightKept ==
  ASSUME PageRight, UNCHANGED <<listeners, address, errors>>, OwnListeners /\ Right => Right'
  PROVE  PageRight'
  BY DEF PageRight, Right, OwnListeners

LEMMA RightNext == Owned /\ PageRight /\ InOrder /\ [HomeNext]_homeVars => PageRight'
<1> SUFFICES ASSUME Owned, PageRight, InOrder, [HomeNext]_homeVars PROVE PageRight'
  OBVIOUS
<1>1. TypedPage'
  BY TypedNext DEF Owned
<1>2. ASSUME NEW a \in Users, SwitchAccount(a) PROVE PageRight'
  BY <1>2, RightSwitch
<1>3. ASSUME NEW u \in Users, CreateVault(u) PROVE PageRight'
  BY <1>3, RightCreate, RightKept DEF CreateVault
<1>4. ASSUME NEW i \in DOMAIN calls, Read(i) PROVE PageRight'
  BY <1>4, RightRead, RightKept DEF Read
<1>5. ASSUME NEW i \in DOMAIN calls, Return(i) PROVE PageRight'
  BY <1>5, RightReturn, RightKept DEF Return
<1>6. ASSUME NEW i \in DOMAIN calls, Fail(i) PROVE PageRight'
  BY <1>6, RightFail
<1>7. CASE VaultCreated
  BY <1>1, <1>7, RightEvent, RightKept DEF VaultCreated
<1>8. CASE AddEmployee
  BY <1>8, RightAdd, RightKept DEF AddEmployee
<1>9. CASE Elsewhere
  BY <1>9, RightElsewhere, RightKept DEF Elsewhere, pageVars
<1>10. CASE Reload
  BY <1>1, <1>10, RightReload
<1>11. CASE UNCHANGED homeVars
  BY <1>11, RightIdle, RightKept DEF homeVars, pageVars
<1>12. QED
  BY <1>2, <1>3, <1>4, <1>5, <1>6, <1>7, <1>8, <1>9, <1>10, <1>11 DEF HomeNext

LEMMA HomeInvHolds == InOrder => (HomeSpec => []HomeInv)
<1> SUFFICES ASSUME InOrder PROVE HomeSpec => []HomeInv
  OBVIOUS
<1>1. HomeInit => HomeInv
  BY OwnedInit, RightInit DEF Owned, HomeInv
<1>2. HomeInv /\ [HomeNext]_homeVars => HomeInv'
  BY OwnedNext, RightNext DEF Owned, HomeInv
<1>3. QED
  BY <1>1, <1>2, PTL DEF HomeSpec

(***************************************************************************)
(* When the answers come in the order of the questions, the page settles   *)
(* on the truth: with nothing under way it shows the Dashboard exactly if  *)
(* the connected account has a vault, and that vault, for every account    *)
(* and after any number of events and reloads (Home.js:68-87, 118-180).    *)
(***************************************************************************)
THEOREM SettlesOnTruth == InOrder => (HomeSpec => []Settled)
<1>1. HomeInv => Settled
  <2> SUFFICES ASSUME HomeInv, Quiet, errors = 0, OwnListeners
               PROVE  /\ Mounted <=> allVaults[address] # Zero
                      /\ Mounted => vaultContract = allVaults[address]
    BY DEF Settled
  <2>1. Right /\ ~Asked("exists") /\ ~Asked("vault") /\ events = 0
    BY DEF HomeInv, PageRight, Right, Quiet, Asked
  <2>2. QED
    BY <2>1 DEF Right, ExistsSettles, VaultSettles, Mounted, Mine
<1>2. QED
  BY <1>1, HomeInvHolds, PTL

(***************************************************************************)
(* With answers in that order, a Dashboard that has settled and loaded     *)
(* nothing stands for a vault without employees, so "No Employees Added."  *)
(* is true when it is shown (Dashboard.js:34-44 and 368).                  *)
(***************************************************************************)
THEOREM NoEmployeesTold == InOrder => (HomeSpec => []NoEmployeesIsTrue)
<1>1. HomeInv => NoEmployeesIsTrue
  <2> SUFFICES ASSUME HomeInv, Quiet, errors = 0, OwnListeners, Mounted, shown = Undefined,
                      vaultContract \in staffed
               PROVE  FALSE
    BY DEF NoEmployeesIsTrue
  <2>1. Right /\ ~Asked("exists") /\ ~Asked("vault") /\ events = 0
    BY DEF HomeInv, PageRight, Right, Quiet, Asked
  <2>2. vaultContract = Mine
    BY <2>1 DEF Right, ExistsSettles, VaultSettles, Mounted
  <2>3. QED
    BY <2>1, <2>2 DEF Right, StaffedKnown
<1>2. QED
  BY <1>1, HomeInvHolds, PTL
==============================================================================
