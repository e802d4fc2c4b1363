-------------------------- MODULE ControllersProofs --------------------------
(***************************************************************************)
(* Theorems about the bound controllers and the BLE scan, for every set of *)
(* controllers, every length of the list and any number of resets.         *)
(***************************************************************************)
EXTENDS Controllers, FiniteSetTheorems, TLAPS

-----------------------------------------------------------------------------
(* The operators on the list.                                               *)

LEMMA NLApart == \A c \in Macs : c # NL
  BY ControllersAssumption

LEMMA EmptyList ==
    <<>> \in Seq(Tokens) /\ OneToALine(<<>>) /\ reported(<<>>) = {}
<1>1. <<>> \in Seq(Tokens) /\ DOMAIN <<>> = {}
  OBVIOUS
<1>2. QED
  BY <1>1 DEF OneToALine, reported

\* In a list with an address at every odd place, every address is a line of its
\* own, and no line before it is empty: the search of the scan task and the
\* report of the web task find the same.
LEMMA Found ==
    ASSUME NEW s \in Seq(Tokens), OneToALine(s), NEW c \in Macs
    PROVE  /\ hasWakeAddr(s, c) <=> \E i \in DOMAIN s : s[i] = c
           /\ c \in reported(s) <=> \E i \in DOMAIN s : s[i] = c
<1>1. DOMAIN s = 1 .. Len(s) /\ Len(s) \in Nat
  OBVIOUS
<1>2. /\ s = <<>> \/ Len(s) % 2 = 1
      /\ \A i \in DOMAIN s : s[i] = NL <=> i % 2 = 0
  BY DEF OneToALine
<1>3. ASSUME NEW i \in DOMAIN s, s[i] = c
      PROVE  lineAt(s, i, c) /\ \A j \in 1 .. i - 1 : ~emptyLineAt(s, j)
  <2>1. i % 2 # 0
    BY <1>2, <1>3, NLApart
  <2>2. beginsLine(s, i)
    <3>1. CASE i # 1
      <4>1. i - 1 \in DOMAIN s /\ (i - 1) % 2 = 0
        BY <1>1, <2>1, <3>1
      <4>2. QED
        BY <1>2, <4>1 DEF beginsLine
    <3>2. QED
      BY <3>1 DEF beginsLine
  <2>3. endsLine(s, i)
    <3>1. CASE i # Len(s)
      <4>1. i + 1 \in DOMAIN s /\ (i + 1) % 2 = 0
        BY <1>1, <2>1, <3>1
      <4>2. QED
        BY <1>2, <4>1 DEF endsLine
    <3>2. QED
      BY <3>1 DEF endsLine
  <2>4. ASSUME NEW j \in 1 .. i - 1
        PROVE  ~emptyLineAt(s, j)
    <3>1. j \in DOMAIN s
      BY <1>1
    <3>2. CASE s[j] # NL
      BY <3>2 DEF emptyLineAt
    <3>3. CASE s[j] = NL
      <4>1. j % 2 = 0
        BY <1>2, <3>1, <3>3
      <4>2. j # 1 /\ j - 1 \in DOMAIN s /\ (j - 1) % 2 # 0
        BY <1>1, <3>1, <4>1
      <4>3. QED
        BY <1>2, <4>2 DEF emptyLineAt, beginsLine
    <3>4. QED
      BY <3>2, <3>3
  <2>5. QED
    BY <1>3, <2>2, <2>3, <2>4 DEF lineAt
<1>4. hasWakeAddr(s, c) <=> \E i \in DOMAIN s : s[i] = c
  BY <1>3 DEF hasWakeAddr, lineAt
<1>5. c \in reported(s) <=> \E i \in DOMAIN s : s[i] = c
  BY <1>3 DEF reported, lineAt
<1>6. QED
  BY <1>4, <1>5

\* Adding puts the address on a line of its own, unless it has one.
LEMMA Added ==
    ASSUME NEW s \in Seq(Tokens), OneToALine(s), NEW c \in Macs
    PROVE  /\ addWakeAddr(s, c) \in Seq(Tokens) /\ OneToALine(addWakeAddr(s, c))
           /\ addWakeAddr(s, c) # <<>>
           /\ reported(addWakeAddr(s, c)) = reported(s) \cup {c}
<1> DEFINE t == addWakeAddr(s, c)
<1>1. DOMAIN s = 1 .. Len(s) /\ Len(s) \in Nat /\ c \in Tokens /\ NL \in Tokens
  BY DEF Tokens
<1>2. /\ s = <<>> \/ Len(s) % 2 = 1
      /\ \A i \in DOMAIN s : s[i] = NL <=> i % 2 = 0
      /\ \A i, j \in DOMAIN s : s[i] = s[j] /\ s[i] # NL => i = j
  BY DEF OneToALine
<1>3. CASE hasWakeAddr(s, c)
  <2>1. t = s /\ \E i \in DOMAIN s : s[i] = c
    BY <1>3, Found DEF addWakeAddr
  <2>2. s # <<>> /\ c \in reported(s)
    BY <2>1, Found
  <2>3. QED
    BY <2>1, <2>2
<1>4. CASE ~hasWakeAddr(s, c)
  <2>1. \A i \in DOMAIN s : s[i] # c
    BY <1>4, Found
  <2>2. CASE s = <<>>
    <3>1. t = <<c>>
      BY <1>4, <2>2 DEF addWakeAddr, separator
    <3>2. t \in Seq(Tokens) /\ Len(t) = 1 /\ t[1] = c /\ DOMAIN t = {1} /\ t # <<>>
      BY <1>1, <3>1
    <3>3. OneToALine(t)
      BY <3>2, NLApart DEF OneToALine
    <3>4. reported(t) = {c}
      <4>1. \A d \in Macs : d \in reported(t) <=> d = c
        BY <3>2, <3>3, Found
      <4>2. QED
        BY <4>1 DEF reported
    <3>5. QED
      BY <2>2, <3>2, <3>3, <3>4, EmptyList
  <2>3. CASE s # <<>>
    <3>1. t = s \o <<NL>> \o <<c>>
      BY <1>4, <2>3 DEF addWakeAddr, separator
    <3>2. /\ t \in Seq(Tokens) /\ Len(t) = Len(s) + 2 /\ t # <<>>
          /\ \A i \in 1 .. Len(s) : t[i] = s[i]
          /\ t[Len(s) + 1] = NL /\ t[Len(s) + 2] = c
      BY <1>1, <3>1
    <3>3. /\ DOMAIN t = 1 .. Len(s) + 2
          /\ \A i \in DOMAIN t : i \in 1 .. Len(s) \/ i = Len(s) + 1 \/ i = Len(s) + 2
      BY <1>1, <3>2
    <3>4. Len(s) % 2 = 1 /\ (Len(s) + 1) % 2 = 0 /\ (Len(s) + 2) % 2 = 1
      BY <1>1, <1>2, <2>3
    <3>5. Len(t) % 2 = 1
      BY <3>2, <3>4
    <3>6. \A i \in DOMAIN t : t[i] = NL <=> i % 2 = 0
      BY <1>1, <1>2, <3>2, <3>3, <3>4, NLApart
    <3>7. \A i, j \in DOMAIN t : t[i] = t[j] /\ t[i] # NL => i = j
      BY <1>1, <1>2, <2>1, <3>2, <3>3
    <3>8. OneToALine(t)
      BY <3>5, <3>6, <3>7 DEF OneToALine
    <3>9. reported(t) = reported(s) \cup {c}
      <4>1. \A d \in Macs : (\E i \in DOMAIN t : t[i] = d)
                              <=> d = c \/ \E i \in DOMAIN s : s[i] = d
        BY <1>1, <3>2, <3>3, NLApart
      <4>2. \A d \in Macs : d \in reported(t) <=> d = c \/ d \in reported(s)
        BY <3>2, <3>8, <4>1, Found
      <4>3. QED
        BY <4>2 DEF reported
    <3>10. QED
      BY <3>2, <3>8, <3>9
  <2>4. QED
    BY <2>2, <2>3
<1>5. QED
  BY <1>3, <1>4

\* Counting the members of a finite set of numbers from below reaches each number
\* up to its cardinality at one member and no other.
LEMMA Ranks ==
    ASSUME NEW K \in SUBSET Nat, IsFiniteSet(K)
    PROVE  /\ Cardinality(K) \in Nat
           /\ \A i \in K : Cardinality({j \in K : j <= i}) \in 1 .. Cardinality(K)
           /\ \A i \in K : nth(K, Cardinality({j \in K : j <= i})) = i
           /\ \A n \in 1 .. Cardinality(K) :
                 nth(K, n) \in K /\ Cardinality({j \in K : j <= nth(K, n)}) = n
<1> DEFINE upTo(i) == {j \in K : j <= i}
           N == Cardinality(K)
           rank == [i \in K |-> Cardinality(upTo(i))]
<1>1. N \in Nat /\ IsFiniteSet(1 .. N) /\ Cardinality(1 .. N) = N
  <2>1. N \in Nat
    BY FS_CardinalityType
  <2>2. IsFiniteSet(1 .. N) /\ Cardinality(1 .. N) = IF 1 > N THEN 0 ELSE N - 1 + 1
    BY <2>1, FS_Interval
  <2>3. QED
    BY <2>1, <2>2
<1>2. ASSUME NEW i \in K
      PROVE  IsFiniteSet(upTo(i)) /\ Cardinality(upTo(i)) \in 1 .. N
  <2>1. upTo(i) \in SUBSET K /\ i \in upTo(i)
    OBVIOUS
  <2>2. IsFiniteSet(upTo(i)) /\ Cardinality(upTo(i)) <= N
    BY <2>1, FS_Subset
  <2>3. Cardinality(upTo(i)) \in Nat /\ Cardinality(upTo(i)) # 0
    BY <2>1, <2>2, FS_CardinalityType, FS_EmptySet
  <2>4. QED
    BY <1>1, <2>2, <2>3
<1>3. ASSUME NEW i \in K, NEW k \in K, Cardinality(upTo(i)) = Cardinality(upTo(k)), i < k
      PROVE  FALSE
  <2>1. upTo(i) \in SUBSET upTo(k) /\ k \in upTo(k) /\ k \notin upTo(i)
    <3>1. i \in Nat /\ k \in Nat /\ i < k
      BY <1>3
    <3>2. \A j \in K : j \in Nat /\ (j <= i => j <= k)
      BY <3>1
    <3>3. k <= k /\ ~(k <= i)
      BY <3>1
    <3>4. QED
      BY <3>2, <3>3
  <2>2. IsFiniteSet(upTo(k))
    BY <1>2
  <2>3. upTo(k) = upTo(i)
    BY <1>3, <2>1, <2>2, FS_Subset
  <2>4. QED
    BY <2>1, <2>3
<1>4. \A i, k \in K : Cardinality(upTo(i)) = Cardinality(upTo(k)) => i = k
  <2> SUFFICES ASSUME NEW i \in K, NEW k \in K, Cardinality(upTo(i)) = Cardinality(upTo(k))
               PROVE  i = k
    OBVIOUS
  <2>1. i < k \/ k < i \/ i = k
    OBVIOUS
  <2>2. QED
    BY <1>3, <2>1
<1>5. rank \in Injection(K, 1 .. N)
  <2>1. rank \in [K -> 1 .. N]
    BY <1>2
  <2>2. IsInjective(rank)
    BY <1>4 DEF IsInjective
  <2>3. QED
    BY <2>1, <2>2 DEF Injection
<1>6. rank \in Surjection(K, 1 .. N)
  BY <1>1, <1>5, FS_Injection
<1>7. ASSUME NEW n \in 1 .. N
      PROVE  nth(K, n) \in K /\ Cardinality(upTo(nth(K, n))) = n
  <2>1. \E i \in K : rank[i] = n
    BY <1>6 DEF Surjection
  <2>2. \E i \in K : Cardinality(upTo(i)) = n
    BY <2>1
  <2>3. QED
    BY <2>2 DEF nth
<1>8. ASSUME NEW i \in K
      PROVE  nth(K, Cardinality(upTo(i))) = i
  <2>1. nth(K, Cardinality(upTo(i))) \in K
        /\ Cardinality(upTo(nth(K, Cardinality(upTo(i))))) = Cardinality(upTo(i))
    BY <1>2, <1>7
  <2>2. QED
    BY <1>4, <2>1
<1>9. QED
  BY <1>1, <1>2, <1>7, <1>8

\* The half of an odd place, rounded up, tells which place it is.
LEMMA OddPlace ==
    ASSUME NEW n \in Nat, n % 2 = 1
    PROVE  n = 2 * ((n + 1) \div 2) - 1
  OBVIOUS

\* Removing leaves every other address on a line of its own, and nothing else.
LEMMA Removed ==
    ASSUME NEW s \in Seq(Tokens), OneToALine(s), NEW c \in Macs
    PROVE  /\ without(s, c) \in Seq(Tokens) /\ OneToALine(without(s, c))
           /\ reported(without(s, c)) = reported(s) \ {c}
<1> DEFINE t == without(s, c)
           K == others(s, c)
           N == Cardinality(K)
           rank(i) == Cardinality({j \in K : j <= i})
<1>1. DOMAIN s = 1 .. Len(s) /\ Len(s) \in Nat /\ \A i \in DOMAIN s : s[i] \in Macs \cup {NL}
  BY DEF Tokens
<1>2. /\ \A i \in DOMAIN s : s[i] = NL <=> i % 2 = 0
      /\ \A i, j \in DOMAIN s : s[i] = s[j] /\ s[i] # NL => i = j
  BY DEF OneToALine
<1>3. K \in SUBSET Nat /\ IsFiniteSet(K)
  <2>1. K \in SUBSET (1 .. Len(s))
    BY <1>1 DEF others
  <2>2. IsFiniteSet(1 .. Len(s))
    BY <1>1, FS_Interval
  <2>3. IsFiniteSet(K)
    BY <2>1, <2>2, FS_Subset
  <2>4. QED
    BY <1>1, <2>1, <2>3
<1>4. \A i \in DOMAIN s : i \in K <=> s[i] \in Macs /\ s[i] # c
  BY <1>1, NLApart DEF others
<1>5. K \subseteq DOMAIN s
  BY DEF others
<1>6. /\ N \in Nat
      /\ \A i \in K : rank(i) \in 1 .. N /\ nth(K, rank(i)) = i
      /\ \A n \in 1 .. N : nth(K, n) \in K /\ rank(nth(K, n)) = n
  BY <1>3, Ranks
<1>7. t = [n \in 1 .. 2 * N - 1 |-> IF n % 2 = 1 THEN s[nth(K, (n + 1) \div 2)] ELSE NL]
  BY DEF without
<1> HIDE DEF t, K, N, rank
<1>8. \A n \in 1 .. 2 * N - 1 : n % 2 \in {0, 1} /\ (n % 2 = 1 => (n + 1) \div 2 \in 1 .. N)
  BY <1>6
<1>9. \A n \in 1 .. 2 * N - 1 :
         /\ n % 2 = 1 => t[n] = s[nth(K, (n + 1) \div 2)] /\ t[n] \in Macs \ {c}
         /\ n % 2 = 0 => t[n] = NL
  <2> SUFFICES ASSUME NEW n \in 1 .. 2 * N - 1
               PROVE  /\ n % 2 = 1 => t[n] = s[nth(K, (n + 1) \div 2)] /\ t[n] \in Macs \ {c}
                      /\ n % 2 = 0 => t[n] = NL
    OBVIOUS
  <2>1. t[n] = IF n % 2 = 1 THEN s[nth(K, (n + 1) \div 2)] ELSE NL
    BY <1>7
  <2>2. n % 2 = 1 => nth(K, (n + 1) \div 2) \in K
    BY <1>6, <1>8
  <2>3. QED
    BY <1>4, <1>5, <2>1, <2>2
<1>10. DOMAIN t = 1 .. 2 * N - 1
  BY <1>7
<1>11. t \in Seq(Tokens) /\ (t = <<>> \/ Len(t) % 2 = 1)
  <2>1. CASE N = 0
    <3>1. 1 .. 2 * N - 1 = 1 .. 0
      BY <2>1
    <3>2. t = [n \in 1 .. 0 |-> t[n]]
      BY <1>7, <3>1
    <3>3. \A n \in 1 .. 0 : t[n] \in Tokens
      OBVIOUS
    <3>4. t \in Seq(Tokens) /\ DOMAIN t = 1 .. 0
      BY <3>2, <3>3
    <3>5. QED
      BY <3>4
  <2>2. CASE N # 0
    <3>1. 2 * N - 1 \in Nat /\ (2 * N - 1) % 2 = 1
      BY <1>6, <2>2
    <3>2. \A n \in 1 .. 2 * N - 1 : t[n] \in Tokens
      BY <1>8, <1>9 DEF Tokens
    <3>3. t = [n \in 1 .. 2 * N - 1 |-> t[n]]
      BY <1>7
    <3>4. t \in Seq(Tokens)
      BY <3>1, <3>2, <3>3
    <3>5. Len(t) = 2 * N - 1
      BY <1>10, <3>1, <3>4
    <3>6. QED
      BY <3>1, <3>4, <3>5
  <2>3. QED
    BY <2>1, <2>2
<1>12. OneToALine(t)
  <2>1. \A n \in DOMAIN t : t[n] = NL <=> n % 2 = 0
    BY <1>8, <1>9, <1>10, NLApart
  <2>2. ASSUME NEW m \in DOMAIN t, NEW n \in DOMAIN t, t[m] = t[n], t[m] # NL
        PROVE  m = n
    <3>1. m % 2 = 1 /\ n % 2 = 1
      BY <1>8, <1>10, <2>1, <2>2
    <3> DEFINE a == (m + 1) \div 2
               b == (n + 1) \div 2
    <3>2. a \in 1 .. N /\ b \in 1 .. N
      BY <1>8, <1>10, <3>1
    <3>3. s[nth(K, a)] = s[nth(K, b)] /\ s[nth(K, a)] # NL
      BY <1>9, <1>10, <2>2, <3>1
    <3>4. nth(K, a) \in K /\ nth(K, b) \in K
      BY <1>6, <3>2
    <3>5. nth(K, a) = nth(K, b)
      BY <1>2, <1>5, <3>3, <3>4
    <3>6. a = b
      BY <1>6, <3>2, <3>5
    <3>7. m \in Nat /\ n \in Nat
      BY <1>6, <1>10
    <3>8. m = 2 * a - 1 /\ n = 2 * b - 1
      BY <3>1, <3>7, OddPlace
    <3>9. QED
      BY <3>6, <3>8
  <2>3. QED
    BY <1>11, <2>1, <2>2 DEF OneToALine
<1>13. \A d \in Macs : (\E n \in DOMAIN t : t[n] = d) <=> d # c /\ \E i \in DOMAIN s : s[i] = d
  <2> SUFFICES ASSUME NEW d \in Macs
               PROVE  (\E n \in DOMAIN t : t[n] = d) <=> d # c /\ \E i \in DOMAIN s : s[i] = d
    OBVIOUS
  <2>1. ASSUME NEW n \in DOMAIN t, t[n] = d
        PROVE  d # c /\ \E i \in DOMAIN s : s[i] = d
    <3>1. n % 2 = 1
      BY <1>8, <1>9, <1>10, <2>1, NLApart
    <3>2. d # c /\ d = s[nth(K, (n + 1) \div 2)] /\ nth(K, (n + 1) \div 2) \in K
      BY <1>6, <1>8, <1>9, <1>10, <2>1, <3>1
    <3>3. QED
      BY <1>5, <3>2
  <2>2. ASSUME NEW i \in DOMAIN s, s[i] = d, d # c
        PROVE  \E n \in DOMAIN t : t[n] = d
    <3>1. i \in K
      BY <1>4, <2>2
    <3>2. rank(i) \in 1 .. N /\ nth(K, rank(i)) = i
      BY <1>6, <3>1
    <3>3. 2 * rank(i) - 1 \in 1 .. 2 * N - 1 /\ (2 * rank(i) - 1) % 2 = 1
          /\ ((2 * rank(i) - 1) + 1) \div 2 = rank(i)
      BY <1>6, <3>2
    <3>4. t[2 * rank(i) - 1] = s[nth(K, rank(i))]
      BY <1>9, <3>3
    <3>5. QED
      BY <1>10, <2>2, <3>2, <3>3, <3>4
  <2>3. QED
    BY <2>1, <2>2
<1>14. reported(t) = reported(s) \ {c}
  <2>1. \A d \in Macs : d \in reported(t) <=> d # c /\ d \in reported(s)
    BY <1>11, <1>12, <1>13, Found
  <2>2. QED
    BY <2>1 DEF reported
<1>15. QED
  BY <1>11, <1>12, <1>14 DEF t

\* A list with one address to a line reads as a set.
LEMMA ReadsAsSet ==
    ASSUME NEW s \in Seq(Tokens), OneToALine(s)
    PROVE  /\ \A c \in Macs : hasWakeAddr(s, c) <=> c \in reported(s)
           /\ Cardinality(reported(s)) = Cardinality({i \in DOMAIN s : s[i] # NL})
<1> DEFINE places == {i \in DOMAIN s : s[i] # NL}
           f == [i \in places |-> s[i]]
<1>1. \A c \in Macs : hasWakeAddr(s, c) <=> c \in reported(s)
  BY Found
<1>2. IsFiniteSet(places)
  <2>1. DOMAIN s = 1 .. Len(s) /\ Len(s) \in Nat
    OBVIOUS
  <2>2. IsFiniteSet(DOMAIN s)
    BY <2>1, FS_Interval
  <2>3. QED
    BY <2>2, FS_Subset
<1>3. \A i \in DOMAIN s : s[i] \in Macs \cup {NL}
  BY DEF Tokens
<1>4. \A i \in places : s[i] \in reported(s)
  BY <1>3, Found
<1>5. f \in [places -> reported(s)]
  BY <1>4
<1>6. IsInjective(f)
  BY DEF IsInjective, OneToALine
<1>7. \A c \in reported(s) : \E i \in places : f[i] = c
  <2>1. \A c \in reported(s) : c \in Macs /\ c # NL
    BY NLApart DEF reported
  <2>2. QED
    BY <2>1, Found
<1>8. f \in Bijection(places, reported(s))
  BY <1>5, <1>6, <1>7 DEF Bijection, Injection, Surjection
<1>9. ExistsBijection(places, reported(s))
  BY <1>8 DEF ExistsBijection
<1>10. QED
  BY <1>1, <1>2, <1>9, FS_Bijection

-----------------------------------------------------------------------------
(* The inductive invariant, one lemma for each step or group of steps that  *)
(* disturbs the same parts of it.                                           *)

Lists == <<wakeAddrs, nvsAddrs, nvsLegacy, owned>>

\* A step that leaves the lists alone while the web server is up.
LEMMA SameLists ==
    ASSUME ListsInv, BoundInv, UNCHANGED Lists, ServerUp, ServerUp', wpc' # "store" => wpc # "store"
    PROVE  ListsInv' /\ BoundInv'
<1>1. ListsInv'
  BY DEF ListsInv, Lists, ServerUp, OneToALine, migrating
<1>2. NextBoot' = NextBoot /\ reported(wakeAddrs)' = reported(wakeAddrs)
  BY DEF Lists, NextBoot, migrating, reported, lineAt, beginsLine, endsLine
<1>3. BoundInv'
  BY <1>2 DEF BoundInv, BoundIsStored, Lists, ServerUp
<1>4. QED
  BY <1>1, <1>3

LEMMA ControllersInit ==
    ASSUME Init
    PROVE  ControllersInv
<1>1. PICK c \in Macs, d \in Macs : nvsAddrs \in {<<>>, <<c>>, addWakeAddr(<<c>>, d)}
  BY DEF Init
<1>2. \A e \in Macs : <<e>> \in Seq(Tokens) /\ OneToALine(<<e>>)
  <2> SUFFICES ASSUME NEW e \in Macs
               PROVE  <<e>> \in Seq(Tokens) /\ OneToALine(<<e>>)
    OBVIOUS
  <2>1. <<e>> \in Seq(Tokens) /\ Len(<<e>>) = 1 /\ <<e>>[1] = e /\ DOMAIN <<e>> = {1}
    BY DEF Tokens
  <2>2. QED
    BY <2>1, NLApart DEF OneToALine
<1>3. nvsAddrs \in Seq(Tokens) /\ OneToALine(nvsAddrs)
  BY <1>1, <1>2, EmptyList, Added
<1>4. nvsLegacy \in Seq(Tokens) /\ OneToALine(nvsLegacy)
  BY <1>2, EmptyList DEF Init
<1>5. wakeAddrs \in Seq(Tokens) /\ OneToALine(wakeAddrs)
  BY EmptyList DEF Init
<1>6. IsFiniteSet(devs) /\ Cardinality(devs) = 0
  BY FS_EmptySet DEF Init
<1>7. 0 \in 0 .. WRAP - 1 /\ 0 \in 0 .. MaxResets /\ 0 <= MAX_DEVS
  BY ControllersAssumption, WrapAssumption
<1>8. owned \subseteq Macs
  BY DEF Init, reported
<1>9. TypeOK
  BY <1>3, <1>4, <1>5, <1>6, <1>7, <1>8 DEF Init, TypeOK
<1>10. ListsInv
  BY <1>3, <1>4, <1>5 DEF Init, ListsInv
<1>11. owned \subseteq NextBoot
  <2>1. nvsAddrs \o <<>> = nvsAddrs /\ <<>> \o nvsLegacy = nvsLegacy
    BY <1>3, <1>4
  <2>2. CASE nvsAddrs = <<>> /\ nvsLegacy # <<>>
    BY <2>1, <2>2 DEF Init, NextBoot, migrating
  <2>3. CASE nvsLegacy = <<>>
    BY <2>1, <2>3 DEF Init, NextBoot, migrating
  <2>4. QED
    BY <2>2, <2>3 DEF Init
<1>12. BoundInv
  BY <1>11 DEF Init, BoundInv, BoundIsStored
<1>13. WakeInv
  BY DEF Init, WakeInv, ServerUp
<1>14. QED
  BY <1>6, <1>9, <1>10, <1>12, <1>13 DEF ControllersInv

\* A reset finds in NVS what the user bound.
LEMMA ResetInv ==
    ASSUME ControllersInv, Reset
    PROVE  ControllersInv'
<1>1. TypeOK /\ ListsInv /\ BoundInv
  BY DEF ControllersInv
<1>2. resets' \in 0 .. MaxResets /\ time' \in 0 .. WRAP - 1 /\ g_pickerLastRequest' \in 0 .. WRAP - 1
  BY <1>1, ControllersAssumption, WrapAssumption DEF Reset, TypeOK
<1>3. devs' = {} /\ IsFiniteSet(devs') /\ Cardinality(devs') = 0 /\ 0 <= MAX_DEVS
  BY FS_EmptySet, ControllersAssumption DEF Reset
<1>4. TypeOK'
  BY <1>1, <1>2, <1>3, EmptyList DEF Reset, TypeOK, nvsVars
<1>5. ListsInv'
  BY <1>1, EmptyList DEF Reset, ListsInv, nvsVars
<1>6. NextBoot' = NextBoot
  BY DEF Reset, nvsVars, NextBoot, migrating
<1>7. BoundInv'
  BY <1>1, <1>6 DEF Reset, BoundInv, BoundIsStored
<1>8. WakeInv'
  BY DEF Reset, WakeInv, ServerUp
<1>9. QED
  BY <1>3, <1>4, <1>5, <1>7, <1>8 DEF ControllersInv

\* A boot loads what the next boot was to load, and folds the old key in.
LEMMA BootInv ==
    ASSUME ControllersInv, boot
    PROVE  ControllersInv'
<1>1. /\ TypeOK /\ ListsInv /\ BoundInv /\ WakeInv /\ IsFiniteSet(devs)
      /\ wpc = "idle" /\ ~g_pickerActive
  BY DEF ControllersInv, WakeInv, ServerUp, boot, loopStep, loadConfig, foldLegacy, dropLegacy,
         beginScan
<1>2. owned \subseteq NextBoot
  BY <1>1 DEF BoundInv, BoundIsStored
<1>3. CASE loadConfig
  <2>1. /\ lpc = "load" /\ lpc' = IF migrating THEN "fold" ELSE "begin"
        /\ wakeAddrs' = IF migrating THEN nvsLegacy ELSE nvsAddrs
        /\ UNCHANGED <<time, resets, devs, rebooting, wpc, wasEmpty, owned, unbound, nvsAddrs,
                       nvsLegacy, scan, g_bleScanStarted, g_pickerActive, g_pickerLastRequest>>
    BY <1>3 DEF loadConfig, loopStep, histVars, nvsVars, radioVars, pickerVars
  <2>2. TypeOK'
    BY <1>1, <2>1 DEF TypeOK
  <2>3. ListsInv'
    BY <1>1, <2>1 DEF ListsInv, OneToALine, migrating
  <2>4. BoundInv'
    BY <1>2, <2>1 DEF BoundInv, BoundIsStored, NextBoot, migrating
  <2>5. WakeInv'
    BY <1>1, <2>1 DEF WakeInv, ServerUp
  <2>6. QED
    BY <1>1, <2>1, <2>2, <2>3, <2>4, <2>5 DEF ControllersInv
<1>4. CASE foldLegacy
  <2>1. /\ lpc = "fold" /\ lpc' = "drop" /\ nvsAddrs' = wakeAddrs
        /\ UNCHANGED <<time, resets, devs, rebooting, wpc, wasEmpty, owned, unbound, wakeAddrs,
                       nvsLegacy, scan, g_bleScanStarted, g_pickerActive, g_pickerLastRequest>>
    BY <1>4 DEF foldLegacy, loopStep, histVars, nvsVars, radioVars, pickerVars
  <2>2. TypeOK'
    BY <1>1, <2>1 DEF TypeOK
  <2>3. ListsInv'
    BY <1>1, <2>1 DEF ListsInv, OneToALine, migrating
  <2>4. BoundInv'
    BY <1>1, <1>2, <2>1 DEF ListsInv, BoundInv, BoundIsStored, NextBoot, migrating
  <2>5. WakeInv'
    BY <1>1, <2>1 DEF WakeInv, ServerUp
  <2>6. QED
    BY <1>1, <2>1, <2>2, <2>3, <2>4, <2>5 DEF ControllersInv
<1>5. CASE dropLegacy
  <2>1. /\ lpc = "drop" /\ lpc' = "begin" /\ nvsLegacy' = <<>>
        /\ UNCHANGED <<time, resets, devs, rebooting, wpc, wasEmpty, owned, unbound, wakeAddrs,
                       nvsAddrs, scan, g_bleScanStarted, g_pickerActive, g_pickerLastRequest>>
    BY <1>5 DEF dropLegacy, loopStep, histVars, nvsVars, radioVars, pickerVars
  <2>2. TypeOK'
    BY <1>1, <2>1, EmptyList DEF TypeOK
  <2>3. ListsInv'
    BY <1>1, <2>1, EmptyList DEF ListsInv, OneToALine
  <2>4. BoundInv'
    BY <1>1, <1>2, <2>1 DEF ListsInv, BoundInv, BoundIsStored, NextBoot, migrating
  <2>5. WakeInv'
    BY <1>1, <2>1 DEF WakeInv, ServerUp
  <2>6. QED
    BY <1>1, <2>1, <2>2, <2>3, <2>4, <2>5 DEF ControllersInv
<1>6. CASE beginScan
  <2>1. /\ lpc = "begin" /\ lpc' = "check"
        /\ IF wakeAddrs # <<>> THEN scan' = "wake" /\ g_bleScanStarted' = TRUE
                               ELSE UNCHANGED <<scan, g_bleScanStarted>>
        /\ UNCHANGED <<time, resets, devs, rebooting, wpc, wasEmpty, owned, unbound, wakeAddrs,
                       nvsAddrs, nvsLegacy, g_pickerActive, g_pickerLastRequest>>
    BY <1>6 DEF beginScan, takeScanForWake, loopStep, histVars, nvsVars, radioVars, pickerVars
  <2>2. TypeOK'
    BY <1>1, <2>1 DEF TypeOK
  <2>3. ListsInv'
    BY <1>1, <2>1 DEF ListsInv, OneToALine
  <2>4. BoundInv'
    BY <1>1, <1>2, <2>1 DEF BoundInv, BoundIsStored, NextBoot, migrating
  <2>5. WakeInv'
    BY <1>1, <2>1 DEF WakeInv, ServerUp
  <2>6. QED
    BY <1>1, <2>1, <2>2, <2>3, <2>4, <2>5 DEF ControllersInv
<1>7. QED
  BY <1>3, <1>4, <1>5, <1>6 DEF boot

\* The loop task ends an idle picker: from the step that lets it go until the
\* wake scan is back, the place in endPickerScan says so.
LEMMA EndPickerInv ==
    ASSUME ControllersInv, checkPicker \/ endPickerScan
    PROVE  ControllersInv'
<1>1. TypeOK /\ ListsInv /\ BoundInv /\ WakeInv /\ IsFiniteSet(devs)
  BY DEF ControllersInv
<1>2. \E from, to : loopStep(from, to) /\ from \notin {"load", "fold", "drop", "begin"}
                    /\ to \in {"check", "stop", "release", "forget", "resume", "restart"}
  BY DEF checkPicker, endPickerScan, stopPicker, releasePicker, forgetRequest, resumeTest,
         resumeScan
<1>3. /\ ServerUp /\ ServerUp'
      /\ lpc' \in {"check", "stop", "release", "forget", "resume", "restart"}
      /\ UNCHANGED <<time, resets, devs, rebooting, wpc, wasEmpty, owned, unbound>>
  BY <1>2 DEF loopStep, ServerUp, histVars
<1>4. UNCHANGED <<wakeAddrs, nvsAddrs, nvsLegacy>>
  BY DEF checkPicker, endPickerScan, stopPicker, releasePicker, forgetRequest, resumeTest,
         resumeScan, nvsVars
<1>5. ListsInv' /\ BoundInv'
  BY <1>1, <1>3, <1>4, SameLists DEF Lists
<1>6. /\ scan' \in {"none", "wake", "picker"}
      /\ {g_bleScanStarted', g_pickerActive'} \subseteq BOOLEAN
  BY <1>1 DEF TypeOK, checkPicker, endPickerScan, stopPicker, releasePicker, forgetRequest,
         resumeTest, resumeScan, takeScanForWake, radioVars, pickerVars
<1>7. g_pickerLastRequest' \in 0 .. WRAP - 1
  <2>1. 0 \in 0 .. WRAP - 1
    BY WrapAssumption
  <2>2. QED
    BY <1>1, <2>1 DEF TypeOK, checkPicker, endPickerScan, stopPicker, releasePicker,
       forgetRequest, resumeTest, resumeScan, pickerVars
<1>8. TypeOK'
  BY <1>1, <1>3, <1>4, <1>6, <1>7 DEF TypeOK
<1>9. WakeInv'
  <2>1. CASE checkPicker
    BY <1>1, <1>3, <1>4, <2>1
       DEF WakeInv, checkPicker, pickerIdle, loopStep, radioVars, pickerVars
  <2>2. CASE stopPicker
    BY <1>1, <1>3, <1>4, <2>2 DEF WakeInv, stopPicker, loopStep, pickerVars
  <2>3. CASE releasePicker
    BY <1>1, <1>3, <1>4, <2>3 DEF WakeInv, releasePicker, loopStep
  <2>4. CASE forgetRequest
    BY <1>1, <1>3, <1>4, <2>4 DEF WakeInv, forgetRequest, loopStep, radioVars
  <2>5. CASE resumeTest
    BY <1>1, <1>3, <1>4, <2>5 DEF WakeInv, resumeTest, loopStep, radioVars, pickerVars
  <2>6. CASE resumeScan
    BY <1>1, <1>3, <1>4, <2>6 DEF WakeInv, resumeScan, takeScanForWake, loopStep, pickerVars
  <2>7. QED
    BY <2>1, <2>2, <2>3, <2>4, <2>5, <2>6 DEF endPickerScan
<1>10. QED
  BY <1>1, <1>3, <1>5, <1>8, <1>9 DEF ControllersInv

\* The picker hears a device; time passes.
LEMMA OutsideInv ==
    ASSUME ControllersInv, (\E c \in Macs : onResult(c)) \/ Tick
    PROVE  ControllersInv'
<1>1. TypeOK /\ ListsInv /\ BoundInv /\ WakeInv /\ IsFiniteSet(devs)
  BY DEF ControllersInv
<1>2. UNCHANGED <<resets, wakeAddrs, nvsAddrs, nvsLegacy, scan, g_bleScanStarted, g_pickerActive,
                  g_pickerLastRequest, rebooting, lpc, wpc, wasEmpty, owned, unbound>>
  BY DEF onResult, Tick, nvsVars, radioVars, pickerVars, histVars
<1>3. time' \in 0 .. WRAP - 1
  <2>1. time \in 0 .. WRAP - 1 /\ (time' = time \/ time' = (time + 1) % WRAP)
    BY <1>1 DEF TypeOK, onResult, Tick
  <2>2. \A n \in Nat : n % WRAP \in 0 .. WRAP - 1
    BY WrapAssumption
  <2>3. time + 1 \in Nat
    BY <2>1, WrapAssumption
  <2>4. QED
    BY <2>1, <2>2, <2>3
<1>4. devs' \subseteq Macs /\ IsFiniteSet(devs') /\ Cardinality(devs') <= MAX_DEVS
  <2>1. CASE Tick
    BY <1>1, <2>1 DEF TypeOK, Tick
  <2>2. ASSUME NEW c \in Macs, onResult(c)
        PROVE  devs' \subseteq Macs /\ IsFiniteSet(devs') /\ Cardinality(devs') <= MAX_DEVS
    <3>1. devs' = devs \cup {c} /\ (c \in devs \/ Cardinality(devs) < MAX_DEVS)
      BY <2>2 DEF onResult
    <3>2. IsFiniteSet(devs')
          /\ Cardinality(devs') = IF c \in devs THEN Cardinality(devs) ELSE Cardinality(devs) + 1
      BY <1>1, <3>1, FS_AddElement
    <3>3. Cardinality(devs) \in Nat /\ Cardinality(devs) <= MAX_DEVS /\ MAX_DEVS \in Nat
      BY <1>1, FS_CardinalityType, ControllersAssumption DEF TypeOK
    <3>4. Cardinality(devs') <= MAX_DEVS
      BY <3>1, <3>2, <3>3
    <3>5. QED
      BY <1>1, <3>1, <3>2, <3>4 DEF TypeOK
  <2>3. QED
    BY <2>1, <2>2
<1>5. TypeOK'
  BY <1>1, <1>2, <1>3, <1>4 DEF TypeOK
<1>6. ListsInv' /\ BoundInv'
  BY <1>1, <1>2 DEF ListsInv, BoundInv, BoundIsStored, NextBoot, migrating, OneToALine, reported,
     lineAt, beginsLine, endsLine
<1>7. WakeInv'
  BY <1>1, <1>2 DEF WakeInv, ServerUp
<1>8. QED
  BY <1>4, <1>5, <1>6, <1>7 DEF ControllersInv

\* Binding: the list in RAM has the address at once, and while it is not in NVS
\* the handler is about to store it.
LEMMA HandleBleAddInv ==
    ASSUME ControllersInv, NEW c \in Macs, NEW as \in Spellings, handleBleAdd(c, as)
    PROVE  ControllersInv'
<1>1. TypeOK /\ ListsInv /\ BoundInv /\ WakeInv /\ IsFiniteSet(devs)
  BY DEF ControllersInv
<1>2. /\ ServerUp /\ wpc = "idle"
      /\ wpc' = IF hasWakeAddr(wakeAddrs, c) THEN "bring" ELSE "store"
      /\ wasEmpty' = (wakeAddrs = <<>>)
      /\ wakeAddrs' = addWakeAddr(wakeAddrs, c)
      /\ owned' = IF hasWakeAddr(wakeAddrs, c) THEN owned ELSE owned \cup {c}
      /\ unbound' = unbound \ {c}
      /\ UNCHANGED <<time, resets, devs, rebooting, lpc, nvsAddrs, nvsLegacy, scan,
                     g_bleScanStarted, g_pickerActive, g_pickerLastRequest>>
  BY DEF handleBleAdd, webStep, nvsVars, radioVars, pickerVars
<1>3. wakeAddrs \in Seq(Tokens) /\ OneToALine(wakeAddrs)
  BY <1>1 DEF TypeOK, ListsInv
<1>4. /\ wakeAddrs' \in Seq(Tokens) /\ OneToALine(wakeAddrs')
      /\ reported(wakeAddrs') = reported(wakeAddrs) \cup {c}
  BY <1>2, <1>3, Added
<1>5. wasEmpty' \in BOOLEAN /\ wpc' \in {"bring", "store"}
  BY <1>2
<1>6. TypeOK'
  BY <1>1, <1>2, <1>4, <1>5 DEF TypeOK
<1>7. ListsInv'
  BY <1>1, <1>2, <1>4 DEF ListsInv, ServerUp, OneToALine
<1>8. BoundInv'
  <2>1. owned' \subseteq reported(wakeAddrs')
    BY <1>1, <1>2, <1>4 DEF BoundInv, ServerUp
  <2>2. NextBoot' = NextBoot
    BY <1>2 DEF NextBoot, migrating
  <2>3. wpc' # "store" => owned' = owned
    BY <1>2
  <2>4. reported(wakeAddrs)' = reported(wakeAddrs')
    BY DEF reported, lineAt, beginsLine, endsLine
  <2>5. QED
    BY <1>1, <1>2, <2>1, <2>2, <2>3, <2>4 DEF BoundInv, BoundIsStored
<1>9. WakeInv'
  <2>1. ServerUp' = ServerUp
    BY <1>2 DEF ServerUp
  <2>2. wakeAddrs = <<>> => wasEmpty' = TRUE
    BY <1>2
  <2>3. QED
    BY <1>1, <1>2, <1>5, <2>1, <2>2 DEF WakeInv
<1>10. QED
  BY <1>1, <1>2, <1>6, <1>7, <1>8, <1>9 DEF ControllersInv

\* Unbinding: the other addresses are still stored.
LEMMA HandleBleRemoveInv ==
    ASSUME ControllersInv, NEW c \in Macs, NEW as \in Spellings, handleBleRemove(c, as)
    PROVE  ControllersInv'
<1>1. TypeOK /\ ListsInv /\ BoundInv /\ WakeInv /\ IsFiniteSet(devs)
  BY DEF ControllersInv
<1>2. /\ ServerUp /\ wpc = "idle" /\ wpc' = "idle"
      /\ nvsAddrs' = IF c \in reported(wakeAddrs) THEN without(wakeAddrs, c) ELSE nvsAddrs
      /\ IF wakeAddrs = <<>> /\ ~g_pickerActive THEN stopBleScan
                                                ELSE UNCHANGED <<scan, g_bleScanStarted>>
      /\ owned' = owned \ {c}
      /\ unbound' = unbound \cup {c}
      /\ UNCHANGED <<time, resets, devs, rebooting, lpc, wasEmpty, wakeAddrs, nvsLegacy,
                     g_pickerActive, g_pickerLastRequest>>
  BY DEF handleBleRemove, webStep, radioVars, pickerVars
<1>3. wakeAddrs \in Seq(Tokens) /\ OneToALine(wakeAddrs)
  BY <1>1 DEF TypeOK, ListsInv
<1>4. /\ without(wakeAddrs, c) \in Seq(Tokens) /\ OneToALine(without(wakeAddrs, c))
      /\ reported(without(wakeAddrs, c)) = reported(wakeAddrs) \ {c}
  BY <1>3, Removed
<1>5. nvsAddrs' \in Seq(Tokens) /\ OneToALine(nvsAddrs')
  BY <1>1, <1>2, <1>4 DEF TypeOK, ListsInv
<1>6. scan' \in {"none", "wake", "picker"} /\ g_bleScanStarted' \in BOOLEAN
  BY <1>1, <1>2 DEF TypeOK, stopBleScan
<1>7. TypeOK'
  BY <1>1, <1>2, <1>5, <1>6 DEF TypeOK
<1>8. ListsInv'
  BY <1>1, <1>2, <1>5 DEF ListsInv, ServerUp, OneToALine
<1>9. owned \subseteq reported(wakeAddrs) /\ owned \subseteq NextBoot
  BY <1>1, <1>2 DEF BoundInv, BoundIsStored, ServerUp
<1>10. owned' \subseteq NextBoot'
  <2>1. CASE c \in reported(wakeAddrs)
    <3>1. owned' \subseteq reported(nvsAddrs')
      BY <1>2, <1>4, <1>9, <2>1
    <3>2. nvsAddrs' = <<>> => owned' = {}
      BY <3>1, EmptyList
    <3>3. NextBoot' = reported(nvsAddrs') \/ nvsAddrs' = <<>>
      BY DEF NextBoot, migrating, reported, lineAt, beginsLine, endsLine
    <3>4. QED
      BY <3>1, <3>2, <3>3
  <2>2. CASE c \notin reported(wakeAddrs)
    <3>1. NextBoot' = NextBoot
      BY <1>2, <2>2 DEF NextBoot, migrating
    <3>2. QED
      BY <1>2, <1>9, <3>1
  <2>3. QED
    BY <2>1, <2>2
<1>11. BoundInv'
  <2>1. reported(wakeAddrs)' = reported(wakeAddrs)
    BY <1>2 DEF reported, lineAt, beginsLine, endsLine
  <2>2. QED
    BY <1>2, <1>9, <1>10, <2>1 DEF BoundInv, BoundIsStored
<1>12. WakeInv'
  BY <1>1, <1>2 DEF WakeInv, ServerUp
<1>13. QED
  BY <1>1, <1>2, <1>7, <1>8, <1>11, <1>12 DEF ControllersInv

\* The write of the list: what is in RAM is what the user bound.
LEMMA StoreListInv ==
    ASSUME ControllersInv, storeList
    PROVE  ControllersInv'
<1>1. TypeOK /\ ListsInv /\ BoundInv /\ WakeInv /\ IsFiniteSet(devs)
  BY DEF ControllersInv
<1>2. /\ wpc = "store" /\ wpc' = "bring" /\ nvsAddrs' = wakeAddrs
      /\ UNCHANGED <<time, resets, devs, rebooting, lpc, wakeAddrs, nvsLegacy, scan,
                     g_bleScanStarted, g_pickerActive, g_pickerLastRequest, wasEmpty, owned,
                     unbound>>
  BY DEF storeList, webStep, radioVars, pickerVars, histVars
<1>3. ServerUp /\ ServerUp' = ServerUp
  BY <1>1, <1>2 DEF WakeInv, ServerUp
<1>4. TypeOK'
  BY <1>1, <1>2 DEF TypeOK
<1>5. ListsInv'
  BY <1>1, <1>2, <1>3 DEF ListsInv, ServerUp, OneToALine
<1>6. owned \subseteq reported(wakeAddrs)
  BY <1>1, <1>3 DEF BoundInv, ServerUp
<1>7. wakeAddrs = <<>> => owned = {}
  BY <1>6, EmptyList
<1>8. NextBoot' = reported(wakeAddrs) \/ wakeAddrs = <<>>
  BY <1>2 DEF NextBoot, migrating, reported, lineAt, beginsLine, endsLine
<1>9. reported(wakeAddrs)' = reported(wakeAddrs)
  BY <1>2 DEF reported, lineAt, beginsLine, endsLine
<1>10. BoundInv'
  BY <1>2, <1>6, <1>7, <1>8, <1>9 DEF BoundInv, BoundIsStored
<1>11. WakeInv'
  BY <1>1, <1>2, <1>3 DEF WakeInv
<1>12. QED
  BY <1>1, <1>2, <1>4, <1>5, <1>10, <1>11 DEF ControllersInv

\* The steps of the handlers that take the scan, for the list or for the picker.
LEMMA TakeScanInv ==
    ASSUME ControllersInv,
           \/ handleBleAddScan \/ handleBleDevices
           \/ pauseWakeScan \/ takeScanForPicker \/ claimPicker
    PROVE  ControllersInv'
<1>1. TypeOK /\ ListsInv /\ BoundInv /\ WakeInv /\ IsFiniteSet(devs)
  BY DEF ControllersInv
<1>2. UNCHANGED <<time, resets, devs, rebooting, lpc, wakeAddrs, nvsAddrs, nvsLegacy, owned, unbound>>
  BY DEF handleBleAddScan, handleBleDevices, pauseWakeScan, takeScanForPicker, claimPicker, webStep,
         nvsVars, histVars
<1>3. /\ wpc # "store" /\ wpc' \in {"idle", "pause", "take", "claim"}
      /\ ServerUp /\ ServerUp'
  <2>1. /\ wpc # "store" /\ wpc' \in {"idle", "pause", "take", "claim"}
        /\ ServerUp \/ wpc # "idle"
    BY DEF handleBleAddScan, handleBleDevices, pauseWakeScan, takeScanForPicker, claimPicker,
           webStep
  <2>2. ServerUp
    BY <1>1, <2>1 DEF WakeInv
  <2>3. ServerUp'
    BY <1>2, <2>2 DEF ServerUp
  <2>4. QED
    BY <2>1, <2>2, <2>3
<1>4. ListsInv' /\ BoundInv'
  BY <1>1, <1>2, <1>3, SameLists DEF Lists
<1>5. /\ scan' \in {"none", "wake", "picker"}
      /\ {g_bleScanStarted', g_pickerActive', wasEmpty'} \subseteq BOOLEAN
  BY <1>1 DEF TypeOK, handleBleAddScan, bringUp, takeScanForWake, handleBleDevices, pauseWakeScan,
     stopBleScan, takeScanForPicker, claimPicker, radioVars, pickerVars
<1>6. g_pickerLastRequest' \in 0 .. WRAP - 1
  BY <1>1 DEF TypeOK, handleBleAddScan, handleBleDevices, pauseWakeScan, takeScanForPicker,
     claimPicker, pickerVars
<1>7. TypeOK'
  BY <1>1, <1>2, <1>3, <1>5, <1>6 DEF TypeOK
<1>8. WakeInv'
  <2>1. CASE handleBleAddScan
    BY <1>1, <1>2, <1>3, <2>1
       DEF WakeInv, handleBleAddScan, bringUp, takeScanForWake, webStep, radioVars, pickerVars
  <2>2. CASE handleBleDevices
    BY <1>1, <1>2, <1>3, <2>2 DEF WakeInv, handleBleDevices, webStep, radioVars
  <2>3. CASE pauseWakeScan
    BY <1>1, <1>2, <1>3, <2>3 DEF WakeInv, pauseWakeScan, webStep, pickerVars
  <2>4. CASE takeScanForPicker
    BY <1>1, <1>2, <1>3, <2>4 DEF WakeInv, takeScanForPicker, webStep, pickerVars
  <2>5. CASE claimPicker
    BY <1>1, <1>2, <1>3, <2>5 DEF WakeInv, claimPicker, webStep
  <2>6. QED
    BY <2>1, <2>2, <2>3, <2>4, <2>5
<1>9. QED
  BY <1>1, <1>2, <1>4, <1>7, <1>8 DEF ControllersInv

LEMMA HandleFactoryInv ==
    ASSUME ControllersInv, handleFactory
    PROVE  ControllersInv'
<1>1. TypeOK /\ ListsInv /\ BoundInv /\ WakeInv /\ IsFiniteSet(devs)
  BY DEF ControllersInv
<1>2. /\ ServerUp /\ wpc = "idle"
      /\ wakeAddrs' = <<>> /\ nvsAddrs' = <<>> /\ nvsLegacy' = <<>> /\ owned' = {}
      /\ rebooting' = TRUE
      /\ UNCHANGED <<time, resets, scan, g_bleScanStarted, g_pickerActive, g_pickerLastRequest,
                     devs, lpc, wpc, wasEmpty, unbound>>
  BY DEF handleFactory, radioVars, pickerVars
<1>3. TypeOK'
  BY <1>1, <1>2, EmptyList DEF TypeOK
<1>4. ListsInv'
  BY <1>1, <1>2, EmptyList DEF ListsInv, ServerUp
<1>5. BoundInv' /\ WakeInv'
  BY <1>1, <1>2 DEF BoundInv, BoundIsStored, WakeInv, ServerUp
<1>6. QED
  BY <1>1, <1>2, <1>3, <1>4, <1>5 DEF ControllersInv

LEMMA ControllersStep ==
    ASSUME ControllersInv, [Next]_vars
    PROVE  ControllersInv'
<1>1. CASE UNCHANGED vars
  <2>1. UNCHANGED <<time, resets, wakeAddrs, nvsAddrs, nvsLegacy, scan, g_bleScanStarted,
                    g_pickerActive, g_pickerLastRequest, devs, rebooting, lpc, wpc, wasEmpty,
                    owned, unbound>>
    BY <1>1 DEF vars, nvsVars, radioVars, pickerVars, histVars
  <2>2. TypeOK' /\ WakeInv' /\ IsFiniteSet(devs')
    BY <2>1 DEF ControllersInv, TypeOK, WakeInv, ServerUp
  <2>3. ListsInv' /\ BoundInv'
    BY <2>1 DEF ControllersInv, ListsInv, BoundInv, BoundIsStored, NextBoot, migrating, OneToALine,
       reported, lineAt, beginsLine, endsLine
  <2>4. QED
    BY <2>2, <2>3 DEF ControllersInv
<1>2. CASE handlers
  BY <1>2, HandleBleAddInv, HandleBleRemoveInv, TakeScanInv, HandleFactoryInv DEF handlers
<1>3. CASE handling
  BY <1>3, StoreListInv, TakeScanInv DEF handling
<1>4. CASE Restart \/ Reset
  BY <1>4, ResetInv DEF Restart
<1>5. QED
  BY <1>1, <1>2, <1>3, <1>4, BootInv, EndPickerInv, OutsideInv DEF Next

-----------------------------------------------------------------------------
(* The theorems.                                                            *)

THEOREM ControllersInvariant == Spec => []ControllersInv
  BY ControllersInit, ControllersStep, PTL DEF Spec

\* Whatever is bound, unbound and picked, the lists are lists of addresses and
\* breaks and the picker's table keeps its bound.
THEOREM ControllersTypeOK == Spec => []TypeOK
<1>1. ControllersInv => TypeOK
  BY DEF ControllersInv
<1>2. QED
  BY <1>1, ControllersInvariant, PTL

\* A bound controller is listened for whenever no task is handing the scan over
\* and no picker is open (web.cpp:140-162, 228-234, main.cpp:188-216).
THEOREM ControllersWakeScanCovers == Spec => []WakeScanCovers
<1>1. ControllersInv => WakeScanCovers
  BY DEF ControllersInv, WakeInv, WakeScanCovers, ServerUp
<1>2. QED
  BY <1>1, ControllersInvariant, PTL

\* What was bound and not removed survives a reset at any step, however many
\* controllers there are (config.cpp:12-36, 105-137).
THEOREM ControllersBoundIsStored == Spec => []BoundIsStored
<1>1. ControllersInv => BoundIsStored
  BY DEF ControllersInv, BoundInv
<1>2. QED
  BY <1>1, ControllersInvariant, PTL

\* The one string that three places append to, rewrite and parse reads as a set,
\* for lists of any length (config.cpp:81-137, web.cpp:186-195).
THEOREM ControllersListReadsAsSet == Spec => []ListReadsAsSet
<1>1. ASSUME ControllersInv
      PROVE  ListReadsAsSet
  <2>1. /\ wakeAddrs \in Seq(Tokens) /\ OneToALine(wakeAddrs)
        /\ nvsAddrs \in Seq(Tokens) /\ OneToALine(nvsAddrs)
    BY <1>1 DEF ControllersInv, TypeOK, ListsInv
  <2>2. QED
    BY <2>1, ReadsAsSet DEF ListReadsAsSet
<1>2. QED
  BY <1>1, ControllersInvariant, PTL

=============================================================================
