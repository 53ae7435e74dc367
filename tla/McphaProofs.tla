------------------------------ MODULE McphaProofs ------------------------------
(***************************************************************************)
(* Proofs about McphaServer, for every number of bins and threads, every   *)
(* range of random numbers and every limit of the FIFO, and whether or not *)
(* pthread_create may fail.                                                *)
(***************************************************************************)
EXTENDS McphaServer, TLAPS, WellFoundedInduction

(* Induction over the numbers of a set: the theorem of the library about   *)
(* properties takes an operator, which the provers cannot give it, and the *)
(* one about well-founded relations does not.                              *)
Less == {ss \in Nat \X Nat : ss[1] < ss[2]}

LEMMA LessWellFounded == IsWellFoundedOn(Less, Nat)
  BY NatLessThanWellFounded DEF OpToRel, Less

LEMMA Least ==
  ASSUME NEW T \in SUBSET Nat, T # {}
  PROVE  \E x \in T : \A y \in T : x <= y
<1>1. PICK x \in T : \A y \in T : ~ (<<y, x>> \in Less)
  BY LessWellFounded, WFMin
<1>3. \A y \in T : ~ (y < x)
  BY <1>1 DEF Less
<1> QED BY <1>3

LEMMA Induction ==
  ASSUME NEW S, 0 \in S, \A n \in Nat : n \in S => n + 1 \in S
  PROVE  Nat \subseteq S
<1> SUFFICES ASSUME Nat \ S # {} PROVE FALSE
  OBVIOUS
<1>1. PICK x \in Nat \ S : \A y \in Nat \ S : x <= y
  BY Least
<1>2. x # 0 /\ x - 1 \in Nat
  BY <1>1
<1>3. x - 1 \in S
  BY <1>1, <1>2
<1>4. (x - 1) + 1 \in S
  BY <1>2, <1>3
<1> QED BY <1>1, <1>4

-----------------------------------------------------------------------------
(* The sums up to each bin, as the loop of cases 4 and 20 adds them up.    *)
SumsOf(s, f) == f = [k \in Bins |-> IF k = 0 THEN s[0] ELSE f[k - 1] + s[k]]

LEMMA SumsExist == ASSUME NEW s \in Spectra PROVE \E f : SumsOf(s, f)
<1> DEFINE S == {n \in Nat : \E f : f = [k \in 0 .. n |-> IF k = 0 THEN s[0] ELSE f[k - 1] + s[k]]}
<1>1. 0 \in S
  <2> DEFINE f == [k \in 0 .. 0 |-> s[0]]
  <2>1. f = [k \in 0 .. 0 |-> IF k = 0 THEN s[0] ELSE f[k - 1] + s[k]]
    OBVIOUS
  <2> HIDE DEF f
  <2> QED BY <2>1
<1>2. \A n \in Nat : n \in S => n + 1 \in S
  <2> SUFFICES ASSUME NEW n \in Nat, n \in S PROVE n + 1 \in S
    OBVIOUS
  <2>1. PICK f : f = [k \in 0 .. n |-> IF k = 0 THEN s[0] ELSE f[k - 1] + s[k]]
    OBVIOUS
  <2> DEFINE g == [k \in 0 .. n + 1 |-> IF k = n + 1 THEN f[n] + s[n + 1] ELSE f[k]]
  <2>2. ASSUME NEW k \in 0 .. n + 1
        PROVE  g[k] = IF k = 0 THEN s[0] ELSE g[k - 1] + s[k]
    BY <2>1
  <2>3. g = [k \in 0 .. n + 1 |-> g[k]]
    OBVIOUS
  <2> HIDE DEF g
  <2>4. g = [k \in 0 .. n + 1 |-> IF k = 0 THEN s[0] ELSE g[k - 1] + s[k]]
    BY <2>2, <2>3
  <2> QED BY <2>4
<1> HIDE DEF S
<1>3. BINS - 1 \in S
  BY <1>1, <1>2, Induction, McphaAssumption DEF McphaAssumption
<1> QED BY <1>3 DEF S, SumsOf, Bins

LEMMA TotalDef ==
  ASSUME NEW s \in Spectra, NEW b \in Bins
  PROVE  Total(s, b) = IF b = 0 THEN s[0] ELSE Total(s, b - 1) + s[b]
<1> DEFINE f == CHOOSE f : SumsOf(s, f)
<1>1. SumsOf(s, f)
  BY SumsExist
<1>2. \A k : Total(s, k) = f[k]
  BY DEF Total, SumsOf
<1> HIDE DEF f
<1>3. f[b] = IF b = 0 THEN s[0] ELSE f[b - 1] + s[b]
  BY <1>1 DEF SumsOf
<1> QED BY <1>2, <1>3

(* Sums of numbers that are not negative grow.                             *)
LEMMA TotalBounds ==
  ASSUME NEW s \in Spectra
  PROVE  \A b \in Bins : Total(s, b) \in Nat /\ Total(s, b) <= Total(s, BINS - 1)
<1> USE McphaAssumption DEF McphaAssumption
<1>0. \A b \in Bins : s[b] \in Nat
  BY DEF Spectra
<1> DEFINE S == {n \in Nat : n \in Bins => Total(s, n) \in Nat}
<1>1. 0 \in S
  BY <1>0, TotalDef
<1>2. \A n \in Nat : n \in S => n + 1 \in S
  BY <1>0, TotalDef DEF Bins
<1>3. \A b \in Bins : Total(s, b) \in Nat
  <2> HIDE DEF S
  <2>1. Nat \subseteq S BY <1>1, <1>2, Induction
  <2> QED BY <2>1 DEF S, Bins
<1> DEFINE U == {n \in Nat : n < BINS => Total(s, BINS - 1 - n) <= Total(s, BINS - 1)}
<1>4. 0 \in U
  BY <1>3 DEF Bins
<1>5. \A n \in Nat : n \in U => n + 1 \in U
  <2> SUFFICES ASSUME NEW n \in Nat, n \in U, n + 1 < BINS
               PROVE  Total(s, BINS - 1 - (n + 1)) <= Total(s, BINS - 1)
    OBVIOUS
  <2> DEFINE b == BINS - 1 - n
  <2>1. b \in Bins /\ b # 0 /\ b - 1 = BINS - 1 - (n + 1) /\ b - 1 \in Bins /\ BINS - 1 \in Bins
    BY DEF Bins
  <2>2. Total(s, b) = Total(s, b - 1) + s[b]
    BY <2>1, TotalDef
  <2>3. Total(s, b) <= Total(s, BINS - 1)
    OBVIOUS
  <2> HIDE DEF b
  <2> QED BY <2>1, <2>2, <2>3, <1>0, <1>3
<1>6. \A b \in Bins : Total(s, b) <= Total(s, BINS - 1)
  <2> SUFFICES ASSUME NEW b \in Bins PROVE Total(s, b) <= Total(s, BINS - 1)
    OBVIOUS
  <2> HIDE DEF U
  <2>1. BINS - 1 - b \in U
    BY <1>4, <1>5, Induction DEF Bins
  <2>2. BINS - 1 - (BINS - 1 - b) = b /\ BINS - 1 - b < BINS
    BY DEF Bins
  <2> QED BY <2>1, <2>2 DEF U
<1> QED BY <1>3, <1>6

-----------------------------------------------------------------------------
(* The binary search that the pulser draws with.                           *)
Places == 0 .. BINS
Middle(low, high) == low + (high - low) \div 2

SearchStep(array, value, f, low, high) ==
  LET k == Middle(low, high)
  IN IF low >= high THEN low
     ELSE IF value > array[k] THEN f[<<k + 1, high>>] ELSE f[<<low, k>>]

Searches(array, value, f) ==
  f = [range \in Places \X Places |-> SearchStep(array, value, f, range[1], range[2])]

LEMMA MiddleBetween ==
  ASSUME NEW low \in Places, NEW high \in Places, low < high
  PROVE  /\ Middle(low, high) \in low .. high - 1
         /\ Middle(low, high) \in Places /\ Middle(low, high) + 1 \in Places
         /\ Middle(low, high) \in Bins
         /\ Middle(low, high) - low < high - low
         /\ high - (Middle(low, high) + 1) < high - low
  BY McphaAssumption DEF McphaAssumption, Middle, Places, Bins

LEMMA SearchExists == ASSUME NEW array, NEW value PROVE \E f : Searches(array, value, f)
<1> DEFINE Upto(n, f) ==
             \A low \in Places, high \in Places :
               high - low <= n => f[<<low, high>>] = SearchStep(array, value, f, low, high)
           S == {n \in Nat : \E f : Upto(n, f)}
<1>1. 0 \in S
  <2> DEFINE f == [range \in Places \X Places |-> range[1]]
  <2>1. Upto(0, f)
    BY DEF SearchStep, Places
  <2> QED BY <2>1
<1>2. \A n \in Nat : n \in S => n + 1 \in S
  <2> SUFFICES ASSUME NEW n \in Nat, n \in S PROVE n + 1 \in S
    OBVIOUS
  <2>0. PICK f : Upto(n, f)
    <3> HIDE DEF Upto
    <3> QED OBVIOUS
  <2> DEFINE g == [range \in Places \X Places |->
                     IF range[2] - range[1] = n + 1
                     THEN SearchStep(array, value, f, range[1], range[2]) ELSE f[range]]
  <2>1. ASSUME NEW low \in Places, NEW high \in Places, high - low <= n + 1
        PROVE  g[<<low, high>>] = SearchStep(array, value, f, low, high)
    <3>1. CASE high - low = n + 1
      BY <3>1
    <3>2. CASE high - low # n + 1
      <4>1. high - low <= n BY <2>1, <3>2 DEF Places
      <4> QED BY <2>0, <4>1, <3>2
    <3> QED BY <3>1, <3>2
  <2>2. ASSUME NEW low \in Places, NEW high \in Places, high - low <= n + 1
        PROVE  SearchStep(array, value, g, low, high) = SearchStep(array, value, f, low, high)
    <3>1. CASE low >= high
      BY <3>1 DEF SearchStep
    <3>2. CASE low < high
      <4> DEFINE k == Middle(low, high)
      <4>1. k \in Places /\ k + 1 \in Places /\ k - low < n + 1 /\ high - (k + 1) < n + 1
        BY <3>2, <2>2, MiddleBetween DEF Places
      <4> HIDE DEF k
      <4>2. g[<<k + 1, high>>] = f[<<k + 1, high>>]
        BY <4>1
      <4>3. g[<<low, k>>] = f[<<low, k>>]
        BY <4>1
      <4> QED BY <4>2, <4>3 DEF SearchStep, k
    <3> QED BY <3>1, <3>2 DEF Places
  <2> HIDE DEF g
  <2>3. Upto(n + 1, g)
    BY <2>1, <2>2
  <2> HIDE DEF Upto
  <2> QED BY <2>3
<1>3. PICK f : Upto(BINS, f)
  <2> HIDE DEF S
  <2>1. BINS \in S
    BY <1>1, <1>2, Induction, McphaAssumption DEF McphaAssumption
  <2> QED BY <2>1 DEF S
<1> DEFINE g == [range \in Places \X Places |-> f[range]]
<1>4. ASSUME NEW low \in Places, NEW high \in Places
      PROVE  g[<<low, high>>] = SearchStep(array, value, g, low, high)
  <2>1. g[<<low, high>>] = SearchStep(array, value, f, low, high)
    BY <1>3, McphaAssumption DEF Places, McphaAssumption
  <2>2. CASE low >= high
    BY <2>1, <2>2 DEF SearchStep
  <2>3. CASE low < high
    <3> DEFINE k == Middle(low, high)
    <3>1. k \in Places /\ k + 1 \in Places
      BY <2>3, MiddleBetween
    <3> HIDE DEF k
    <3>2. g[<<k + 1, high>>] = f[<<k + 1, high>>] /\ g[<<low, k>>] = f[<<low, k>>]
      BY <3>1
    <3> QED BY <2>1, <3>2 DEF SearchStep, k
  <2> QED BY <2>2, <2>3 DEF Places
<1>5. g = [range \in Places \X Places |-> g[range]]
  OBVIOUS
<1> HIDE DEF g
<1>6. g = [range \in Places \X Places |-> SearchStep(array, value, g, range[1], range[2])]
  BY <1>4, <1>5
<1> QED BY <1>6 DEF Searches

(* It finds a place between what is below the value and what is not, in    *)
(* every array, sorted or not.                                             *)
LEMMA LowerBound ==
  ASSUME NEW array, NEW value
  PROVE  LET r == lower_bound(array, value)
         IN /\ r \in 0 .. BINS
            /\ r > 0 => value > array[r - 1]
            /\ r < BINS => ~ (value > array[r])
<1> DEFINE f == CHOOSE f : Searches(array, value, f)
<1>1. Searches(array, value, f)
  BY SearchExists
<1>2. lower_bound(array, value) = f[<<0, BINS>>]
  BY DEF lower_bound, Searches, SearchStep, Middle, Places
<1> HIDE DEF f
<1>3. ASSUME NEW low \in Places, NEW high \in Places
      PROVE  f[<<low, high>>] = SearchStep(array, value, f, low, high)
  BY <1>1 DEF Searches
<1> DEFINE Left(l) == l > 0 => value > array[l - 1]
           Right(h) == h < BINS => ~ (value > array[h])
           Good(low, high) ==
             LET r == f[<<low, high>>] IN r \in low .. high /\ Left(r) /\ Right(r)
           S == {n \in Nat : \A low \in Places, high \in Places :
                   low <= high /\ high - low <= n /\ Left(low) /\ Right(high)
                     => Good(low, high)}
<1>4. 0 \in S
  <2> SUFFICES ASSUME NEW low \in Places, NEW high \in Places,
                      low <= high, high - low <= 0, Left(low), Right(high)
               PROVE  Good(low, high)
    OBVIOUS
  <2>1. low = high BY DEF Places
  <2>2. f[<<low, high>>] = low BY <2>1, <1>3 DEF SearchStep, Places
  <2> QED BY <2>1, <2>2 DEF Places
<1>5. \A n \in Nat : n \in S => n + 1 \in S
  <2> SUFFICES ASSUME NEW n \in Nat, n \in S,
                      NEW low \in Places, NEW high \in Places,
                      low <= high, high - low <= n + 1, Left(low), Right(high)
               PROVE  Good(low, high)
    OBVIOUS
  <2>1. CASE low = high
    <3>1. f[<<low, high>>] = low BY <2>1, <1>3 DEF SearchStep, Places
    <3> QED BY <2>1, <3>1 DEF Places
  <2>2. CASE low < high
    <3> DEFINE k == Middle(low, high)
    <3>1. /\ k \in low .. high - 1 /\ k \in Places /\ k + 1 \in Places /\ k \in Bins
          /\ k - low <= n /\ high - (k + 1) <= n
      <4>1. low \in Int /\ high \in Int /\ k \in Int /\ high - low <= n + 1
            /\ k - low < high - low /\ high - (k + 1) < high - low
        BY <2>2, MiddleBetween DEF Places
      <4>2. k - low <= n /\ high - (k + 1) <= n
        BY <4>1
      <4> QED BY <2>2, <4>2, MiddleBetween
    <3>2. f[<<low, high>>] = IF value > array[k] THEN f[<<k + 1, high>>] ELSE f[<<low, k>>]
      BY <1>3, <2>2 DEF SearchStep, Places
    <3> HIDE DEF k
    <3>3. CASE value > array[k]
      <4>1. Left(k + 1)
        BY <3>3, <3>1 DEF Places
      <4>2. Good(k + 1, high)
        BY <3>1, <4>1 DEF Places
      <4> QED BY <3>1, <3>2, <3>3, <4>2 DEF Places
    <3>4. CASE ~ (value > array[k])
      <4>1. Good(low, k)
        BY <3>1, <3>4 DEF Places
      <4> QED BY <3>1, <3>2, <3>4, <4>1 DEF Places
    <3> QED BY <3>3, <3>4
  <2> QED BY <2>1, <2>2 DEF Places
<1>6. BINS \in S
  <2> HIDE DEF S
  <2> QED BY <1>4, <1>5, Induction, McphaAssumption DEF McphaAssumption
<1>7. Good(0, BINS)
  BY <1>6, McphaAssumption DEF McphaAssumption, Places
<1> QED BY <1>2, <1>7

-----------------------------------------------------------------------------
(* The division that scales a sum to the range of the random numbers.      *)
LEMMA Div == ASSUME NEW x \in Nat, NEW t \in Nat \ {0} PROVE x \div t \in Nat /\ t * (x \div t) <= x /\ x < t * (x \div t) + t
  BY Z3
LEMMA Cancel == ASSUME NEW q \in Int, NEW r \in Int, NEW t \in Nat \ {0}, t * q <= t * r PROVE q <= r
<1> SUFFICES ASSUME q >= r + 1 PROVE FALSE
  OBVIOUS
<1>1. t * (q - r - 1) >= 0
  BY Z3
<1> QED BY <1>1, Z3
LEMMA Quotient ==
  ASSUME NEW t \in Nat \ {0}, NEW a \in Nat, a <= t, NEW r \in Nat
  PROVE  (a * r) \div t \in 0 .. r
<1>1. a * r \in Nat /\ a * r <= t * r
  BY Z3
<1> DEFINE q == (a * r) \div t
<1>2. q \in Nat /\ t * q <= a * r
  BY <1>1, Div
<1>3. t * q <= t * r
  BY <1>1, <1>2, Z3
<1>4. q <= r BY <1>2, <1>3, Cancel
<1> QED BY <1>2, <1>4
LEMMA QuotientAll ==
  ASSUME NEW t \in Nat \ {0}, NEW r \in Nat
  PROVE  (t * r) \div t = r
<1> DEFINE q == (t * r) \div t
<1>1. t * r \in Nat
  BY Z3
<1>2. q \in Nat /\ t * q <= t * r /\ t * r < t * q + t
  BY <1>1, Div
<1> HIDE DEF q
<1>3. t * q + t = t * (q + 1)
  BY <1>2, Z3
<1>4. q <= r BY <1>2, Cancel
<1>5. t * r <= t * q + t
  BY <1>2, <1>1, Z3
<1>6. r <= q + 1
  BY <1>2, <1>3, <1>5, Cancel
<1>7. r # q + 1
  BY <1>2, <1>3
<1> QED BY <1>2, <1>4, <1>6, <1>7 DEF q

-----------------------------------------------------------------------------
Busy(t) == thread[t] # "none"

Level(s, b) == (Total(s, b) * RAND_MAX) \div Total(s, BINS - 1) - 1

Complete == Total(built, BINS - 1) > 0 /\ \A b \in Bins : hist[b] = Level(built, b)

(* There is one pulser at most, and none while active_thread is 0 or the   *)
(* histogram is built.                                                     *)
Single ==
  /\ \A t, u \in Threads : Busy(t) /\ Busy(u) => t = u
  /\ active_thread = 0 => ~Alive
  /\ pc \in {"build", "create"} => ~Alive
  /\ pc = "accept" /\ Alive => keep_pulsing # 0

(* The histogram is that of the spectrum remembered as built, as far as it *)
(* has come.                                                               *)
Built ==
  /\ pc = "build" =>
       Total(spectrum, BINS - 1) > 0 /\ \A b \in 0 .. i - 1 : hist[b] = Level(spectrum, b)
  /\ pc = "create" \/ Alive => Complete

Solid(s, b) == b \in Bins /\ s[b] > 0

(* A word is what its place in a pair of words asks for: of the first the  *)
(* parity is 1.                                                            *)
Fits(s, word, parity) ==
  /\ word \in Words
  /\ word.kind = "interval" <=> parity = 0
  /\ word.kind = "amplitude" => Solid(s, word.value)

(* Pairs follow one another in the FIFO, the last of them complete unless  *)
(* the pulser is between its two words.                                    *)
Paired ==
  /\ \A k \in 1 .. Len(gen) : Fits(built, gen[k], k % 2)
  /\ Len(gen) % 2 = IF \E t \in Threads : thread[t] \in {"lead", "interval"} THEN 1 ELSE 0
  /\ \/ pulse = <<>>
     \/ pulse = <<pulse[1], pulse[2]>> /\ Fits(built, pulse[1], 1) /\ Fits(built, pulse[2], 0)
  /\ pc \in {"build", "create"} => gen = <<>> /\ pulse = <<>>

(* How full the FIFO may be where the pulser is.                           *)
Room(place, words) ==
  /\ words <= FIFO_LIMIT + 2
  /\ place = "zero" => words = 0
  /\ place = "lead" => words = 1
  /\ place = "amplitude" => words <= FIFO_LIMIT
  /\ place = "interval" => words <= FIFO_LIMIT + 1

Working ==
  /\ Len(gen) <= FIFO_LIMIT + 2
  /\ \A t \in Threads :
       Room(thread[t], Len(gen)) /\ (thread[t] = "amplitude" => Solid(built, drawn[t]))

Inv == TypeInvariant /\ Single /\ Built /\ Paired /\ Working

LEMMA Constants ==
  /\ BINS \in Nat \ {0} /\ RAND_MAX \in Nat \ {0} /\ FIFO_LIMIT \in Nat
  /\ 0 \in Counts /\ Counts \subseteq Nat /\ 0 \in Bins /\ BINS - 1 \in Bins
  BY McphaAssumption DEF McphaAssumption, Bins

LEMMA LevelBounds ==
  ASSUME NEW s \in Spectra, Total(s, BINS - 1) > 0, NEW b \in Bins
  PROVE  Level(s, b) \in -1 .. RAND_MAX - 1
<1>1. /\ Total(s, b) \in Nat /\ Total(s, BINS - 1) \in Nat \ {0}
      /\ Total(s, b) <= Total(s, BINS - 1)
  BY TotalBounds, Constants
<1> DEFINE level == (Total(s, b) * RAND_MAX) \div Total(s, BINS - 1)
<1>2. level \in 0 .. RAND_MAX
  BY <1>1, Quotient, Constants
<1> HIDE DEF level
<1>3. level - 1 \in -1 .. RAND_MAX - 1
  BY <1>2, Constants
<1> QED BY <1>3 DEF level, Level

(* The amplitude drawn is a bin that is not empty: its level is above that *)
(* of the bin before, or above -1 if there is none.                        *)
LEMMA DrawnIsSolid ==
  ASSUME TypeInvariant, Complete, NEW value \in 0 .. RAND_MAX - 1
  PROVE  Solid(built, lower_bound(hist, value))
<1> DEFINE r == lower_bound(hist, value)
           all == Total(built, BINS - 1)
<1>1. /\ built \in Spectra /\ all \in Nat \ {0}
      /\ \A b \in Bins : hist[b] = Level(built, b) /\ hist[b] \in -1 .. RAND_MAX - 1
  BY SMTT(30), LevelBounds, TotalBounds, Constants DEF TypeInvariant, Complete
<1>2. /\ r \in 0 .. BINS
      /\ r > 0 => value > hist[r - 1]
      /\ r < BINS => ~ (value > hist[r])
  BY LowerBound
<1> HIDE DEF r
<1>3. hist[BINS - 1] = RAND_MAX - 1
  <2>1. (all * RAND_MAX) \div all = RAND_MAX
    BY <1>1, QuotientAll, Constants
  <2> QED BY <1>1, <2>1, Constants DEF Level
<1>4. r \in Bins
  <2>1. r # BINS
    BY <1>2, <1>3, Constants
  <2> QED BY <1>2, <2>1, Constants DEF Bins
<1>5. value <= hist[r]
  BY <1>1, <1>2, <1>4, Constants DEF Bins
<1>6. built[r] \in Nat
  BY <1>1, <1>4, Constants DEF Spectra
<1>7. CASE r = 0
  <2>1. Total(built, 0) = built[0]
    BY <1>1, TotalDef, Constants
  <2>2. built[0] # 0
    <3>1. SUFFICES ASSUME Total(built, 0) = 0 PROVE FALSE
      BY <2>1
    <3>2. 0 * RAND_MAX = 0
      BY Constants
    <3>3. 0 \div all = 0
      BY <1>1, Div, Z3
    <3>4. Level(built, 0) = -1
      BY <3>1, <3>2, <3>3 DEF Level
    <3> QED BY <3>4, <1>1, <1>5, <1>7, Constants
  <2> QED BY <1>4, <1>6, <1>7, <2>2 DEF Solid, r
<1>8. CASE r > 0
  <2>1. r - 1 \in Bins
    BY <1>2, <1>4, <1>8, Constants DEF Bins
  <2>2. value > hist[r - 1]
    BY <1>2, <1>8
  <2>3. Level(built, r) # Level(built, r - 1)
    BY <1>1, <1>4, <1>5, <2>1, <2>2, Constants
  <2>4. Total(built, r) # Total(built, r - 1)
    BY <2>3 DEF Level
  <2>5. Total(built, r) = Total(built, r - 1) + built[r]
    BY <1>1, <1>4, <1>8, TotalDef
  <2>6. built[r] # 0
    BY <2>1, <2>4, <2>5, <1>1, TotalBounds
  <2> QED BY <1>4, <1>6, <2>6 DEF Solid, r
<1> QED BY <1>4, <1>7, <1>8 DEF Bins

LEMMA StartsInv == Init => Inv
<1> SUFFICES ASSUME Init PROVE Inv
  OBVIOUS
<1>1. \A t \in Threads : thread[t] = "none"
  BY DEF Init
<1>2. gen = <<>> /\ Len(gen) = 0
  BY DEF Init
<1>3. TypeInvariant
  BY <1>2, Constants DEF Init, TypeInvariant, Spectra
<1>4. Single /\ Built
  BY <1>1 DEF Init, Single, Built, Alive, Busy
<1>5. Paired /\ Working
  BY <1>1, <1>2, Constants DEF Init, Paired, Working, Room
<1> QED BY <1>3, <1>4, <1>5 DEF Inv

-----------------------------------------------------------------------------
(* main(). *)
LEMMA IdleMain ==
  ASSUME Inv, accept \/ Hangup \/ ReceiveNothing \/ Disconnect
  PROVE  Inv'
<1>1. UNCHANGED <<spectrum, hist, i, built, thread, drawn, active_thread, gen, pulse,
                  keep_pulsing, code>>
  BY DEF accept, Hangup, ReceiveNothing, Disconnect, pulserVars
<1>2. pc' \in {"recv", "close", "accept", "join"} \/ pc' = pc
  BY DEF accept, Hangup, ReceiveNothing, Disconnect, StopThen
<1>3. TypeInvariant'
  BY <1>1 DEF Inv, TypeInvariant, accept, Hangup, ReceiveNothing, Disconnect, StopThen
<1>4. pc' = "accept" => pc = "accept" \/ keep_pulsing # 0
  BY DEF accept, Hangup, ReceiveNothing, Disconnect, StopThen
<1>5. Single' /\ Built'
  BY <1>1, <1>2, <1>4 DEF Inv, Single, Built, Alive, Busy, Complete, Level
<1>6. Paired' /\ Working'
  BY <1>1, <1>2 DEF Inv, Paired, Working, Fits, Solid
<1> QED BY <1>3, <1>5, <1>6 DEF Inv

LEMMA Executes ==
  ASSUME Inv, pc = "recv", NEW c \in Codes, NEW data \in Data, Execute(c, data),
         c = "reset_generator" => active_thread = 0,
         code' \in Codes, conn' \in {"open", "closed", "read"}
  PROVE  Inv'
<1>1. UNCHANGED <<hist, i, built, thread, drawn, active_thread>>
  BY DEF Execute, pulserVars
<1>2. pc' \in {"recv", "close", "join"}
  BY DEF Execute, Serving, StopThen, Reply
<1>3. UNCHANGED <<gen, pulse>> \/ (gen' = <<>> /\ pulse' = <<>> /\ ~Alive)
  <2>1. NoReset \/ (c = "reset_generator" /\ ResetGenerator)
    BY DEF Execute
  <2>2. active_thread = 0 => ~Alive
    BY DEF Inv, Single
  <2> QED BY <2>1, <2>2 DEF NoReset, ResetGenerator
<1>4. spectrum' \in Spectra /\ keep_pulsing' \in Counts
  <2>1. data.bin \in Bins /\ data.count \in Counts
    BY DEF Data
  <2> QED BY <2>1, Constants DEF Execute, NoData, Inv, TypeInvariant, Spectra
<1>5. after' \in {"accept", "recv", "build"} /\ enable_thread' \in {0, 1}
  BY DEF Execute, Serving, StopThen, Reply, Inv, TypeInvariant
<1>6. TypeInvariant'
  <2>1. gen' \in Seq(Words) /\ Len(gen') <= FIFO_LIMIT + 2
        /\ (pulse' = <<>> \/ pulse' \in Words \X Words)
    <3>1. CASE UNCHANGED <<gen, pulse>>
      BY <3>1 DEF Inv, TypeInvariant
    <3>2. CASE gen' = <<>> /\ pulse' = <<>>
      <4>1. <<>> \in Seq(Words) /\ Len(<<>>) = 0
        OBVIOUS
      <4> QED BY <3>2, <4>1, Constants
    <3> QED BY <1>3, <3>1, <3>2
  <2> QED BY <1>1, <1>2, <1>4, <1>5, <2>1 DEF Inv, TypeInvariant
<1>7. Single' /\ Built'
  BY <1>1, <1>2 DEF Inv, Single, Built, Alive, Busy, Complete, Level
<1>8. Paired' /\ Working'
  <2>1. CASE UNCHANGED <<gen, pulse>>
    BY <1>1, <1>2, <2>1 DEF Inv, Paired, Working, Fits, Solid
  <2>2. CASE gen' = <<>> /\ pulse' = <<>> /\ ~Alive
    <3>1. Len(gen') = 0 /\ \A t \in Threads : thread'[t] = "none"
      BY <1>1, <2>2 DEF Alive
    <3> QED BY <3>1, <2>2, Constants DEF Paired, Working, Room
  <2> QED BY <1>3, <2>1, <2>2
<1> QED BY <1>6, <1>7, <1>8 DEF Inv

LEMMA Receives ==
  ASSUME Inv, \/ \E c \in Codes, data \in Data : Receive(c, data)
              \/ \E data \in Data : ReceiveShort(data)
  PROVE  Inv'
<1>1. ASSUME NEW c \in Codes, NEW data \in Data, Receive(c, data) PROVE Inv'
  BY <1>1, Executes DEF Receive, Inv, TypeInvariant
<1>2. ASSUME NEW data \in Data, ReceiveShort(data) PROVE Inv'
  <2>1. code \in Codes BY DEF Inv, TypeInvariant
  <2> QED BY <1>2, <2>1, Executes DEF ReceiveShort, Inv, TypeInvariant
<1> QED BY <1>1, <1>2

LEMMA Joins == ASSUME Inv, Join PROVE Inv'
<1>1. /\ UNCHANGED <<after, code, conn, keep_pulsing, spectrum, hist, built, thread, drawn,
                     enable_thread, active_thread>>
      /\ i' = 0 /\ gen' = <<>> /\ pulse' = <<>> /\ pc' \in {"recv", "accept", "build"}
      /\ pc' = "build" => Total(spectrum, BINS - 1) >= 1
  <2> DEFINE all == Total(spectrum, BINS - 1)
  <2>1. all \in Nat
    BY TotalBounds, Constants DEF Inv, TypeInvariant
  <2>2. pc' = IF after = "build" /\ all < 1 THEN "recv" ELSE after
    BY DEF Join, JoinWhen
  <2> HIDE DEF all
  <2>3. after \in {"accept", "recv", "build"}
    BY DEF Inv, TypeInvariant
  <2>4. pc' \in {"recv", "accept", "build"} /\ (pc' = "build" => all >= 1)
    BY <2>1, <2>2, <2>3
  <2> QED BY <2>4 DEF all, Join, JoinWhen, ResetGenerator, pulserVars
<1>2. \A t \in Threads : thread[t] = "none"
  BY DEF Join, JoinWhen, Inv, Single, Alive
<1>3. Len(gen') = 0
  BY <1>1
<1>4. TypeInvariant'
  BY <1>1, <1>3, Constants DEF Inv, TypeInvariant
<1>5. Single'
  BY <1>1, <1>2 DEF Single, Alive, Busy
<1>6. Built'
  <2>1. Total(spectrum, BINS - 1) \in Nat
    BY TotalBounds, Constants DEF Inv, TypeInvariant
  <2> QED BY <1>1, <1>2, <2>1 DEF Built, Alive
<1>7. Paired' /\ Working'
  BY <1>1, <1>2, <1>3, Constants DEF Paired, Working, Room
<1> QED BY <1>4, <1>5, <1>6, <1>7 DEF Inv

LEMMA BuildsBin == ASSUME Inv, BuildBin PROVE Inv'
<1>1. /\ UNCHANGED <<after, code, conn, keep_pulsing, spectrum, thread, drawn, enable_thread,
                     active_thread, gen, pulse>>
      /\ pc = "build" /\ built' = spectrum
      /\ hist' = [hist EXCEPT ![i] = Level(spectrum, i)]
      /\ \/ i < BINS - 1 /\ i' = i + 1 /\ pc' = "build"
         \/ ~(i < BINS - 1) /\ i' = i /\ pc' = "create"
  BY DEF BuildBin, Level, pulserVars
<1>2. \A t \in Threads : thread[t] = "none"
  BY <1>1 DEF Inv, Single, Alive
<1>3. /\ Total(spectrum, BINS - 1) > 0 /\ spectrum \in Spectra /\ i \in Bins
      /\ hist \in [Bins -> -1 .. RAND_MAX]
      /\ \A b \in 0 .. i - 1 : hist[b] = Level(spectrum, b)
  BY <1>1 DEF Inv, TypeInvariant, Built
<1>4. Level(spectrum, i) \in -1 .. RAND_MAX
  BY <1>3, LevelBounds, Constants
<1>5. TypeInvariant'
  <2>1. hist' \in [Bins -> -1 .. RAND_MAX]
    BY <1>1, <1>3, <1>4
  <2>2. i' \in Bins
    BY <1>1, <1>3, Constants DEF Bins
  <2> QED BY <1>1, <1>3, <2>1, <2>2 DEF Inv, TypeInvariant
<1>6. Single'
  BY <1>1, <1>2 DEF Inv, Single, Alive, Busy
<1>7. Built'
  <2>1. \A b \in 0 .. i : hist'[b] = Level(spectrum, b)
    BY <1>1, <1>3 DEF Bins
  <2>2. CASE i < BINS - 1
    BY <1>1, <1>2, <1>3, <2>1, <2>2, Constants DEF Built, Alive, Level, Bins
  <2>3. CASE ~(i < BINS - 1)
    <3>1. \A b \in Bins : b \in 0 .. i
      BY <1>3, <2>3, Constants DEF Bins
    <3>2. Complete'
      BY <1>1, <1>3, <2>1, <3>1 DEF Complete, Level
    <3> QED BY <1>1, <2>3, <3>2 DEF Built
  <2> QED BY <2>2, <2>3
<1>8. Paired' /\ Working'
  BY <1>1, <1>2 DEF Inv, Paired, Working
<1> QED BY <1>5, <1>6, <1>7, <1>8 DEF Inv

LEMMA Creates == ASSUME Inv, Create PROVE Inv'
<1>1. /\ UNCHANGED <<after, code, conn, keep_pulsing, spectrum, hist, i, built, drawn, gen, pulse>>
      /\ pc = "create" /\ pc' = "recv" /\ enable_thread' = 1 /\ active_thread' = 1
  BY DEF Create
<1>2. \A t \in Threads : thread[t] = "none"
  BY <1>1 DEF Inv, Single, Alive
<1>3. gen = <<>> /\ pulse = <<>> /\ Len(gen) = 0 /\ Complete
  BY <1>1 DEF Inv, Paired, Built
<1>4. thread' = thread \/ \E t \in Threads : thread' = [thread EXCEPT ![t] = "zero"]
  BY DEF Create
<1>5. TypeInvariant'
  <2>1. thread' \in [Threads -> {"none", "zero", "lead", "test", "wait", "amplitude", "interval"}]
    BY <1>4 DEF Inv, TypeInvariant
  <2> QED BY <1>1, <2>1 DEF Inv, TypeInvariant
<1>6. \A t \in Threads : thread'[t] \in {"none", "zero"}
  BY <1>2, <1>4 DEF Inv, TypeInvariant
<1>7. \A t, u \in Threads : thread'[t] # "none" /\ thread'[u] # "none" => t = u
  BY <1>2, <1>4 DEF Inv, TypeInvariant
<1>8. Single' /\ Built'
  BY <1>1, <1>3, <1>7 DEF Single, Built, Busy, Complete, Level
<1>9. Paired' /\ Working'
  BY <1>1, <1>3, <1>6, Constants DEF Paired, Working, Room
<1> QED BY <1>5, <1>8, <1>9 DEF Inv

-----------------------------------------------------------------------------
(* pulser_handler: where one thread is decides everything.                 *)
Within(place) == IF place \in {"lead", "interval"} THEN 1 ELSE 0

AllPlaces == {"none", "zero", "lead", "test", "wait", "amplitude", "interval"}

LEMMA OneMoves ==
  ASSUME Inv, NEW t \in Threads, Busy(t), NEW to \in AllPlaces,
         thread' = [thread EXCEPT ![t] = to]
  PROVE  /\ thread'[t] = to /\ thread' \in [Threads -> AllPlaces]
         /\ \A u \in Threads : u # t => thread[u] = "none" /\ thread'[u] = "none"
         /\ Len(gen) % 2 = Within(thread[t]) /\ Alive
         /\ active_thread # 0 /\ pc \notin {"build", "create"} /\ Complete
         /\ pc = "accept" => keep_pulsing # 0
<1>1. thread \in [Threads -> AllPlaces]
  BY DEF Inv, TypeInvariant, AllPlaces
<1>2. thread'[t] = to /\ thread' \in [Threads -> AllPlaces]
  BY <1>1
<1>3. \A u \in Threads : u # t => thread[u] = "none" /\ thread'[u] = "none"
  BY <1>1 DEF Inv, Single, Busy
<1>4. Alive
  BY DEF Alive, Busy
<1>5. (\E u \in Threads : thread[u] \in {"lead", "interval"}) <=> thread[t] \in {"lead", "interval"}
  BY <1>3
<1>6. Len(gen) % 2 = Within(thread[t])
  BY <1>5 DEF Inv, Paired, Within
<1> QED BY <1>2, <1>3, <1>4, <1>6 DEF Inv, Single, Built

(* What the other threads, at no place at all, leave to show of a step.    *)
LEMMA MoveKeeps ==
  ASSUME Inv, NEW t \in Threads, Busy(t), NEW to \in AllPlaces,
         thread' = [thread EXCEPT ![t] = to],
         UNCHANGED <<serverVars, enable_thread, pulse>>,
         active_thread' \in {0, 1}, active_thread' = 0 => to = "none",
         drawn' \in [Threads -> 0 .. BINS], to = "amplitude" => Solid(built, drawn'[t]),
         gen' \in Seq(Words), Room(to, Len(gen')), Len(gen') % 2 = Within(to),
         \A k \in 1 .. Len(gen') : Fits(built, gen'[k], k % 2)
  PROVE  Inv'
<1>1. /\ thread'[t] = to /\ thread' \in [Threads -> AllPlaces]
      /\ \A u \in Threads : u # t => thread'[u] = "none"
      /\ pc \notin {"build", "create"} /\ Complete
      /\ pc = "accept" => keep_pulsing # 0
  BY OneMoves
<1>2. Len(gen') <= FIFO_LIMIT + 2
  BY DEF Room
<1>3. TypeInvariant'
  BY <1>1, <1>2 DEF Inv, TypeInvariant, serverVars, AllPlaces
<1>4. Single' /\ Built'
  <2>1. (active_thread' = 0 => ~Alive')
    BY <1>1 DEF Alive
  <2>2. \A u, v \in Threads : Busy(u)' /\ Busy(v)' => u = v
    BY <1>1 DEF Busy
  <2> QED BY <1>1, <2>1, <2>2 DEF Single, Built, Complete, Level, serverVars
<1>5. Paired'
  <2>1. (\E u \in Threads : thread'[u] \in {"lead", "interval"}) <=> to \in {"lead", "interval"}
    BY <1>1
  <2>2. Len(gen') % 2 = IF \E u \in Threads : thread'[u] \in {"lead", "interval"} THEN 1 ELSE 0
    BY <2>1 DEF Within
  <2>3. \A k \in 1 .. Len(gen') : Fits(built', gen'[k], k % 2)
    BY DEF Fits, Solid, serverVars
  <2>4. \/ pulse' = <<>>
        \/ (pulse' = <<pulse'[1], pulse'[2]>> /\ Fits(built', pulse'[1], 1) /\ Fits(built', pulse'[2], 0))
    BY DEF Inv, Paired, Fits, Solid, serverVars
  <2> QED BY <1>1, <2>2, <2>3, <2>4 DEF Paired, serverVars
<1>6. Working'
  <2>1. ASSUME NEW u \in Threads
        PROVE  Room(thread'[u], Len(gen')) /\ (thread'[u] = "amplitude" => Solid(built', drawn'[u]))
    <3>1. CASE u = t
      BY <1>1, <3>1 DEF Solid, serverVars
    <3>2. CASE u # t
      BY <1>1, <1>2, <3>2 DEF Room
    <3> QED BY <3>1, <3>2
  <2> QED BY <1>2, <2>1 DEF Working
<1> QED BY <1>3, <1>4, <1>5, <1>6 DEF Inv

(* One more word, of the kind its place asks for.                          *)
LEMMA WordAppended ==
  ASSUME Inv, NEW word, NEW first \in {0, 1}, Len(gen) % 2 = first,
         Fits(built, word, 1 - first), gen' = Append(gen, word)
  PROVE  /\ gen' \in Seq(Words) /\ Len(gen') = Len(gen) + 1 /\ Len(gen') % 2 = 1 - first
         /\ \A k \in 1 .. Len(gen') : Fits(built, gen'[k], k % 2)
<1>1. gen \in Seq(Words) /\ word \in Words
  BY DEF Inv, TypeInvariant, Fits
<1>2. gen' \in Seq(Words) /\ Len(gen') = Len(gen) + 1 /\ Len(gen) \in Nat
  BY <1>1
<1>3. Len(gen') % 2 = 1 - first
  BY <1>2
<1>4. ASSUME NEW k \in 1 .. Len(gen') PROVE Fits(built, gen'[k], k % 2)
  <2>1. CASE k = Len(gen) + 1
    <3>1. gen'[k] = word
      BY <1>1, <2>1
    <3>2. k % 2 = 1 - first
      BY <1>2, <1>3, <2>1
    <3> QED BY <3>1, <3>2
  <2>2. CASE k # Len(gen) + 1
    <3>1. k \in 1 .. Len(gen)
      BY <1>2, <2>2
    <3>2. gen'[k] = gen[k]
      BY <1>1, <3>1
    <3> QED BY <3>1, <3>2 DEF Inv, Paired
  <2> QED BY <2>1, <2>2
<1> QED BY <1>2, <1>3, <1>4

LEMMA Written ==
  ASSUME Inv, NEW t \in Threads, Busy(t), NEW to \in {"lead", "test", "interval"}, NEW word,
         thread' = [thread EXCEPT ![t] = to], Writes(word),
         UNCHANGED <<serverVars, enable_thread>>,
         Within(to) = 1 - Within(thread[t]), Fits(built, word, 1 - Within(thread[t])),
         Room(to, Len(gen) + 1)
  PROVE  Inv'
<1>1. Len(gen) % 2 = Within(thread[t]) /\ active_thread # 0
  BY OneMoves DEF AllPlaces
<1>2. Within(thread[t]) \in {0, 1}
  BY DEF Within
<1>3. gen' = Append(gen, word) /\ UNCHANGED <<drawn, active_thread, pulse>>
  BY DEF Writes
<1>4. /\ gen' \in Seq(Words) /\ Len(gen') = Len(gen) + 1
      /\ Len(gen') % 2 = 1 - Within(thread[t])
      /\ \A k \in 1 .. Len(gen') : Fits(built, gen'[k], k % 2)
  BY <1>1, <1>2, <1>3, WordAppended
<1>5. drawn' \in [Threads -> 0 .. BINS] /\ active_thread' \in {0, 1} /\ active_thread' # 0
  BY <1>1, <1>3 DEF Inv, TypeInvariant
<1> QED BY <1>3, <1>4, <1>5, MoveKeeps DEF AllPlaces

LEMMA PulserStep ==
  ASSUME Inv, NEW t \in Threads, pulser_handler(t)
  PROVE  Inv'
<1>0. UNCHANGED <<serverVars, enable_thread>>
  BY DEF pulser_handler
<1>1. /\ Room(thread[t], Len(gen)) /\ Len(gen) <= FIFO_LIMIT + 2 /\ FIFO_LIMIT \in Nat
      /\ gen \in Seq(Words) /\ Len(gen) \in Nat /\ drawn \in [Threads -> 0 .. BINS]
      /\ active_thread \in {0, 1}
      /\ \A k \in 1 .. Len(gen) : Fits(built, gen[k], k % 2)
  <2>1. /\ Len(gen) <= FIFO_LIMIT + 2 /\ FIFO_LIMIT \in Nat
        /\ gen \in Seq(Words) /\ Len(gen) \in Nat /\ drawn \in [Threads -> 0 .. BINS]
        /\ active_thread \in {0, 1}
    BY Constants DEF Inv, TypeInvariant
  <2>2. Room(thread[t], Len(gen))
    BY DEF Inv, Working
  <2>3. \A k \in 1 .. Len(gen) : Fits(built, gen[k], k % 2)
    BY DEF Inv, Paired
  <2> QED BY <2>1, <2>2, <2>3
<1>2. CASE Lead(t)
  <2>1. CASE Goes(t, "zero", "lead") /\ Writes(Word("lead", 0))
    <3>1. Within("lead") = 1 - Within(thread[t]) /\ 1 - Within(thread[t]) = 1
      BY <2>1 DEF Goes, Within
    <3>2. Fits(built, Word("lead", 0), 1)
      BY Constants DEF Fits, Word, Words
    <3>3. Room("lead", Len(gen) + 1)
      BY <1>1, <2>1 DEF Goes, Room
    <3> QED BY <1>0, <2>1, <3>1, <3>2, <3>3, Written DEF Goes, Busy
  <2>2. CASE Goes(t, "lead", "test") /\ Writes(Word("interval", 0))
    <3>1. Within("test") = 1 - Within(thread[t]) /\ 1 - Within(thread[t]) = 0
      BY <2>2 DEF Goes, Within
    <3>2. Fits(built, Word("interval", 0), 0)
      BY Constants DEF Fits, Word, Words
    <3>3. Room("test", Len(gen) + 1)
      <4>1. Len(gen) = 1
        BY <1>1, <2>2 DEF Goes, Room
      <4> QED BY <1>1, <4>1 DEF Room
    <3> QED BY <1>0, <2>2, <3>1, <3>2, <3>3, Written DEF Goes, Busy
  <2> QED BY <1>2, <2>1, <2>2 DEF Lead
<1>3. CASE Test(t)
  <2>1. PICK to \in {"none", "wait"} :
          Goes(t, "test", to) /\ UNCHANGED <<drawn, gen, pulse>>
          /\ active_thread' \in {0, 1} /\ (active_thread' = 0 => active_thread = 0 \/ to = "none")
    BY <1>1, <1>3 DEF Test
  <2>2. Busy(t) /\ to \in AllPlaces /\ thread' = [thread EXCEPT ![t] = to]
    BY <2>1 DEF Goes, Busy, AllPlaces
  <2>3. Len(gen) % 2 = Within(thread[t]) /\ active_thread # 0
    BY <2>2, OneMoves
  <2>4. Len(gen') % 2 = Within(to) /\ Room(to, Len(gen'))
    BY <1>1, <2>1, <2>3 DEF Within, Room, Goes
  <2>5. active_thread' = 0 => to = "none"
    BY <2>1, <2>3
  <2> QED BY <1>0, <1>1, <2>1, <2>2, <2>4, <2>5, MoveKeeps
<1>4. CASE Draw(t)
  <2>1. /\ Goes(t, "wait", "amplitude") /\ UNCHANGED <<active_thread, gen, pulse>>
        /\ Len(gen) <= FIFO_LIMIT
        /\ \E value \in 0 .. RAND_MAX - 1 : drawn' = [drawn EXCEPT ![t] = lower_bound(hist, value)]
    BY <1>4 DEF Draw
  <2>2. PICK value \in 0 .. RAND_MAX - 1 : drawn' = [drawn EXCEPT ![t] = lower_bound(hist, value)]
    BY <2>1
  <2>3. Busy(t) /\ thread' = [thread EXCEPT ![t] = "amplitude"] /\ "amplitude" \in AllPlaces
    BY <2>1 DEF Goes, Busy, AllPlaces
  <2>4. Len(gen) % 2 = Within(thread[t]) /\ active_thread # 0 /\ Complete
    BY <2>3, OneMoves
  <2>5. Solid(built, lower_bound(hist, value))
    BY <2>4, DrawnIsSolid DEF Inv
  <2>6. drawn' \in [Threads -> 0 .. BINS] /\ Solid(built, drawn'[t])
    <3>1. lower_bound(hist, value) \in 0 .. BINS
      BY <2>5, Constants DEF Solid, Bins
    <3> QED BY <1>1, <2>2, <2>5, <3>1
  <2>7. Len(gen') % 2 = Within("amplitude") /\ Room("amplitude", Len(gen'))
    BY <1>1, <2>1, <2>4 DEF Within, Room, Goes
  <2> QED BY <1>0, <1>1, <2>1, <2>3, <2>4, <2>6, <2>7, MoveKeeps
<1>5. CASE WritePair(t)
  <2>1. CASE Goes(t, "amplitude", "interval") /\ Writes(Word("amplitude", drawn[t]))
    <3>1. Within("interval") = 1 - Within(thread[t]) /\ 1 - Within(thread[t]) = 1
      BY <2>1 DEF Goes, Within
    <3>2. Fits(built, Word("amplitude", drawn[t]), 1)
      <4>1. Solid(built, drawn[t])
        BY <2>1 DEF Goes, Inv, Working
      <4> QED BY <1>1, <4>1 DEF Fits, Word, Words
    <3>3. Room("interval", Len(gen) + 1)
      BY <1>1, <2>1 DEF Goes, Room
    <3> QED BY <1>0, <2>1, <3>1, <3>2, <3>3, Written DEF Goes, Busy
  <2>2. CASE Goes(t, "interval", "test") /\ Writes(Word("interval", 0))
    <3>1. Within("test") = 1 - Within(thread[t]) /\ 1 - Within(thread[t]) = 0
      BY <2>2 DEF Goes, Within
    <3>2. Fits(built, Word("interval", 0), 0)
      BY Constants DEF Fits, Word, Words
    <3>3. Room("test", Len(gen) + 1)
      <4>1. Len(gen) <= FIFO_LIMIT + 1
        BY <1>1, <2>2 DEF Goes, Room
      <4> QED BY <1>1, <4>1 DEF Room
    <3> QED BY <1>0, <2>2, <3>1, <3>2, <3>3, Written DEF Goes, Busy
  <2> QED BY <1>5, <2>1, <2>2 DEF WritePair
<1> QED BY <1>2, <1>3, <1>4, <1>5 DEF pulser_handler

(* The generator. *)
LEMMA Takes == ASSUME Inv, TakePulse PROVE Inv'
<1>1. /\ UNCHANGED <<serverVars, pulserVars, enable_thread, active_thread>>
      /\ Len(gen) >= 2 /\ pulse' = <<gen[1], gen[2]>> /\ gen' = SubSeq(gen, 3, Len(gen))
  BY DEF TakePulse
<1>2. gen \in Seq(Words) /\ Len(gen) \in Nat /\ Len(gen) <= FIFO_LIMIT + 2 /\ FIFO_LIMIT \in Nat
  BY Constants DEF Inv, TypeInvariant
<1>3. /\ gen' \in Seq(Words) /\ Len(gen') = Len(gen) - 2
      /\ \A k \in 1 .. Len(gen') : gen'[k] = gen[k + 2]
  BY <1>1, <1>2
<1>4. Len(gen') % 2 = Len(gen) % 2
  <2> DEFINE n == Len(gen)
  <2>1. (n - 2) % 2 = n % 2
    <3> HIDE DEF n
    <3>1. n \in Nat /\ n >= 2
      BY <1>1, <1>2 DEF n
    <3> QED BY <3>1
  <2> QED BY <1>3, <2>1
<1>5. ASSUME NEW k \in 1 .. Len(gen') PROVE Fits(built, gen'[k], k % 2)
  <2>1. k + 2 \in 1 .. Len(gen) /\ gen'[k] = gen[k + 2]
    BY <1>1, <1>2, <1>3
  <2>2. (k + 2) % 2 = k % 2
    BY <1>2, <1>3
  <2> QED BY <2>1, <2>2 DEF Inv, Paired
<1>6. /\ gen[1] \in Words /\ gen[2] \in Words
      /\ Fits(built, gen[1], 1) /\ Fits(built, gen[2], 0)
  <2>1. 1 \in 1 .. Len(gen) /\ 2 \in 1 .. Len(gen) /\ 1 % 2 = 1 /\ 2 % 2 = 0
    BY <1>1, <1>2
  <2>2. Fits(built, gen[1], 1 % 2) /\ Fits(built, gen[2], 2 % 2)
    BY <2>1 DEF Inv, Paired
  <2> QED BY <2>1, <2>2 DEF Fits
<1>7. TypeInvariant'
  BY <1>1, <1>2, <1>3, <1>6 DEF Inv, TypeInvariant, serverVars, pulserVars
<1>8. Single' /\ Built'
  BY <1>1 DEF Inv, Single, Built, Alive, Busy, Complete, Level, serverVars, pulserVars
<1>9. Paired'
  <2>1. \A k \in 1 .. Len(gen') : Fits(built', gen'[k], k % 2)
    BY <1>1, <1>5 DEF Fits, Solid, serverVars
  <2>2. pulse' = <<pulse'[1], pulse'[2]>> /\ Fits(built', pulse'[1], 1) /\ Fits(built', pulse'[2], 0)
    BY <1>1, <1>6 DEF Fits, Solid, serverVars
  <2>3. pc \notin {"build", "create"}
    <3>1. Len(<<>>) = 0
      OBVIOUS
    <3> QED BY <1>1, <3>1 DEF Inv, Paired
  <2>4. Len(gen') % 2 = IF \E t \in Threads : thread'[t] \in {"lead", "interval"} THEN 1 ELSE 0
    BY <1>1, <1>4 DEF Inv, Paired, pulserVars
  <2> QED BY <1>1, <2>1, <2>2, <2>3, <2>4 DEF Paired, serverVars
<1>10. Working'
  <2>1. Len(gen') <= FIFO_LIMIT + 2
    BY <1>2, <1>3
  <2>2. ASSUME NEW t \in Threads
        PROVE  Room(thread'[t], Len(gen')) /\ (thread'[t] = "amplitude" => Solid(built', drawn'[t]))
    <3>1. Room(thread[t], Len(gen)) /\ (thread[t] = "amplitude" => Solid(built, drawn[t]))
      BY DEF Inv, Working
    <3>2. Room(thread[t], Len(gen'))
      BY <1>1, <1>2, <1>3, <3>1 DEF Room
    <3> QED BY <1>1, <3>1, <3>2 DEF Solid, serverVars, pulserVars
  <2> QED BY <2>1, <2>2 DEF Working
<1> QED BY <1>7, <1>8, <1>9, <1>10 DEF Inv

LEMMA Stutters == ASSUME Inv, UNCHANGED vars PROVE Inv'
<1> USE DEF vars, serverVars, pulserVars
<1>1. TypeInvariant'
  BY DEF Inv, TypeInvariant
<1>2. Single' /\ Built'
  BY DEF Inv, Single, Built, Alive, Busy, Complete, Level
<1>3. Paired' /\ Working'
  BY DEF Inv, Paired, Working, Fits, Solid
<1> QED BY <1>1, <1>2, <1>3 DEF Inv

LEMMA InvStep == Inv /\ [Next]_vars => Inv'
<1> SUFFICES ASSUME Inv, [Next]_vars PROVE Inv'
  OBVIOUS
<1>1. CASE Client
  BY <1>1, IdleMain, Receives DEF Client
<1>2. CASE Work
  BY <1>2, IdleMain, Joins, BuildsBin, Creates DEF Work
<1>3. CASE TakePulse \/ \E t \in Threads : pulser_handler(t)
  BY <1>3, Takes, PulserStep
<1>4. CASE UNCHANGED vars
  BY <1>4, Stutters
<1> QED BY <1>1, <1>2, <1>3, <1>4 DEF Next

LEMMA Invariant == Spec => []Inv
  BY StartsInv, InvStep, PTL DEF Spec

-----------------------------------------------------------------------------
(* Types, and room in the FIFO for a pair beyond the limit the pulser waits*)
(* for, for every number of bins and threads and every limit.              *)
THEOREM TypeCorrect == Spec => []TypeInvariant
<1>1. Inv => TypeInvariant
  BY DEF Inv
<1> QED BY <1>1, Invariant, PTL

(* However many bins there are, whatever they hold, and however often the  *)
(* pulser is stopped and started: what the generator gets is a bin of the  *)
(* spectrum the pulser was started with that is not empty, and it gets it  *)
(* in the place of an amplitude.                                           *)
THEOREM PulsesAreOfTheSpectrum == Spec => []PulsesFollowSpectrum
<1>1. ASSUME Inv PROVE PulsesFollowSpectrum
  <2>1. ASSUME NEW word, NEW first, Fits(built, word, first)
        PROVE  word.kind = "amplitude" => word.value \in Bins /\ built[word.value] > 0
    BY <2>1 DEF Fits, Solid
  <2>2. \A k \in 1 .. Len(gen) : gen[k].kind = "amplitude" =>
          gen[k].value \in Bins /\ built[gen[k].value] > 0
    BY <1>1, <2>1 DEF Inv, Paired
  <2>3. CASE pulse = <<>>
    BY <2>2, <2>3 DEF PulsesFollowSpectrum
  <2>4. CASE pulse # <<>>
    <3>1. pulse = <<pulse[1], pulse[2]>> /\ Fits(built, pulse[1], 1) /\ Fits(built, pulse[2], 0)
      BY <1>1, <2>4 DEF Inv, Paired
    <3>2. Len(pulse) = 2
      BY <3>1
    <3>3. \A k \in 1 .. Len(pulse) : pulse[k].kind = "amplitude" =>
            pulse[k].value \in Bins /\ built[pulse[k].value] > 0
      <4>1. \A k \in 1 .. Len(pulse) : k = 1 \/ k = 2
        BY <3>2
      <4> QED BY <3>1, <4>1, <2>1
    <3>4. pulse[1].kind # "interval" /\ pulse[2].kind = "interval"
      BY <3>1 DEF Fits
    <3> QED BY <2>2, <3>3, <3>4 DEF PulsesFollowSpectrum
  <2> QED BY <2>3, <2>4
<1> QED BY <1>1, Invariant, PTL

(* A pulser that runs while no client is served was asked to go on.        *)
THEOREM UnattendedWasAsked == Spec => []UnattendedIsKept
<1>1. Inv => UnattendedIsKept
  BY DEF Inv, Single, UnattendedIsKept, Alive
<1> QED BY <1>1, Invariant, PTL

LEMMA Ends ==
  ASSUME Inv, NEW t \in Threads, pulser_handler(t)
  PROVE  Alive /\ (Alive' \/ enable_thread = 0)
<1>1. PICK to \in AllPlaces :
        /\ Busy(t) /\ thread' = [thread EXCEPT ![t] = to]
        /\ to = "none" => enable_thread = 0
  BY DEF pulser_handler, Lead, Test, Draw, WritePair, Goes, Busy, AllPlaces
<1>2. thread'[t] = to /\ Alive
  BY <1>1, OneMoves
<1>3. to # "none" => Alive'
  BY <1>2 DEF Alive
<1> QED BY <1>1, <1>2, <1>3

LEMMA WorkerStep ==
  ASSUME Inv, [Next]_vars PROVE [Worker!Next]_(Worker!workerVars)
<1> USE DEF Worker!Next, Worker!workerVars, Worker!Prepare, Worker!Stop, Worker!End
<1>1. CASE UNCHANGED <<hist, thread, enable_thread>>
  BY <1>1 DEF Alive
<1>2. CASE accept \/ Hangup \/ ReceiveNothing \/ TakePulse \/ Join
  BY <1>1, <1>2 DEF accept, Hangup, ReceiveNothing, TakePulse, Join, JoinWhen, pulserVars, serverVars
<1>3. ASSUME UNCHANGED <<hist, thread>>, enable_thread' = 0 \/ UNCHANGED enable_thread
      PROVE  [Worker!Next]_(Worker!workerVars)
  <2>1. Alive' <=> Alive
    BY <1>3 DEF Alive
  <2> QED BY <1>3, <2>1
<1>4. CASE Disconnect \/ (\E c \in Codes, data \in Data : Receive(c, data))
           \/ \E data \in Data : ReceiveShort(data)
  BY <1>3, <1>4 DEF Disconnect, Receive, ReceiveShort, Execute, Serving, StopThen, Reply, pulserVars
<1>5. CASE BuildBin
  <2>1. ~Alive /\ ~Alive'
    BY <1>5 DEF BuildBin, Inv, Single, Alive, pulserVars
  <2> QED BY <2>1
<1>6. CASE Create
  <2>1. ~Alive /\ enable_thread' = 1
    BY <1>6 DEF Create, Inv, Single
  <2> QED BY <2>1
<1>7. ASSUME NEW t \in Threads, pulser_handler(t)
      PROVE  [Worker!Next]_(Worker!workerVars)
  <2>1. UNCHANGED <<hist, enable_thread>>
    BY <1>7 DEF pulser_handler, serverVars
  <2> QED BY <1>7, <2>1, Ends
<1>8. CASE UNCHANGED vars
  BY <1>1, <1>8 DEF vars, serverVars, pulserVars
<1> QED
  BY <1>2, <1>4, <1>5, <1>6, <1>7, <1>8 DEF Next, Client, Work

(* There is never a second pulser, and the histogram stays as it is while  *)
(* one runs: the server implements what JoinedWorker allows.               *)
THEOREM OnePulser == Spec => Worker!Init /\ [][Worker!Next]_(Worker!workerVars)
<1>1. Init => Worker!Init
  BY DEF Init, Worker!Init, Alive
<1>2. Inv /\ [Next]_vars => [Worker!Next]_(Worker!workerVars)
  BY WorkerStep
<1> QED BY <1>1, <1>2, Invariant, PTL DEF Spec
=============================================================================
