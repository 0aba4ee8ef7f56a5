-------------------------- MODULE RateLimiterProofs --------------------------
(***************************************************************************)
(* Theorems about RateLimiter, for any callers, limit, window and timeout. *)
(***************************************************************************)
EXTENDS RateLimiter, WellFoundedInduction, TLAPS

(* Sequences *)

LEMMA ElementsAre ==
  ASSUME NEW S, NEW s \in Seq(S)
  PROVE  /\ Len(s) \in Nat /\ DOMAIN s = 1..Len(s) /\ s = [i \in 1..Len(s) |-> s[i]]
         /\ \A i \in 1..Len(s) : s[i] \in S
  OBVIOUS

LEMMA ElementsMake ==
  ASSUME NEW S, NEW T, NEW s \in Seq(S), \A i \in 1..Len(s) : s[i] \in T
  PROVE  s \in Seq(T)
  OBVIOUS

(* Expired stamps *)

\* A set of naturals has a least element.
LEMMA NatLeast ==
  ASSUME NEW S \in SUBSET Nat, S # {}
  PROVE  Min(S) \in S /\ \A n \in S : Min(S) <= n
  <1>1. \E m \in S : \A n \in S : ~ (<<n, m>> \in OpToRel(<, Nat))
    BY NatLessThanWellFounded, WFMin
  <1>2. PICK m \in S : \A n \in S : ~ (<<n, m>> \in OpToRel(<, Nat))
    BY <1>1
  <1>3. ASSUME NEW n \in S
        PROVE  m <= n
    <2>1. n < m => <<n, m>> \in OpToRel(<, Nat)
      BY DEF OpToRel
    <2>2. ~(n < m)
      BY <1>2, <2>1
    <2> QED BY <2>2
  <1> QED BY <1>3 DEF Min

\* From drops the leading elements up to n and no more.
LEMMA FromIs ==
  ASSUME NEW S \in SUBSET Int, NEW s \in Seq(S), NEW n \in Int
  PROVE  \E k \in 0..Len(s) :
           /\ From(s, n) \in Seq(S) /\ Len(From(s, n)) = Len(s) - k
           /\ \A i \in 1..k : s[i] <= n
           /\ k < Len(s) => s[k + 1] > n
           /\ \A i \in 1..(Len(s) - k) : From(s, n)[i] = s[k + i]
  <1> DEFINE K == {i \in DOMAIN s : s[i] > n} \cup {Len(s) + 1}
             m == Min(K)
  <1>1. /\ Len(s) \in Nat /\ DOMAIN s = 1..Len(s)
        /\ \A i \in 1..Len(s) : s[i] \in Int
    BY ElementsAre
  <1>2. m \in K /\ \A i \in K : m <= i
    <2>1. K \in SUBSET Nat /\ K # {}
      BY <1>1
    <2> QED BY <2>1, NatLeast
  <1>3. m \in 1..(Len(s) + 1) /\ (m <= Len(s) => s[m] > n)
    BY <1>1, <1>2
  <1>4. ASSUME NEW i \in 1..(m - 1)
        PROVE  s[i] <= n
    <2>1. i \in DOMAIN s /\ i < m
      BY <1>1, <1>3
    <2>2. i \notin K
      <3>1. i \in Int /\ m \in Int /\ ~(m <= i)
        BY <1>1, <1>3, <2>1
      <3> HIDE DEF m, K
      <3> QED BY <1>2, <3>1
    <2> QED BY <1>1, <2>1, <2>2
  <1>5. From(s, n) = SubSeq(s, m, Len(s))
    BY DEF From
  <1> HIDE DEF m, K
  <1>6. /\ From(s, n) \in Seq(S) /\ Len(From(s, n)) = Len(s) - (m - 1)
        /\ \A i \in 1..(Len(s) - (m - 1)) : From(s, n)[i] = s[(m - 1) + i]
    BY <1>1, <1>3, <1>5
  <1>7. m - 1 \in 0..Len(s) /\ (m - 1 < Len(s) => s[(m - 1) + 1] > n)
    BY <1>1, <1>3
  <1> QED BY <1>4, <1>6, <1>7

\* The stamps q ends with the grants g that still count, and all before them expired.
Backs(q, g) ==
  /\ Len(g) <= Len(q)
  /\ \A i \in 1..(Len(q) - Len(g)) : q[i] = 0
  /\ \A i \in 1..Len(g) : q[Len(q) - Len(g) + i] = g[i]

\* The oldest grant is the first to leave.
InOrder(g) == \A i, j \in 1..Len(g) : i <= j => g[i] <= g[j]

\* Purged leaves exactly the grants that still count.
LEMMA PurgedIs ==
  ASSUME NEW q \in Seq(0..Window), NEW g \in Seq(1..Window), Backs(q, g)
  PROVE  /\ Purged(q) \in Seq(0..Window) /\ Len(Purged(q)) = Len(g)
         /\ \A i \in 1..Len(g) : Purged(q)[i] = g[i]
  <1> DEFINE d == Len(q) - Len(g)
  <1>0. Len(q) \in Nat /\ Len(g) \in Nat /\ \A i \in 1..Len(g) : g[i] \in 1..Window
    BY ElementsAre
  <1>1. /\ d \in Nat
        /\ \A i \in 1..Len(g) : g[i] \in 1..Window /\ q[d + i] = g[i]
        /\ \A i \in 1..d : q[i] = 0
    BY <1>0 DEF Backs
  <1>2. PICK k \in 0..Len(q) :
           /\ From(q, 0) \in Seq(0..Window) /\ Len(From(q, 0)) = Len(q) - k
           /\ \A i \in 1..k : q[i] <= 0
           /\ k < Len(q) => q[k + 1] > 0
           /\ \A i \in 1..(Len(q) - k) : From(q, 0)[i] = q[k + i]
    <2>1. 0..Window \in SUBSET Int /\ 0 \in Int
      BY LimiterAssumption
    <2> DEFINE S == 0..Window
    <2> HIDE DEF S, d
    <2>2. S \in SUBSET Int /\ q \in Seq(S)
      BY <2>1 DEF S
    <2>3. \E k \in 0..Len(q) :
           /\ From(q, 0) \in Seq(S) /\ Len(From(q, 0)) = Len(q) - k
           /\ \A i \in 1..k : q[i] <= 0
           /\ k < Len(q) => q[k + 1] > 0
           /\ \A i \in 1..(Len(q) - k) : From(q, 0)[i] = q[k + i]
      BY <2>1, <2>2, FromIs
    <2> QED BY <2>3 DEF S
  <1> HIDE DEF d
  <1>3. ~(k < d)
    <2>1. k < d => k + 1 \in 1..d /\ k < Len(q)
      BY <1>0, <1>1 DEF d
    <2> QED BY <1>1, <1>2, <2>1
  <1>4. ~(d < k)
    <2>1. d < k => 1 \in 1..Len(g) /\ d + 1 \in 1..k
      BY <1>0, <1>1 DEF d
    <2>2. d < k => q[d + 1] = g[1] /\ g[1] \in 1..Window /\ q[d + 1] <= 0
      BY <1>1, <1>2, <2>1
    <2> QED BY <2>2, LimiterAssumption
  <1>5. k = d
    BY <1>1, <1>3, <1>4
  <1>6. Len(q) - k = Len(g)
    BY <1>0, <1>1, <1>5 DEF d
  <1> QED BY <1>1, <1>2, <1>5, <1>6 DEF Purged

(* One step *)

\* The stamps end with the grants younger than a window, in the order they were made,
\* and these are no more than the limit.  WindowBound says nothing of the deque, which
\* is all that acquire looks at.
WindowInv ==
  /\ TypeOK /\ Backs(queue, granted) /\ InOrder(granted)
  /\ WindowBound

LEMMA LessIs ==
  ASSUME NEW n \in Nat
  PROVE  /\ Less(n) \in 0..n /\ (n = 0 => Less(n) = 0)
         /\ \A m \in Nat : n <= m => Less(n) <= Less(m)
  BY DEF Less

LEMMA AgedIs ==
  ASSUME NEW s \in Seq(0..Window)
  PROVE  /\ Aged(s) \in Seq(0..Window) /\ Len(Aged(s)) = Len(s)
         /\ \A i \in 1..Len(s) : Aged(s)[i] = Less(s[i]) /\ s[i] \in 0..Window
  <1>1. Len(s) \in Nat /\ DOMAIN s = 1..Len(s) /\ \A i \in 1..Len(s) : s[i] \in 0..Window
    BY ElementsAre
  <1>2. \A i \in 1..Len(s) : Less(s[i]) \in 0..Window
    BY <1>1, LimiterAssumption DEF Less
  <1>3. Aged(s) = [i \in 1..Len(s) |-> Less(s[i])]
    BY <1>1 DEF Aged
  <1> QED BY <1>1, <1>2, <1>3

\* A grant joins both ends.
LEMMA GrantJoins ==
  ASSUME NEW p \in Seq(0..Window), NEW g \in Seq(1..Window), Len(p) = Len(g),
         \A i \in 1..Len(g) : p[i] = g[i], InOrder(g)
  PROVE  /\ Append(p, Window) \in Seq(0..Window) /\ Append(g, Window) \in Seq(1..Window)
         /\ Backs(Append(p, Window), Append(g, Window)) /\ InOrder(Append(g, Window))
         /\ Len(Append(g, Window)) = Len(g) + 1
  <1>0. Len(g) \in Nat /\ Window \in Nat \ {0} /\ Window \in 0..Window /\ Window \in 1..Window
    BY LimiterAssumption
  <1>g. \A i \in 1..Len(g) : g[i] \in 1..Window
    BY ElementsAre
  <1> DEFINE S == 0..Window
             T == 1..Window
  <1>s. p \in Seq(S) /\ g \in Seq(T) /\ Window \in S /\ Window \in T
    BY <1>0
  <1> HIDE DEF S, T
  <1>1. /\ Append(p, Window) \in Seq(S) /\ Len(Append(p, Window)) = Len(g) + 1
        /\ Append(p, Window)[Len(g) + 1] = Window
        /\ \A i \in 1..Len(g) : Append(p, Window)[i] = p[i]
    BY <1>s
  <1>2. /\ Append(g, Window) \in Seq(T) /\ Len(Append(g, Window)) = Len(g) + 1
        /\ Append(g, Window)[Len(g) + 1] = Window
        /\ \A i \in 1..Len(g) : Append(g, Window)[i] = g[i]
    BY <1>s
  <1>3. \A i \in 1..(Len(g) + 1) : i \in 1..Len(g) \/ i = Len(g) + 1
    BY <1>0
  <1>4. \A i \in 1..(Len(g) + 1) : Append(p, Window)[i] = Append(g, Window)[i]
    BY <1>1, <1>2, <1>3
  <1>5. Backs(Append(p, Window), Append(g, Window))
    BY <1>0, <1>1, <1>2, <1>4 DEF Backs
  <1>6. ASSUME NEW i \in 1..(Len(g) + 1), NEW j \in 1..(Len(g) + 1), i <= j
        PROVE  Append(g, Window)[i] <= Append(g, Window)[j]
    <2>1. CASE j \in 1..Len(g)
      <3>1. i \in 1..Len(g)
        BY <1>0, <1>6, <2>1
      <3> QED BY <1>2, <1>6, <2>1, <3>1 DEF InOrder
    <2>2. CASE j = Len(g) + 1
      <3>1. Append(g, Window)[i] \in 1..Window
        BY <1>0, <1>g, <1>2, <1>3
      <3> QED BY <1>0, <1>2, <2>2, <3>1
    <2> QED BY <1>3, <2>1, <2>2
  <1>7. InOrder(Append(g, Window))
    BY <1>2, <1>6 DEF InOrder
  <1> QED BY <1>1, <1>2, <1>5, <1>7 DEF S, T

\* Time passes: what expires leaves the grants, and the deque when it is next purged.
LEMMA TickAges ==
  ASSUME NEW q \in Seq(0..Window), NEW g \in Seq(1..Window), Backs(q, g), InOrder(g)
  PROVE  LET h == From(Aged(g), 0)
         IN  /\ h \in Seq(1..Window) /\ Backs(Aged(q), h) /\ InOrder(h) /\ Len(h) <= Len(g)
  <1> DEFINE a == Aged(g)
             h == From(a, 0)
             b == Aged(q)
             d == Len(q) - Len(g)
  <1>0. /\ Len(q) \in Nat /\ Len(g) \in Nat /\ d \in Nat
        /\ \A i \in 1..Len(g) : g[i] \in 1..Window /\ q[d + i] = g[i]
        /\ \A i \in 1..d : q[i] = 0
    <2>1. Len(q) \in Nat /\ Len(g) \in Nat /\ \A i \in 1..Len(g) : g[i] \in 1..Window
      BY ElementsAre
    <2> QED BY <2>1 DEF Backs
  <1>1. g \in Seq(0..Window)
    <2>1. \A i \in 1..Len(g) : g[i] \in 0..Window
      BY <1>0, LimiterAssumption
    <2> QED BY <2>1, ElementsMake
  <1>2. /\ a \in Seq(0..Window) /\ Len(a) = Len(g)
        /\ \A i \in 1..Len(g) : a[i] = Less(g[i]) /\ a[i] \in 0..Window
    <2>1. \A i \in 1..Len(a) : a[i] \in 0..Window
      BY <1>1, AgedIs, ElementsAre
    <2> QED BY <1>1, <2>1, AgedIs
  <1>3. b \in Seq(0..Window) /\ Len(b) = Len(q) /\ \A i \in 1..Len(q) : b[i] = Less(q[i])
    BY AgedIs
  <1>4. ASSUME NEW i \in 1..Len(g), NEW j \in 1..Len(g), i <= j
        PROVE  a[i] <= a[j]
    <2>1. g[i] \in 1..Window /\ g[j] \in 1..Window
      BY <1>0
    <2>2. g[i] \in Nat /\ g[j] \in Nat
      BY <2>1, LimiterAssumption
    <2>3. g[i] <= g[j]
      BY <1>4 DEF InOrder
    <2> QED BY <1>2, <2>2, <2>3, LessIs
  <1>5. PICK k \in 0..Len(a) :
           /\ h \in Seq(0..Window) /\ Len(h) = Len(a) - k
           /\ \A i \in 1..k : a[i] <= 0
           /\ k < Len(a) => a[k + 1] > 0
           /\ \A i \in 1..(Len(a) - k) : h[i] = a[k + i]
    <2> DEFINE S == 0..Window
    <2>1. S \in SUBSET Int /\ a \in Seq(S) /\ 0 \in Int
      BY <1>2, LimiterAssumption
    <2> HIDE DEF S, a, d, b
    <2>2. \E k \in 0..Len(a) :
           /\ h \in Seq(S) /\ Len(h) = Len(a) - k
           /\ \A i \in 1..k : a[i] <= 0
           /\ k < Len(a) => a[k + 1] > 0
           /\ \A i \in 1..(Len(a) - k) : h[i] = a[k + i]
      BY <2>1, FromIs
    <2> QED BY <2>2 DEF S
  <1> HIDE DEF a, h, b, d
  <1>6. k \in Nat /\ k <= Len(g) /\ Len(h) = Len(g) - k /\ Len(h) \in Nat
    BY <1>0, <1>2, <1>5
  <1>7. ASSUME NEW i \in 1..Len(h)
        PROVE  h[i] = a[k + i] /\ h[i] \in 1..Window /\ k + i \in 1..Len(g)
    <2>1. k + i \in 1..Len(g) /\ k + 1 \in 1..Len(g) /\ k + 1 <= k + i /\ k < Len(a)
      BY <1>0, <1>2, <1>6
    <2>2. h[i] = a[k + i]
      BY <1>2, <1>5, <1>6
    <2>3. a[k + 1] <= a[k + i] /\ a[k + 1] > 0
      BY <1>4, <1>5, <2>1
    <2>4. a[k + 1] \in Int /\ a[k + i] \in 0..Window
      BY <1>2, <2>1, LimiterAssumption
    <2>5. a[k + i] > 0
      <3>1. a[k + i] \in Int
        BY <2>4, LimiterAssumption
      <3> QED BY <2>3, <2>4, <3>1
    <2>6. a[k + i] \in 1..Window
      BY <2>4, <2>5, LimiterAssumption
    <2> QED BY <2>1, <2>2, <2>6
  <1>8. h \in Seq(1..Window)
    <2>1. \A i \in 1..Len(h) : h[i] \in 1..Window
      BY <1>7
    <2> QED BY <1>5, <2>1, ElementsMake
  <1>9. InOrder(h)
    <2>1. ASSUME NEW i \in 1..Len(h), NEW j \in 1..Len(h), i <= j
          PROVE  h[i] <= h[j]
      <3>1. k + i \in 1..Len(g) /\ k + j \in 1..Len(g) /\ k + i <= k + j
        BY <1>6, <1>7, <2>1
      <3> QED BY <1>4, <1>7, <3>1
    <2> QED BY <2>1 DEF InOrder
  <1>10. Backs(b, h)
    <2>1. Len(h) <= Len(b) /\ Len(b) - Len(h) = d + k
      BY <1>0, <1>3, <1>6 DEF d
    <2>2. ASSUME NEW i \in 1..(d + k)
          PROVE  b[i] = 0
      <3>1. i \in 1..Len(q)
        BY <1>0, <1>6 DEF d
      <3>2. CASE i \in 1..d
        BY <1>0, <1>3, <3>1, <3>2, LessIs
      <3>3. CASE i - d \in 1..k
        <4>1. i - d \in 1..Len(g) /\ d + (i - d) = i
          BY <1>0, <1>6, <3>3
        <4>2. b[i] = a[i - d]
          BY <1>0, <1>2, <1>3, <3>1, <4>1
        <4>3. a[i - d] \in 0..Window /\ a[i - d] <= 0
          BY <1>2, <1>5, <3>3, <4>1
        <4> QED BY <4>2, <4>3, LimiterAssumption
      <3> QED BY <1>0, <1>6, <3>2, <3>3
    <2>3. ASSUME NEW i \in 1..Len(h)
          PROVE  b[d + k + i] = h[i]
      <3>1. k + i \in 1..Len(g) /\ d + (k + i) \in 1..Len(q) /\ d + (k + i) = d + k + i
        BY <1>0, <1>6, <1>7 DEF d
      <3>2. b[d + (k + i)] = Less(g[k + i])
        BY <1>0, <1>3, <3>1
      <3> QED BY <1>2, <1>7, <3>1, <3>2
    <2> QED BY <2>1, <2>2, <2>3 DEF Backs
  <1> QED BY <1>6, <1>8, <1>9, <1>10, <1>0 DEF h, a, b

\* The deque, the grants and what is known of them, under a step.
LEMMA WindowStep ==
  ASSUME WindowInv, [Next]_vars
  PROVE  /\ queue' \in Seq(0..Window) /\ granted' \in Seq(1..Window)
         /\ Backs(queue', granted') /\ InOrder(granted') /\ Len(granted') <= MaxRequests
         /\ wait' \in [Callers -> 0..Window]
  <1> DEFINE Goal == /\ queue' \in Seq(0..Window) /\ granted' \in Seq(1..Window)
                     /\ Backs(queue', granted') /\ InOrder(granted') /\ Len(granted') <= MaxRequests
                     /\ wait' \in [Callers -> 0..Window]
  <1> SUFFICES Goal
    OBVIOUS
  <1>0. /\ queue \in Seq(0..Window) /\ granted \in Seq(1..Window)
        /\ Backs(queue, granted) /\ InOrder(granted) /\ Len(granted) <= MaxRequests
        /\ wait \in [Callers -> 0..Window]
    BY DEF WindowInv, TypeOK, WindowBound
  <1>1. CASE Tick
    <2>1. queue' = Aged(queue) /\ granted' = From(Aged(granted), 0) /\ wait' = wait
      BY <1>1 DEF Tick
    <2>2. /\ granted' \in Seq(1..Window) /\ Backs(queue', granted') /\ InOrder(granted')
          /\ Len(granted') <= Len(granted)
      BY <1>0, <2>1, TickAges
    <2>3. queue' \in Seq(0..Window)
      BY <1>0, <2>1, AgedIs
    <2>4. Len(granted') \in Nat /\ Len(granted) \in Nat
      BY <1>0, <2>2, ElementsAre
    <2>5. Len(granted') <= MaxRequests
      BY <1>0, <2>2, <2>4, LimiterAssumption
    <2> QED BY <1>0, <2>1, <2>2, <2>3, <2>5
  <1>2. ASSUME NEW c \in Callers, TrySlot(c)
        PROVE  Goal
    <2> DEFINE p == Purged(queue)
    <2>1. /\ p \in Seq(0..Window) /\ Len(p) = Len(granted)
          /\ \A i \in 1..Len(granted) : p[i] = granted[i]
      BY <1>0, PurgedIs
    <2>2. Len(granted) \in Nat /\ MaxRequests \in Nat \ {0}
      BY <1>0, LimiterAssumption, ElementsAre
    <2> HIDE DEF p
    <2>3. CASE Len(p) < MaxRequests
      <3>1. queue' = Append(p, Window) /\ granted' = Append(granted, Window) /\ wait' = wait
        BY <1>2, <2>3 DEF TrySlot, p
      <3>2. /\ queue' \in Seq(0..Window) /\ granted' \in Seq(1..Window)
            /\ Backs(queue', granted') /\ InOrder(granted') /\ Len(granted') = Len(granted) + 1
        BY <1>0, <2>1, <3>1, GrantJoins
      <3>3. Len(granted') <= MaxRequests
        BY <2>1, <2>2, <2>3, <3>2
      <3> QED BY <1>0, <3>1, <3>2, <3>3
    <2>4. CASE ~(Len(p) < MaxRequests)
      <3>1. queue' = p /\ granted' = granted /\ wait' = [wait EXCEPT ![c] = Head(p)]
        BY <1>2, <2>4 DEF TrySlot, p
      <3>2. Head(p) \in 0..Window
        <4>1. p # <<>> /\ 1 \in 1..Len(p) /\ Head(p) = p[1]
          BY <2>1, <2>2, <2>4
        <4>2. \A i \in 1..Len(p) : p[i] \in 0..Window
          BY <2>1, ElementsAre
        <4> QED BY <4>1, <4>2
      <3>3. Backs(p, granted)
        BY <2>1, <2>2 DEF Backs
      <3> QED BY <1>0, <2>1, <3>1, <3>2, <3>3
    <2> QED BY <2>3, <2>4
  <1>3. ASSUME NEW c \in Callers, Acquire(c) \/ Refuse(c) \/ Sleep(c) \/ Wake(c)
        PROVE  Goal
    <2>1. UNCHANGED <<queue, granted, wait>>
      BY <1>3 DEF Acquire, Refuse, Sleep, Wake
    <2> QED BY <1>0, <2>1
  <1>4. CASE UNCHANGED vars
    BY <1>0, <1>4 DEF vars
  <1> QED BY <1>1, <1>2, <1>3, <1>4 DEF Next, Loop

LEMMA CallersTyped ==
  ASSUME TypeOK, [Next]_vars
  PROVE  /\ pc' \in [Callers -> {"idle", "try", "full", "sleep"}]
         /\ deadlineLeft' \in [Callers -> 0..Timeout]
         /\ nap' \in [Callers -> 0..1]
  <1>0. /\ pc \in [Callers -> {"idle", "try", "full", "sleep"}]
        /\ deadlineLeft \in [Callers -> 0..Timeout] /\ nap \in [Callers -> 0..1]
        /\ Timeout \in 0..Timeout
    BY LimiterAssumption DEF TypeOK
  <1>1. CASE Tick
    <2>1. \A n \in 0..Timeout : Less(n) \in 0..Timeout
      BY LimiterAssumption DEF Less
    <2>2. \A n \in 0..1 : Less(n) \in 0..1
      BY DEF Less
    <2> QED BY <1>0, <1>1, <2>1, <2>2 DEF Tick
  <1>2. ASSUME NEW c \in Callers, TrySlot(c)
        PROVE  /\ pc' \in [Callers -> {"idle", "try", "full", "sleep"}]
               /\ deadlineLeft' = deadlineLeft /\ nap' = nap
    <2>1. pc' = [pc EXCEPT ![c] = "idle"] \/ pc' = [pc EXCEPT ![c] = "full"]
      BY <1>2 DEF TrySlot
    <2>2. deadlineLeft' = deadlineLeft /\ nap' = nap
      BY <1>2 DEF TrySlot
    <2> QED BY <1>0, <2>1, <2>2
  <1>3. ASSUME NEW c \in Callers, Acquire(c)
        PROVE  /\ pc' \in [Callers -> {"idle", "try", "full", "sleep"}]
               /\ deadlineLeft' \in [Callers -> 0..Timeout] /\ nap' = nap
    BY <1>0, <1>3 DEF Acquire
  <1>4. ASSUME NEW c \in Callers, Refuse(c) \/ Sleep(c) \/ Wake(c)
        PROVE  /\ pc' \in [Callers -> {"idle", "try", "full", "sleep"}]
               /\ deadlineLeft' = deadlineLeft /\ nap' \in [Callers -> 0..1]
    <2>1. NapFor(c) \in 0..1
      BY <1>4, LimiterAssumption DEF NapFor, TypeOK
    <2> QED BY <1>0, <1>4, <2>1 DEF Refuse, Sleep, Wake
  <1>5. CASE UNCHANGED vars
    BY <1>0, <1>5 DEF vars
  <1> QED BY <1>0, <1>1, <1>2, <1>3, <1>4, <1>5 DEF Next, Loop

LEMMA WindowAlways == Spec => []WindowInv
  <1>1. Init => WindowInv
    <2> SUFFICES ASSUME Init PROVE WindowInv
      OBVIOUS
    <2>1. Len(queue) = 0 /\ Len(granted) = 0 /\ queue \in Seq(0..Window) /\ granted \in Seq(1..Window)
      BY DEF Init
    <2>2. TypeOK
      BY <2>1, LimiterAssumption DEF Init, TypeOK
    <2> QED BY <2>1, <2>2, LimiterAssumption DEF WindowInv, Backs, InOrder, WindowBound
  <1>2. WindowInv /\ [Next]_vars => WindowInv'
    <2> SUFFICES ASSUME WindowInv, [Next]_vars PROVE WindowInv'
      OBVIOUS
    <2>1. TypeOK
      BY DEF WindowInv
    <2>2. TypeOK'
      BY <2>1, WindowStep, CallersTyped DEF TypeOK
    <2> QED BY <2>2, WindowStep DEF WindowInv, WindowBound
  <1> QED BY <1>1, <1>2, PTL DEF Spec

\* Types of the deque, of the callers and of the history.
THEOREM LimiterTyped == Spec => []TypeOK
  <1>1. WindowInv => TypeOK
    BY DEF WindowInv
  <1> QED BY <1>1, WindowAlways, PTL

\* Never more than the limit is granted in one window, for any number of callers, however
\* long the clock runs: the deque is purged late, but never of a stamp that
\* still counts, and a slot is given by its length after the purge.
THEOREM LimitIsKept == Spec => []WindowBound
  <1>1. WindowInv => WindowBound
    BY DEF WindowInv
  <1> QED BY <1>1, WindowAlways, PTL
=============================================================================
