---------------------------- MODULE OsTimerProofs ----------------------------
(***************************************************************************)
(* Proofs about OsTimer, for any set of timers, any intervals and any      *)
(* width of the clock.                                                     *)
(***************************************************************************)
EXTENDS OsTimer, SequenceTheorems, FiniteSetTheorems, TLAPS

-----------------------------------------------------------------------------
(* Lists in which nothing is linked twice, and the order of their elements.*)
Once(s) == \A i, j \in DOMAIN s : s[i] = s[j] => i = j

Before(s, u, t) == \E k, j \in DOMAIN s : k < j /\ s[k] = u /\ s[j] = t

Lists == {s \in Seq(Timers) : Once(s)}

LEMMA PlaceInList ==
  ASSUME NEW s \in Seq(Timers), NEW t \in Elements(s)
  PROVE  PlaceOf(s, t) \in 1 .. Len(s) /\ s[PlaceOf(s, t)] = t
<1>1. \E i \in DOMAIN s : s[i] = t
  BY DEF Elements
<1>2. PlaceOf(s, t) \in DOMAIN s /\ s[PlaceOf(s, t)] = t
  BY <1>1 DEF PlaceOf
<1> QED BY <1>2

LEMMA BothListed ==
  ASSUME NEW s \in Lists, NEW u, NEW t, Before(s, u, t)
  PROVE  u \in Elements(s) /\ t \in Elements(s) /\ u # t
BY DEF Lists, Once, Before, Elements

(* os_timer_start keeps the order and puts a new timer at the end.         *)
LEMMA StartedList ==
  ASSUME NEW s \in Lists, NEW t \in Timers
  PROVE  /\ ListStarted(s, t) \in Lists
         /\ Elements(ListStarted(s, t)) = Elements(s) \cup {t}
         /\ \A u, v : v \in Elements(s) =>
              (Before(ListStarted(s, t), u, v) <=> Before(s, u, v))
<1> DEFINE n == Len(s)
<1> DEFINE r == Append(s, t)
<1>1. CASE t \in Elements(s)
  BY <1>1 DEF ListStarted
<1>2. CASE t \notin Elements(s)
  <2> s \in Seq(Timers) /\ n \in Nat /\ DOMAIN s = 1 .. n
    BY DEF Lists
  <2>1. /\ ListStarted(s, t) = r /\ r \in Seq(Timers)
        /\ DOMAIN r = 1 .. n + 1 /\ r[n + 1] = t
        /\ \A i \in 1 .. n : r[i] = s[i] /\ s[i] # t
    BY <1>2 DEF ListStarted, Elements
  <2> HIDE DEF r, n
  <2>2. Once(r)
    <3> SUFFICES ASSUME NEW i \in 1 .. n + 1, NEW j \in 1 .. n + 1, r[i] = r[j] PROVE i = j
      BY <2>1 DEF Once
    <3>1. CASE i \in 1 .. n /\ j \in 1 .. n
      BY <3>1, <2>1 DEF Lists, Once
    <3>2. CASE i = n + 1 \/ j = n + 1
      BY <3>2, <2>1
    <3> QED BY <3>1, <3>2
  <2>3. Elements(r) = Elements(s) \cup {t}
    <3>1. \A v \in Elements(r) : v \in Elements(s) \cup {t}
      <4> TAKE v \in Elements(r)
      <4>1. PICK i \in 1 .. n + 1 : v = r[i]
        BY <2>1 DEF Elements
      <4> QED BY <4>1, <2>1 DEF Elements
    <3>2. \A v \in Elements(s) : v \in Elements(r)
      BY <2>1 DEF Elements
    <3>3. t \in Elements(r)
      BY <2>1 DEF Elements
    <3> QED BY <3>1, <3>2, <3>3
  <2>4. ASSUME NEW u, NEW v, v \in Elements(s) PROVE Before(r, u, v) <=> Before(s, u, v)
    <3>1. v # t
      BY <2>4, <1>2
    <3>2. ASSUME Before(r, u, v) PROVE Before(s, u, v)
      <4>1. PICK k \in 1 .. n + 1, j \in 1 .. n + 1 : k < j /\ r[k] = u /\ r[j] = v
        BY <3>2, <2>1 DEF Before
      <4>2. j \in 1 .. n /\ k \in 1 .. n
        BY <4>1, <3>1, <2>1
      <4> QED BY <4>1, <4>2, <2>1 DEF Before
    <3>3. ASSUME Before(s, u, v) PROVE Before(r, u, v)
      <4>1. PICK k \in 1 .. n, j \in 1 .. n : k < j /\ s[k] = u /\ s[j] = v
        BY <3>3 DEF Before
      <4> QED BY <4>1, <2>1 DEF Before
    <3> QED BY <3>2, <3>3
  <2> QED BY <2>1, <2>2, <2>3, <2>4 DEF Lists
<1> QED BY <1>1, <1>2

(* TAILQ_REMOVE removes just t and keeps the order of the others.          *)
LEMMA RemovedList ==
  ASSUME NEW s \in Lists, NEW t \in Timers
  PROVE  /\ Without(s, t) \in Lists
         /\ Elements(Without(s, t)) = Elements(s) \ {t}
         /\ \A u, v : Before(Without(s, t), u, v) <=> Before(s, u, v) /\ u # t /\ v # t
<1> DEFINE n == Len(s)
<1>1. CASE t \notin Elements(s)
  BY <1>1, BothListed DEF Without
<1>2. CASE t \in Elements(s)
  <2> DEFINE i == PlaceOf(s, t)
  <2> DEFINE r == SubSeq(s, 1, i - 1) \o SubSeq(s, i + 1, Len(s))
  <2> s \in Seq(Timers) /\ n \in Nat /\ DOMAIN s = 1 .. n
    BY DEF Lists
  <2>1. i \in 1 .. n /\ s[i] = t
    BY <1>2, PlaceInList
  <2>2. Without(s, t) = r
    BY <1>2 DEF Without, RemoveAt
  <2> HIDE DEF i
  <2>3. /\ SubSeq(s, 1, i - 1) \in Seq(Timers) /\ Len(SubSeq(s, 1, i - 1)) = i - 1
        /\ \A k \in 1 .. i - 1 : SubSeq(s, 1, i - 1)[k] = s[k]
    BY <2>1
  <2>4. /\ SubSeq(s, i + 1, n) \in Seq(Timers) /\ Len(SubSeq(s, i + 1, n)) = n - i
        /\ \A k \in 1 .. n - i : SubSeq(s, i + 1, n)[k] = s[i + k]
    <3>1. /\ SubSeq(s, i + 1, n) \in Seq(Timers)
          /\ Len(SubSeq(s, i + 1, n)) = IF i + 1 <= n THEN n - (i + 1) + 1 ELSE 0
          /\ \A k \in 1 .. n - (i + 1) + 1 : SubSeq(s, i + 1, n)[k] = s[(i + 1) + k - 1]
      BY <2>1, SubSeqProperties
    <3>2. \A k \in 1 .. n - i : (i + 1) + k - 1 = i + k
      BY <2>1
    <3> HIDE DEF n
    <3> QED BY <2>1, <3>1, <3>2
  <2>5. /\ r \in Seq(Timers) /\ DOMAIN r = 1 .. n - 1
        /\ \A k \in 1 .. n - 1 : r[k] = IF k < i THEN s[k] ELSE s[k + 1]
    <3> DEFINE a == SubSeq(s, 1, i - 1)
    <3> DEFINE b == SubSeq(s, i + 1, n)
    <3>1. r = a \o b
      OBVIOUS
    <3> HIDE DEF a, b, r
    <3>2. /\ a \in Seq(Timers) /\ Len(a) = i - 1 /\ \A k \in 1 .. i - 1 : a[k] = s[k]
          /\ b \in Seq(Timers) /\ Len(b) = n - i /\ \A k \in 1 .. n - i : b[k] = s[i + k]
      BY <2>3, <2>4 DEF a, b
    <3>3. /\ r \in Seq(Timers) /\ Len(r) = n - 1
          /\ \A k \in 1 .. n - 1 : r[k] = IF k <= i - 1 THEN a[k] ELSE b[k - (i - 1)]
      <4>1. /\ r \in Seq(Timers) /\ Len(r) = Len(a) + Len(b)
            /\ \A k \in 1 .. Len(a) + Len(b) :
                 r[k] = IF k <= Len(a) THEN a[k] ELSE b[k - Len(a)]
        BY <3>1, <3>2, ConcatProperties
      <4>2. Len(a) + Len(b) = n - 1
        BY <3>2, <2>1
      <4> QED BY <4>1, <4>2, <3>2
    <3>4. ASSUME NEW k \in 1 .. n - 1 PROVE r[k] = IF k < i THEN s[k] ELSE s[k + 1]
      <4>1. CASE k < i
        BY <4>1, <3>2, <3>3, <2>1
      <4>2. CASE ~(k < i)
        <5>1. k - (i - 1) \in 1 .. n - i /\ i + (k - (i - 1)) = k + 1
          BY <4>2, <2>1
        <5> QED BY <5>1, <4>2, <3>2, <3>3, <2>1
      <4> QED BY <4>1, <4>2
    <3> QED BY <3>3, <3>4
  <2> HIDE DEF r, n
  <2>6. \A k \in 1 .. n : s[k] = t <=> k = i
    BY <2>1 DEF Lists, Once
  <2> DEFINE old(k) == IF k < i THEN k ELSE k + 1
  <2>7. /\ \A k \in 1 .. n - 1 : old(k) \in 1 .. n /\ old(k) # i /\ r[k] = s[old(k)]
        /\ \A k, j \in 1 .. n - 1 : k < j <=> old(k) < old(j)
        /\ \A m \in 1 .. n : m # i => \E k \in 1 .. n - 1 : old(k) = m
    <3>1. \A k \in 1 .. n - 1 : old(k) \in 1 .. n /\ old(k) # i /\ r[k] = s[old(k)]
      BY <2>5, <2>1
    <3>2. \A k, j \in 1 .. n - 1 : k < j <=> old(k) < old(j)
      BY <2>1
    <3>3. ASSUME NEW m \in 1 .. n, m # i PROVE \E k \in 1 .. n - 1 : old(k) = m
      <4>1. CASE m < i
        <5>1. m \in 1 .. n - 1 /\ old(m) = m
          BY <4>1, <2>1
        <5> QED BY <5>1
      <4>2. CASE m > i
        <5>1. m - 1 \in 1 .. n - 1 /\ old(m - 1) = m
          BY <4>2, <2>1
        <5> QED BY <5>1
      <4> QED BY <4>1, <4>2, <3>3, <2>1
    <3> QED BY <3>1, <3>2, <3>3
  <2> HIDE DEF old
  <2>8. Once(r)
    <3> SUFFICES ASSUME NEW k \in 1 .. n - 1, NEW j \in 1 .. n - 1, r[k] = r[j] PROVE k = j
      BY <2>5 DEF Once
    <3>1. old(k) = old(j)
      BY <2>7 DEF Lists, Once
    <3>2. ~(k < j) /\ ~(j < k)
      <4>1. old(k) \in Int /\ old(j) \in Int
        BY <2>7
      <4> QED BY <4>1, <3>1, <2>7
    <3> QED BY <3>2
  <2>9. Elements(r) = Elements(s) \ {t}
    <3>1. \A v \in Elements(r) : v \in Elements(s) \ {t}
      <4> TAKE v \in Elements(r)
      <4>1. PICK k \in 1 .. n - 1 : v = r[k]
        BY <2>5 DEF Elements
      <4> QED BY <4>1, <2>6, <2>7 DEF Elements
    <3>2. \A v \in Elements(s) \ {t} : v \in Elements(r)
      <4> TAKE v \in Elements(s) \ {t}
      <4>1. PICK m \in 1 .. n : v = s[m]
        BY DEF Elements
      <4>2. PICK k \in 1 .. n - 1 : old(k) = m
        BY <4>1, <2>6, <2>7
      <4> QED BY <4>1, <4>2, <2>5, <2>7 DEF Elements
    <3> QED BY <3>1, <3>2
  <2>10. ASSUME NEW u, NEW v PROVE Before(r, u, v) <=> Before(s, u, v) /\ u # t /\ v # t
    <3>1. ASSUME Before(r, u, v) PROVE Before(s, u, v) /\ u # t /\ v # t
      <4>1. PICK k \in 1 .. n - 1, j \in 1 .. n - 1 : k < j /\ r[k] = u /\ r[j] = v
        BY <3>1, <2>5 DEF Before
      <4> QED BY <4>1, <2>6, <2>7 DEF Before
    <3>2. ASSUME Before(s, u, v), u # t, v # t PROVE Before(r, u, v)
      <4>1. PICK l \in 1 .. n, m \in 1 .. n : l < m /\ s[l] = u /\ s[m] = v
        BY <3>2 DEF Before
      <4>2. PICK k \in 1 .. n - 1, j \in 1 .. n - 1 : old(k) = l /\ old(j) = m
        BY <4>1, <3>2, <2>6, <2>7
      <4> QED BY <4>1, <4>2, <2>5, <2>7 DEF Before
    <3> QED BY <3>1, <3>2
  <2> QED BY <2>2, <2>5, <2>8, <2>9, <2>10 DEF Lists
<1> QED BY <1>1, <1>2

(* TAILQ_NEXT is the first of the elements behind t.                       *)
LEMMA NextInList ==
  ASSUME NEW s \in Lists, NEW t \in Elements(s), NoTimer \notin Timers
  PROVE  IF NextIn(s, t) = NoTimer
           THEN \A v : ~Before(s, t, v)
           ELSE /\ NextIn(s, t) \in Elements(s) \ {t}
                /\ \A v : Before(s, t, v) <=> v = NextIn(s, t) \/ Before(s, NextIn(s, t), v)
<1> DEFINE n == Len(s)
<1> DEFINE i == PlaceOf(s, t)
<1> s \in Seq(Timers) /\ n \in Nat /\ DOMAIN s = 1 .. n
  BY DEF Lists
<1>1. i \in 1 .. n /\ s[i] = t
  BY PlaceInList
<1>2. NextIn(s, t) = IF i < n THEN s[i + 1] ELSE NoTimer
  BY DEF NextIn
<1> HIDE DEF n, i
<1>3. \A k, j \in 1 .. n : s[k] = s[j] => k = j
  BY DEF Lists, Once
<1>4. CASE i < n
  <2>1. i + 1 \in 1 .. n /\ NextIn(s, t) = s[i + 1] /\ s[i + 1] \in Timers
    BY <1>1, <1>2, <1>4
  <2>2. NextIn(s, t) \in Elements(s) \ {t} /\ NextIn(s, t) # NoTimer
    BY <2>1, <1>1, <1>3 DEF Elements
  <2>3. ASSUME NEW v, Before(s, t, v) PROVE v = NextIn(s, t) \/ Before(s, NextIn(s, t), v)
    <3>1. PICK k \in 1 .. n, j \in 1 .. n : k < j /\ s[k] = t /\ s[j] = v
      BY <2>3 DEF Before
    <3>2. k = i
      BY <3>1, <1>1, <1>3
    <3>3. j = i + 1 \/ i + 1 < j
      BY <3>1, <3>2
    <3> QED BY <3>1, <3>3, <2>1 DEF Before
  <2>4. ASSUME NEW v, v = NextIn(s, t) \/ Before(s, NextIn(s, t), v) PROVE Before(s, t, v)
    <3>1. CASE v = NextIn(s, t)
      BY <3>1, <2>1, <1>1 DEF Before
    <3>2. CASE Before(s, NextIn(s, t), v)
      <4>1. PICK k \in 1 .. n, j \in 1 .. n : k < j /\ s[k] = s[i + 1] /\ s[j] = v
        BY <3>2, <2>1 DEF Before
      <4>2. k = i + 1
        BY <4>1, <2>1, <1>3
      <4>3. i < j
        BY <4>1, <4>2, <1>1
      <4> QED BY <4>1, <4>3, <1>1 DEF Before
    <3> QED BY <2>4, <3>1, <3>2
  <2> QED BY <2>2, <2>3, <2>4
<1>5. CASE ~(i < n)
  <2>1. NextIn(s, t) = NoTimer
    BY <1>2, <1>5
  <2>2. ASSUME NEW v, Before(s, t, v) PROVE FALSE
    <3>1. PICK k \in 1 .. n, j \in 1 .. n : k < j /\ s[k] = t /\ s[j] = v
      BY <2>2 DEF Before
    <3>2. k = i
      BY <3>1, <1>1, <1>3
    <3> QED BY <3>1, <3>2, <1>1, <1>5
  <2> QED BY <2>1, <2>2
<1> QED BY <1>4, <1>5

(* The first element is in front of all others.                            *)
LEMMA HeadOfList ==
  ASSUME NEW s \in Lists, s # <<>>
  PROVE  /\ Head(s) \in Elements(s)
         /\ \A v \in Elements(s) : v = Head(s) \/ Before(s, Head(s), v)
<1> s \in Seq(Timers) /\ Len(s) \in Nat \ {0} /\ DOMAIN s = 1 .. Len(s) /\ Head(s) = s[1]
  BY DEF Lists
<1>1. Head(s) \in Elements(s)
  BY DEF Elements
<1>2. ASSUME NEW v \in Elements(s) PROVE v = Head(s) \/ Before(s, Head(s), v)
  <2>1. PICK j \in 1 .. Len(s) : v = s[j]
    BY DEF Elements
  <2>2. j = 1 \/ 1 < j
    OBVIOUS
  <2> QED BY <2>1, <2>2 DEF Before
<1> QED BY <1>1, <1>2
-----------------------------------------------------------------------------
(* The clock modulo TimeMod.                                               *)
LEMMA ModOnce ==
  ASSUME NEW x \in Int
  PROVE  /\ 0 <= x /\ x < TimeMod => x % TimeMod = x
         /\ TimeMod <= x /\ x < 2 * TimeMod => x % TimeMod = x - TimeMod
         /\ 0 - TimeMod <= x /\ x < 0 => x % TimeMod = x + TimeMod
<1> USE ClockAssumption
<1>1. 0 <= x /\ x < TimeMod => x % TimeMod = x
  OBVIOUS
<1>2. TimeMod <= x /\ x < 2 * TimeMod => x % TimeMod = x - TimeMod
  OBVIOUS
<1>3. 0 - TimeMod <= x /\ x < 0 => x % TimeMod = x + TimeMod
  OBVIOUS
<1> QED BY <1>1, <1>2, <1>3

Clock == 0 .. TimeMod - 1

LEMMA ElapsedIs ==
  ASSUME NEW a \in Clock, NEW b \in Clock
  PROVE  (a - b) % TimeMod = IF b <= a THEN a - b ELSE a - b + TimeMod
BY ModOnce, ClockAssumption DEF Clock

(* A tick adds one, but for the wrap; rearming takes the interval away.    *)
LEMMA ElapsedTick ==
  ASSUME NEW a \in Clock, NEW b \in Clock
  PROVE  /\ (a + 1) % TimeMod \in Clock
         /\ (((a + 1) % TimeMod) - b) % TimeMod =
              IF ((a - b) % TimeMod) + 1 < TimeMod THEN ((a - b) % TimeMod) + 1 ELSE 0
<1> DEFINE c == (a + 1) % TimeMod
<1>1. c = IF a + 1 < TimeMod THEN a + 1 ELSE 0
  BY ModOnce, ClockAssumption DEF Clock
<1>2. c \in Clock
  BY <1>1, ClockAssumption DEF Clock
<1>3. (c - b) % TimeMod = IF b <= c THEN c - b ELSE c - b + TimeMod
  BY <1>2, ElapsedIs
<1>4. (a - b) % TimeMod = IF b <= a THEN a - b ELSE a - b + TimeMod
  BY ElapsedIs
<1> HIDE DEF c
<1>5. (c - b) % TimeMod = IF ((a - b) % TimeMod) + 1 < TimeMod THEN ((a - b) % TimeMod) + 1 ELSE 0
  BY <1>1, <1>3, <1>4, ClockAssumption DEF Clock
<1> QED BY <1>2, <1>5 DEF c

LEMMA ElapsedRearmed ==
  ASSUME NEW a \in Clock, NEW b \in Clock, NEW i \in Nat, i <= (a - b) % TimeMod
  PROVE  (a - ((b + i) % TimeMod)) % TimeMod = ((a - b) % TimeMod) - i
<1> DEFINE c == (b + i) % TimeMod
<1>1. (a - b) % TimeMod = IF b <= a THEN a - b ELSE a - b + TimeMod
  BY ElapsedIs
<1>2. i < TimeMod
  BY <1>1, ClockAssumption DEF Clock
<1>3. c = IF b + i < TimeMod THEN b + i ELSE b + i - TimeMod
  BY <1>2, ModOnce, ClockAssumption DEF Clock
<1>4. c \in Clock
  BY <1>2, <1>3, ClockAssumption DEF Clock
<1>5. (a - c) % TimeMod = IF c <= a THEN a - c ELSE a - c + TimeMod
  BY <1>4, ElapsedIs
<1> HIDE DEF c
<1>6. (a - c) % TimeMod = ((a - b) % TimeMod) - i
  <2>1. CASE b <= a
    <3>1. c = b + i /\ c <= a
      BY <2>1, <1>1, <1>3, ClockAssumption DEF Clock
    <3> QED BY <2>1, <3>1, <1>1, <1>5 DEF Clock
  <2>2. CASE ~(b <= a)
    <3>1. CASE b + i < TimeMod
      BY <2>2, <3>1, <1>1, <1>3, <1>5, ClockAssumption DEF Clock
    <3>2. CASE ~(b + i < TimeMod)
      <4>1. c = b + i - TimeMod /\ c <= a
        BY <2>2, <3>2, <1>1, <1>3, ClockAssumption DEF Clock
      <4> QED BY <2>2, <4>1, <1>1, <1>5, ClockAssumption DEF Clock
    <3> QED BY <3>1, <3>2
  <2> QED BY <2>1, <2>2
<1> QED BY <1>6 DEF c

LEMMA ClockTypes ==
  /\ 0 \in Clock
  /\ \A x \in Int : x % TimeMod \in Clock
BY ClockAssumption DEF Clock
-----------------------------------------------------------------------------
(* The walk is at a timer of the list, or at an IRQ timer whose callback   *)
(* has stopped it and whose link leads back into the list.                 *)
CurOnWay ==
  /\ walk = "check" => Listed(cur)
  /\ walk = "settle" =>
       \/ Listed(cur)
       \/ Type[cur] = "IRQ_PERIODICAL" /\ stale \in Elements(timers) \cup {NoTimer}

(* What an expired timer is between its callback and the end of its turn:  *)
(* an interrupt may start a one-shot, but that start is cut; no interrupt  *)
(* touches the others.                                                     *)
Settling ==
  walk = "settle" =>
    IF Type[cur] = "ONESHOT"
      THEN client[cur] # "started"
      ELSE /\ Listed(cur) => TimedOut(cur)
           /\ Type[cur] # "IRQ_ONESHOT" => (Listed(cur) <=> client[cur] = "started")

(* The clock modulo TimeMod never shows more than the time that passed.    *)
ClockBehind == \A t \in Timers : Listed(t) => Elapsed(t) <= age[t]

(* The inductive invariant.                                                *)
IInv == /\ TypeOK /\ ListedOnce /\ CurOnWay /\ Settling
        /\ ListedIffRunning /\ ClockBehind

LEMMA TimersAreList == TypeOK /\ ListedOnce <=> TypeOK /\ timers \in Lists
BY DEF TypeOK, ListedOnce, Lists, Once

LEMMA ElementsInList == \A s \in Seq(Timers) : Elements(s) \subseteq Timers
BY DEF Elements

LEMMA ElapsedNow == \A a \in Clock : (a - a) % TimeMod = 0
BY ElapsedIs DEF Clock

LEMMA InitIInv == Init => IInv
<1> SUFFICES ASSUME Init PROVE IInv
  OBVIOUS
<1> USE DEF Init
<1>1. TypeOK
  <2>1. timers \in Seq(Timers) /\ 0 \in 0 .. TimeMod - 1
    BY ClockTypes DEF Clock
  <2>2. /\ start \in [Timers -> 0 .. TimeMod - 1] /\ now \in 0 .. TimeMod - 1
        /\ age \in [Timers -> Int]
        /\ client \in [Timers -> {"started", "cut", "fired", "stopped"}]
    BY <2>1
  <2>3. cur = NoTimer /\ walk = "out" /\ stale = NoTimer /\ masked = FALSE
    OBVIOUS
  <2> HIDE DEF Init
  <2> QED BY <2>1, <2>2, <2>3 DEF TypeOK
<1>2. Elements(timers) = {}
  BY DEF Elements
<1> QED BY <1>1, <1>2
      DEF IInv, ListedOnce, CurOnWay, Settling, ListedIffRunning, ClockBehind, Listed

(* The operations of the interface, called outside the walk or, for a      *)
(* one-shot, by an interrupt handler that cuts into it.                    *)
LEMMA StartKeeps ==
  ASSUME IInv, NEW t \in Timers, StartTimer(t), walk = "out" \/ Type[t] = "ONESHOT",
         UNCHANGED <<now, cur, walk, stale, masked>>
  PROVE  IInv'
<1> USE DEF IInv, StartTimer
<1>1. timers' \in Lists /\ Elements(timers') = Elements(timers) \cup {t}
  BY StartedList, TimersAreList
<1>2. TypeOK' /\ ListedOnce'
  BY <1>1 DEF TypeOK, ListedOnce, Lists, Once
<1>3. CurOnWay'
  BY <1>1 DEF CurOnWay, Listed
<1>4. Settling'
  BY <1>1, NoTimerAssumption DEF Settling, Listed, TimedOut, Elapsed, TypeOK
<1>5. ListedIffRunning'
  BY <1>1 DEF ListedIffRunning, Listed, TypeOK
<1>6. ClockBehind'
  BY <1>1, ElapsedNow DEF ClockBehind, Listed, Elapsed, TypeOK, Clock
<1> QED BY <1>2, <1>3, <1>4, <1>5, <1>6

LEMMA ResetKeeps ==
  ASSUME IInv, NEW t \in Timers, ResetTimer(t), walk = "out" \/ Type[t] = "ONESHOT",
         UNCHANGED <<now, cur, walk, stale, masked>>
  PROVE  IInv'
<1> USE DEF IInv, ResetTimer
<1>1. TypeOK' /\ ListedOnce' /\ CurOnWay' /\ ListedIffRunning'
  BY DEF TypeOK, ListedOnce, CurOnWay, ListedIffRunning, Listed
<1>2. Settling'
  BY DEF Settling, Listed, TimedOut, Elapsed, TypeOK
<1>3. ClockBehind'
  BY ElapsedNow DEF ClockBehind, Listed, Elapsed, TypeOK, Clock
<1> QED BY <1>1, <1>2, <1>3

LEMMA StopKeeps ==
  ASSUME IInv, NEW t \in Timers, StopTimer(t), walk = "out",
         UNCHANGED <<now, cur, walk, stale, masked>>
  PROVE  IInv'
<1> USE DEF IInv, StopTimer
<1>1. timers' \in Lists /\ Elements(timers') = Elements(timers) \ {t}
  BY RemovedList, TimersAreList
<1>2. TypeOK' /\ ListedOnce'
  BY <1>1 DEF TypeOK, ListedOnce, Lists, Once
<1>3. CurOnWay' /\ Settling'
  BY DEF CurOnWay, Settling
<1>4. ListedIffRunning'
  BY <1>1 DEF ListedIffRunning, Listed, TypeOK
<1>5. ClockBehind'
  BY <1>1 DEF ClockBehind, Listed, Elapsed, TypeOK
<1> QED BY <1>2, <1>3, <1>4, <1>5

LEMMA TickKeeps == IInv /\ Tick => IInv'
<1> SUFFICES ASSUME IInv, Tick PROVE IInv'
  OBVIOUS
<1> USE DEF IInv, Tick, list
<1>1. now' \in Clock
  BY ElapsedTick DEF TypeOK, Clock
<1>2. timers # <<>> => Head(timers) \in Elements(timers) /\ Head(timers) \in Timers
  BY HeadOfList, TimersAreList DEF TypeOK
<1>3. TypeOK' /\ ListedOnce'
  <2>1. age' \in [Timers -> Int]
    BY DEF TypeOK
  <2>2. now' \in 0 .. TimeMod - 1
    BY <1>1 DEF Clock
  <2>3. CASE timers = <<>>
    BY <2>1, <2>2, <2>3 DEF TypeOK, ListedOnce
  <2>4. CASE timers # <<>>
    BY <2>1, <2>2, <2>4, <1>2, NoTimerAssumption DEF TypeOK, ListedOnce
  <2> QED BY <2>3, <2>4
<1>4. CurOnWay' /\ Settling'
  BY <1>2 DEF CurOnWay, Settling, Listed
<1>5. ListedIffRunning'
  BY DEF ListedIffRunning, Listed
<1>6. ClockBehind'
  <2> SUFFICES ASSUME NEW t \in Timers, Listed(t) PROVE Elapsed(t)' <= age'[t]
    BY DEF ClockBehind, Listed
  <2>1. Elapsed(t)' <= Elapsed(t) + 1
    <3>1. now \in Clock /\ start[t] \in Clock /\ start' = start /\ now' = (now + 1) % TimeMod
      BY DEF TypeOK, Clock
    <3>2. Elapsed(t)' = IF Elapsed(t) + 1 < TimeMod THEN Elapsed(t) + 1 ELSE 0
      BY <3>1, ElapsedTick DEF Elapsed
    <3>3. Elapsed(t) \in Clock
      <4>1. now - start[t] \in Int
        BY <3>1 DEF Clock
      <4> QED BY <4>1, ClockTypes DEF Elapsed
    <3> QED BY <3>2, <3>3, ClockAssumption DEF Clock
  <2>2. age'[t] = age[t] + 1 /\ age[t] \in Int /\ Elapsed(t) <= age[t]
    BY DEF TypeOK, ClockBehind
  <2>3. Elapsed(t) \in Int /\ Elapsed(t)' \in Int
    <3>1. \A a, b \in Clock : (a - b) % TimeMod \in Int
      BY ClockTypes DEF Clock
    <3>2. now \in Clock /\ start[t] \in Clock /\ now' \in Clock /\ start' = start
      BY <1>1 DEF TypeOK, Clock
    <3> QED BY <3>1, <3>2 DEF Elapsed
  <2> QED BY <2>1, <2>2, <2>3
<1> QED BY <1>3, <1>4, <1>5, <1>6

(* Where the walk goes on from cur.                                        *)
LEMMA NextIsListed ==
  ASSUME IInv, walk # "out"
  PROVE  /\ NextOfCur \in (Elements(timers) \ {cur}) \cup {NoTimer, stale}
         /\ NextOfCur \in Elements(timers) \cup {NoTimer}
         /\ Listed(cur) => NextOfCur # cur
<1>1. CASE Listed(cur)
  <2>1. cur \in Timers /\ timers \in Lists
    BY <1>1, TimersAreList, NoTimerAssumption DEF IInv, TypeOK
  <2> QED BY <1>1, <2>1, NextInList, NoTimerAssumption DEF NextOfCur, Listed
<1>2. CASE ~Listed(cur)
  BY <1>2 DEF NextOfCur, IInv, CurOnWay, TypeOK
<1> QED BY <1>1, <1>2

LEMMA NotExpiredKeeps == IInv /\ NotExpired => IInv'
<1> SUFFICES ASSUME IInv, NotExpired PROVE IInv'
  OBVIOUS
<1> USE DEF IInv, NotExpired, list, ghost
<1>1. NextOfCur \in Elements(timers) \cup {NoTimer} /\ Elements(timers) \subseteq Timers
  BY NextIsListed DEF Elements, TypeOK
<1>2. TypeOK' /\ ListedOnce'
  BY <1>1, NoTimerAssumption DEF TypeOK, ListedOnce, WalkTo
<1>3. CurOnWay' /\ Settling'
  BY <1>1 DEF CurOnWay, Settling, Listed, WalkTo
<1>4. ListedIffRunning' /\ ClockBehind'
  BY DEF ListedIffRunning, ClockBehind, Listed, Elapsed, WalkTo
<1> QED BY <1>2, <1>3, <1>4

LEMMA ExpireToTaskKeeps == IInv /\ ExpireToTask => IInv'
<1> SUFFICES ASSUME IInv, ExpireToTask PROVE IInv'
  OBVIOUS
<1> USE DEF IInv, ExpireToTask, Expired, list
<1>1. cur \in Timers
  BY DEF TypeOK
<1>2. TypeOK' /\ ListedOnce'
  BY <1>1 DEF TypeOK, ListedOnce
<1>3. CurOnWay'
  BY DEF CurOnWay, Listed
<1>4. Settling'
  BY <1>1 DEF Settling, Listed, TimedOut, Elapsed, TypeOK, CurOnWay, ListedIffRunning
<1>5. ListedIffRunning' /\ ClockBehind'
  BY DEF ListedIffRunning, ClockBehind, Listed, Elapsed, TypeOK
<1> QED BY <1>2, <1>3, <1>4, <1>5

LEMMA ExpireInIrqKeeps == IInv /\ ExpireInIrq => IInv'
<1> SUFFICES ASSUME IInv, ExpireInIrq PROVE IInv'
  OBVIOUS
<1> USE DEF IInv, ExpireInIrq, Expired, list
<1>1. cur \in Timers /\ Listed(cur) /\ TimedOut(cur) /\ timers \in Lists
  BY TimersAreList DEF TypeOK, CurOnWay
<1>2. CASE IrqCallbackPlain
  <2> USE <1>2 DEF IrqCallbackPlain, IrqFired
  <2>1. TypeOK' /\ ListedOnce'
    BY <1>1 DEF TypeOK, ListedOnce
  <2>2. CurOnWay'
    BY <1>1 DEF CurOnWay, Listed
  <2>3. Settling'
    BY <1>1 DEF Settling, Listed, TimedOut, Elapsed, TypeOK, ListedIffRunning
  <2>4. ListedIffRunning' /\ ClockBehind'
    BY DEF ListedIffRunning, ClockBehind, Listed, Elapsed, TypeOK
  <2> QED BY <2>1, <2>2, <2>3, <2>4
<1>3. CASE IrqCallbackStops
  <2> USE <1>3 DEF IrqCallbackStops, StopTimer
  <2>1. timers' \in Lists /\ Elements(timers') = Elements(timers) \ {cur}
    BY <1>1, RemovedList
  <2>2. stale' \in Elements(timers') \cup {NoTimer}
    BY <1>1, <2>1, NextInList, NoTimerAssumption DEF Listed
  <2>3. TypeOK' /\ ListedOnce'
    <3>1. timers' \in Seq(Timers) /\ ListedOnce' /\ stale' \in Timers \cup {NoTimer}
      BY <2>1, <2>2, ElementsInList DEF ListedOnce, Lists, Once
    <3>2. age' \in [Timers -> Int] /\ client' \in [Timers -> {"started", "cut", "fired", "stopped"}]
      BY DEF TypeOK
    <3> QED BY <1>1, <3>1, <3>2 DEF TypeOK
  <2>4. CurOnWay'
    BY <2>2 DEF CurOnWay
  <2>5. Settling'
    BY <1>1, <2>1 DEF Settling, Listed, TypeOK
  <2>6. ListedIffRunning' /\ ClockBehind'
    BY <2>1 DEF ListedIffRunning, ClockBehind, Listed, Elapsed, TypeOK
  <2> QED BY <2>3, <2>4, <2>5, <2>6
<1>4. CASE IrqCallbackStarts
  <2> USE <1>4 DEF IrqCallbackStarts
  <2>0. PICK t \in StartableInIrq : StartTimer(t)
    OBVIOUS
  <2> USE <2>0 DEF StartTimer, StartableInIrq
  <2>1. timers' \in Lists /\ Elements(timers') = Elements(timers) \cup {t}
    BY <1>1, StartedList
  <2>2. TypeOK' /\ ListedOnce'
    <3>1. timers' \in Seq(Timers) /\ ListedOnce'
      BY <2>1 DEF ListedOnce, Lists, Once
    <3>2. /\ start' \in [Timers -> 0 .. TimeMod - 1] /\ age' \in [Timers -> Int]
          /\ client' \in [Timers -> {"started", "cut", "fired", "stopped"}]
      BY DEF TypeOK
    <3> QED BY <1>1, <3>1, <3>2 DEF TypeOK
  <2>3. CurOnWay'
    BY <1>1, <2>1 DEF CurOnWay, Listed
  <2>4. Settling'
    BY <1>1, <2>1 DEF Settling, Listed, TimedOut, Elapsed, TypeOK, ListedIffRunning
  <2>5. ListedIffRunning'
    BY <2>1 DEF ListedIffRunning, Listed, TypeOK
  <2>6. ClockBehind'
    BY <2>1, ElapsedNow DEF ClockBehind, Listed, Elapsed, TypeOK, Clock
  <2> QED BY <2>2, <2>3, <2>4, <2>5, <2>6
<1>5. CASE IrqCallbackStopsAndStarts
  <2> USE <1>5 DEF IrqCallbackStopsAndStarts, StartableInIrq
  <2>0. PICK t \in StartableInIrq :
          /\ timers' = ListStarted(Without(timers, cur), t)
          /\ start' = [start EXCEPT ![t] = now]
          /\ age' = [age EXCEPT ![cur] = 0, ![t] = 0]
          /\ client' = [client EXCEPT ![cur] = "stopped", ![t] = "started"]
    OBVIOUS
  <2> USE <2>0
  <2>1. timers' \in Lists /\ Elements(timers') = (Elements(timers) \ {cur}) \cup {t}
    BY <1>1, StartedList, RemovedList
  <2>2. stale' \in Elements(timers') \cup {NoTimer}
    BY <1>1, <2>1, NextInList, NoTimerAssumption DEF Listed
  <2>3. TypeOK' /\ ListedOnce'
    <3>1. timers' \in Seq(Timers) /\ ListedOnce' /\ stale' \in Timers \cup {NoTimer}
      BY <2>1, <2>2, ElementsInList DEF ListedOnce, Lists, Once
    <3>2. start' \in [Timers -> 0 .. TimeMod - 1] /\ age' \in [Timers -> Int]
      BY DEF TypeOK
    <3>3. client' \in [Timers -> {"started", "cut", "fired", "stopped"}]
      BY DEF TypeOK
    <3> QED BY <1>1, <3>1, <3>2, <3>3 DEF TypeOK
  <2>4. CurOnWay'
    BY <2>2 DEF CurOnWay
  <2>5. Settling'
    BY <1>1, <2>1 DEF Settling, Listed, TypeOK
  <2>6. ListedIffRunning'
    BY <1>1, <2>1 DEF ListedIffRunning, Listed, TypeOK
  <2>7. ClockBehind'
    BY <1>1, <2>1, ElapsedNow DEF ClockBehind, Listed, Elapsed, TypeOK, Clock
  <2> QED BY <2>3, <2>4, <2>5, <2>6, <2>7
<1> QED BY <1>2, <1>3, <1>4, <1>5

LEMMA SettleOneShotKeeps == IInv /\ SettleOneShot => IInv'
<1> SUFFICES ASSUME IInv, SettleOneShot PROVE IInv'
  OBVIOUS
<1> DEFINE tmp == NextOfCur
<1> DEFINE next == IF tmp = NoTimer THEN NoTimer ELSE NextIn(timers, tmp)
<1>1. cur \in Timers /\ Listed(cur) /\ timers \in Lists
  BY TimersAreList DEF IInv, SettleOneShot, TypeOK, CurOnWay
<1>2. timers' \in Lists /\ Elements(timers') = Elements(timers) \ {cur}
  BY <1>1, RemovedList DEF SettleOneShot
<1>3. next \in Elements(timers') \cup {NoTimer}
  <2>1. CASE tmp = NoTimer
    BY <2>1
  <2>2. CASE tmp # NoTimer
    <3>1. tmp \in Elements(timers) /\ Before(timers, cur, tmp)
      BY <1>1, <2>2, NextInList, NoTimerAssumption DEF NextOfCur, Listed
    <3>2. ~Before(timers, tmp, cur)
      BY <1>1, <3>1 DEF Before, Lists, Once
    <3> QED BY <1>2, <2>2, <3>1, <3>2, <1>1, NextInList, NoTimerAssumption
  <2> QED BY <2>1, <2>2
<1>4. WalkTo(next)
  BY DEF SettleOneShot
<1> HIDE DEF tmp, next
<1> USE DEF IInv, SettleOneShot
<1>5. TypeOK' /\ ListedOnce'
  <2>1. timers' \in Seq(Timers) /\ ListedOnce' /\ next \in Timers \cup {NoTimer}
    BY <1>2, <1>3, ElementsInList DEF ListedOnce, Lists, Once
  <2>2. age' \in [Timers -> Int]
    BY DEF TypeOK
  <2> QED BY <2>1, <2>2, <1>4, NoTimerAssumption DEF TypeOK, WalkTo
<1>6. CurOnWay' /\ Settling'
  BY <1>3, <1>4 DEF CurOnWay, Settling, Listed, WalkTo
<1>7. ListedIffRunning'
  BY <1>1, <1>2, <1>4 DEF ListedIffRunning, Listed, WalkTo, Settling
<1>8. ClockBehind'
  BY <1>1, <1>2 DEF ClockBehind, Listed, Elapsed, TypeOK
<1> QED BY <1>5, <1>6, <1>7, <1>8

LEMMA SettlePeriodicKeeps == IInv /\ SettlePeriodic => IInv'
<1> SUFFICES ASSUME IInv, SettlePeriodic PROVE IInv'
  OBVIOUS
<1> USE DEF IInv, SettlePeriodic
<1>1. NextOfCur \in Elements(timers) \cup {NoTimer} /\ Elements(timers) \subseteq Timers
  BY NextIsListed DEF Elements, TypeOK
<1>2. cur \in Timers /\ Interval[cur] \in Nat
  BY IntervalAssumption DEF TypeOK
<1>3. start' \in [Timers -> 0 .. TimeMod - 1]
  <2>1. start[cur] + Interval[cur] \in Int
    BY <1>2, ClockAssumption DEF TypeOK
  <2>2. (start[cur] + Interval[cur]) % TimeMod \in 0 .. TimeMod - 1
    BY <2>1, ClockTypes DEF Clock
  <2> QED BY <1>2, <2>2 DEF TypeOK
<1>4. TypeOK' /\ ListedOnce'
  <2>1. age' \in [Timers -> Int]
    BY <1>2 DEF TypeOK
  <2> QED BY <1>1, <1>3, <2>1, NoTimerAssumption DEF TypeOK, ListedOnce, WalkTo
<1>5. CurOnWay' /\ Settling'
  BY <1>1 DEF CurOnWay, Settling, Listed, WalkTo
<1>6. ListedIffRunning'
  BY DEF ListedIffRunning, Listed, WalkTo, Settling
<1>7. ClockBehind'
  <2> SUFFICES ASSUME NEW t \in Timers, Listed(t)
                PROVE  (now' - start'[t]) % TimeMod <= age'[t]
    BY DEF ClockBehind, Listed, Elapsed
  <2>1. CASE t # cur
    BY <2>1 DEF ClockBehind, Elapsed, TypeOK
  <2>2. CASE t = cur
    <3>1. Interval[cur] <= Elapsed(cur)
      BY <2>2, <1>2, ClockTypes DEF Settling, TimedOut, Elapsed, TypeOK, Clock
    <3>2. (now' - start'[cur]) % TimeMod = Elapsed(cur) - Interval[cur]
      <4>1. now \in Clock /\ start[cur] \in Clock
        BY <1>2 DEF TypeOK, Clock
      <4>2. now' = now /\ cur \in Timers
            /\ start'[cur] = (start[cur] + Interval[cur]) % TimeMod
        BY <1>2 DEF TypeOK
      <4> QED BY <1>2, <3>1, <4>1, <4>2, ElapsedRearmed DEF Elapsed
    <3>3. age'[cur] = age[cur] - Interval[cur] /\ age[cur] \in Int
      BY <1>2, <2>2 DEF TypeOK
    <3>4. Elapsed(cur) \in Int /\ Elapsed(cur) <= age[cur]
      BY <1>2, <2>2, ClockTypes DEF Elapsed, TypeOK, Clock, ClockBehind
    <3> QED BY <1>2, <2>2, <3>2, <3>3, <3>4
  <2> QED BY <2>1, <2>2
<1> QED BY <1>4, <1>5, <1>6, <1>7

LEMMA StepKeeps == IInv /\ [Next]_vars => IInv'
<1> SUFFICES ASSUME IInv, [Next]_vars PROVE IInv'
  OBVIOUS
<1>1. CASE Call
  BY <1>1, StartKeeps, ResetKeeps, StopKeeps DEF Call
<1>2. CASE Interrupt
  BY <1>2, StartKeeps, ResetKeeps, IsrTimersAssumption DEF Interrupt
<1>3. CASE Tick
  BY <1>3, TickKeeps
<1>4. CASE Walk
  BY <1>4, NotExpiredKeeps, ExpireToTaskKeeps, ExpireInIrqKeeps, SettleOneShotKeeps,
     SettlePeriodicKeeps DEF Walk
<1>5. CASE UNCHANGED <<timers, start, now, cur, walk, stale, masked, age, client>>
  BY <1>5 DEF IInv, TypeOK, ListedOnce, CurOnWay, Settling, ListedIffRunning, ClockBehind,
              Listed, TimedOut, Elapsed
<1>6. CASE OtherPush \/ RunTask \/ UNCHANGED vars
  BY <1>5, <1>6 DEF OtherPush, RunTask, vars, list, ghost
<1> QED BY <1>1, <1>2, <1>3, <1>4, <1>6 DEF Next

THEOREM Invariant == Spec => []IInv
BY InitIInv, StepKeeps, PTL DEF Spec

(* The list, the clock and the walk keep their types and agree.            *)
THEOREM TypeCorrect == Spec => []TypeOK
BY Invariant, PTL DEF IInv

(* No timer is ever linked twice, whatever is started, and by whom.        *)
THEOREM NoDoubleLink == Spec => []ListedOnce
BY Invariant, PTL DEF IInv

(* The list holds just the timers that their clients believe to run.       *)
THEOREM ListIsTruth == Spec => []ListedIffRunning
BY Invariant, PTL DEF IInv

(* No callback comes early, for any interval and any width of the clock:   *)
(* the walk sees no more milliseconds than have passed.                    *)
THEOREM NoCallbackEarly == Spec => NeverEarly
<1>1. ASSUME IInv, [Next]_vars
      PROVE  [walk = "check" /\ walk' = "settle" => age[cur] >= Interval[cur]]_vars
  <2> SUFFICES ASSUME Next, walk = "check", walk' = "settle" PROVE age[cur] >= Interval[cur]
    BY <1>1
  <2>1. ExpireToTask \/ ExpireInIrq
    BY DEF Next, Call, Interrupt, Tick, Walk, NotExpired, WalkTo, SettleOneShot,
           SettlePeriodic, OtherPush, RunTask
  <2>2. TimedOut(cur)
    BY <2>1 DEF ExpireToTask, ExpireInIrq, Expired
  <2>3. cur \in Timers /\ Elapsed(cur) <= age[cur] /\ age[cur] \in Int
    BY <1>1 DEF IInv, TypeOK, CurOnWay, ClockBehind
  <2>4. Elapsed(cur) \in Int /\ Interval[cur] \in Int
    <3>1. now - start[cur] \in Int
      BY <1>1, <2>3 DEF IInv, TypeOK
    <3> QED BY <2>3, <3>1, ClockTypes, IntervalAssumption DEF Elapsed, Clock
  <2> QED BY <2>2, <2>3, <2>4 DEF TimedOut
<1> QED BY <1>1, Invariant, PTL DEF Spec, NeverEarly

-----------------------------------------------------------------------------
(* How late a callback may be.  Room(t) bounds the one-shots that may yet  *)
(* fire ahead of t, and Due(t) says that the walk has still to visit t     *)
(* when it is done with cur.  A timer that is skipped gains room, because  *)
(* the one-shot that fired was ahead of it.                                *)
Room(t) == Cardinality((OneShots \ {t}) \ Ahead(t))

From == IF Listed(cur) THEN cur ELSE stale

Due(t) == walk # "out" /\ (t = From \/ Before(timers, From, t))

InTime(t) ==
  /\ age[t] \in Nat /\ Elapsed(t) = age[t]
  /\ age[t] <= Interval[t] + Room(t)
  /\ ~Due(t) => age[t] < Interval[t] + Room(t)

OnTime == \A t \in Timers : Listed(t) => InTime(t)

LEMMA AheadIsBefore ==
  \A u, t : /\ u \in Ahead(t) <=> Before(timers, u, t)
            /\ u \in Ahead(t)' <=> Before(timers', u, t)
BY DEF Ahead, Before

LEMMA FiniteOneShots ==
  ASSUME NEW T \in SUBSET OneShots
  PROVE  /\ IsFiniteSet(T) /\ Cardinality(T) \in Nat
         /\ Cardinality(OneShots) \in Nat /\ Cardinality(T) <= Cardinality(OneShots)
<1>1. IsFiniteSet(OneShots)
  BY ShortIntervalAssumption, FS_Subset DEF OneShots
<1> QED BY <1>1, FS_Subset, FS_CardinalityType

LEMMA RoomBounds ==
  ASSUME NEW t \in Timers
  PROVE  /\ Room(t) \in Nat /\ Room(t)' \in Nat
         /\ Interval[t] \in Nat \ {0} /\ TimeMod \in Nat
         /\ Interval[t] + Room(t) < TimeMod
<1>1. /\ (OneShots \ {t}) \ Ahead(t) \in SUBSET OneShots
      /\ (OneShots \ {t}) \ Ahead(t)' \in SUBSET OneShots
  OBVIOUS
<1>2. Room(t) \in Nat /\ Room(t)' \in Nat /\ Room(t) <= Cardinality(OneShots)
      /\ Cardinality(OneShots) \in Nat
  BY <1>1, FiniteOneShots DEF Room
<1>3. Interval[t] + Cardinality(OneShots) < TimeMod
  BY ShortIntervalAssumption
<1> QED BY <1>2, <1>3, IntervalAssumption, ClockAssumption

LEMMA RoomGrows ==
  ASSUME NEW t \in Timers, Ahead(t)' \subseteq Ahead(t)
  PROVE  /\ Room(t) <= Room(t)'
         /\ \A c \in OneShots \ {t} : c \in Ahead(t) /\ c \notin Ahead(t)' => Room(t) < Room(t)'
<1> DEFINE A == (OneShots \ {t}) \ Ahead(t)
<1> DEFINE B == (OneShots \ {t}) \ Ahead(t)'
<1>1. /\ A \in SUBSET B /\ IsFiniteSet(B)
      /\ Cardinality(A) \in Nat /\ Cardinality(B) \in Nat
      /\ Room(t) = Cardinality(A) /\ Room(t)' = Cardinality(B)
  BY FiniteOneShots DEF Room
<1>2. Cardinality(A) <= Cardinality(B) /\ (Cardinality(B) = Cardinality(A) => B = A)
  BY <1>1, FS_Subset
<1>3. ASSUME NEW c \in OneShots \ {t}, c \in Ahead(t), c \notin Ahead(t)' PROVE B # A
  BY <1>3
<1> HIDE DEF A, B
<1> QED BY <1>1, <1>2, <1>3

LEMMA JustStarted ==
  ASSUME NEW t \in Timers, now' \in Clock, start'[t] = now', age'[t] = 0
  PROVE  InTime(t)'
<1>1. Elapsed(t)' = 0
  BY ElapsedNow DEF Elapsed
<1> QED BY <1>1, RoomBounds DEF InTime

LEMMA StillInTime ==
  ASSUME NEW t \in Timers, InTime(t), now' = now, start'[t] = start[t], age'[t] = age[t],
         Ahead(t)' \subseteq Ahead(t), Due(t) => Due(t)'
  PROVE  InTime(t)'
<1>1. Elapsed(t)' = Elapsed(t)
  BY DEF Elapsed
<1>2. Room(t) <= Room(t)' /\ Room(t) \in Nat /\ Room(t)' \in Nat /\ Interval[t] \in Nat
  BY RoomGrows, RoomBounds
<1> QED BY <1>1, <1>2 DEF InTime

LEMMA StartOnTime ==
  ASSUME IInv, OnTime, NEW t \in Timers, StartTimer(t), UNCHANGED <<now, cur, stale>>,
         walk = "out" \/ Listed(cur) \/ t # cur, walk' = "out" => walk = "out"
  PROVE  OnTime'
<1> SUFFICES ASSUME NEW v \in Timers, Listed(v)' PROVE InTime(v)'
  BY DEF OnTime
<1>1. /\ timers' \in Lists /\ Elements(timers') = Elements(timers) \cup {t}
      /\ \A u, w : w \in Elements(timers) => (Before(timers', u, w) <=> Before(timers, u, w))
  BY StartedList, TimersAreList DEF IInv, StartTimer
<1>2. CASE v = t
  BY <1>2, JustStarted DEF IInv, StartTimer, TypeOK, Clock
<1>3. CASE v # t
  <2>1. Listed(v) /\ start'[v] = start[v] /\ age'[v] = age[v]
    BY <1>1, <1>3 DEF Listed, IInv, TypeOK, StartTimer
  <2>2. Ahead(v)' \subseteq Ahead(v)
    BY <1>1, <2>1, AheadIsBefore DEF Listed
  <2>3. Due(v) => Due(v)'
    <3>1. CASE walk = "out"
      BY <3>1 DEF Due
    <3>2. CASE Listed(cur) \/ t # cur
      <4>1. Listed(cur)' <=> Listed(cur)
        BY <1>1, <3>2 DEF Listed
      <4>2. From' = From
        BY <4>1 DEF From
      <4>3. Before(timers, From, v) => Before(timers', From, v)
        BY <1>1, <2>1 DEF Listed
      <4> QED BY <4>2, <4>3 DEF Due
    <3> QED BY <3>1, <3>2
  <2> QED BY <2>1, <2>2, <2>3, StillInTime DEF OnTime
<1> QED BY <1>2, <1>3

LEMMA TickOnTime == IInv /\ OnTime /\ Tick => OnTime'
<1> SUFFICES ASSUME IInv, OnTime, Tick, NEW t \in Timers, Listed(t)' PROVE InTime(t)'
  BY DEF OnTime
<1>1. Listed(t) /\ timers \in Lists /\ timers' = timers
  BY TimersAreList DEF Tick, list, Listed, IInv
<1>2. age'[t] = age[t] + 1 /\ age[t] \in Nat /\ Elapsed(t) = age[t]
  BY <1>1 DEF Tick, IInv, TypeOK, OnTime, InTime
<1>3. age[t] < Interval[t] + Room(t)
  BY <1>1 DEF OnTime, InTime, Due, Tick
<1>4. Ahead(t)' = Ahead(t)
  BY <1>1 DEF Ahead
<1>5. Room(t)' = Room(t)
  BY <1>4 DEF Room
<1>6. Elapsed(t)' = age[t] + 1
  <2>1. now \in Clock /\ start[t] \in Clock /\ start' = start /\ now' = (now + 1) % TimeMod
    BY DEF Tick, IInv, TypeOK, Clock, list
  <2>2. Elapsed(t)' = IF Elapsed(t) + 1 < TimeMod THEN Elapsed(t) + 1 ELSE 0
    BY <2>1, ElapsedTick DEF Elapsed
  <2>3. age[t] + 1 < TimeMod
    BY <1>2, <1>3, RoomBounds
  <2> QED BY <1>2, <2>2, <2>3
<1>7. Due(t)'
  <2>1. timers # <<>>
    BY <1>1 DEF Listed, Elements
  <2>2. walk' = "check" /\ cur' = Head(timers) /\ Listed(cur)'
    BY <1>1, <2>1, HeadOfList DEF Tick, Listed
  <2> QED BY <1>1, <2>1, <2>2, HeadOfList DEF Due, From, Listed
<1> QED BY <1>2, <1>3, <1>5, <1>6, <1>7, RoomBounds DEF InTime

(* The walk goes on from cur: what it had to visit it still has to.        *)
LEMMA WalkOn ==
  ASSUME IInv, walk # "out", WalkTo(NextOfCur), timers' = timers,
         NEW t \in Timers, t # cur, Due(t)
  PROVE  Due(t)'
<1>1. timers \in Lists
  BY TimersAreList DEF IInv
<1>2. NextOfCur \in Elements(timers) \cup {NoTimer}
  BY NextIsListed
<1>3. t = NextOfCur \/ Before(timers, NextOfCur, t)
  <2>1. CASE Listed(cur)
    <3>1. Before(timers, cur, t)
      BY <2>1 DEF Due, From
    <3>2. NextIn(timers, cur) = NextOfCur
      BY <2>1 DEF NextOfCur
    <3> QED BY <1>1, <2>1, <3>1, <3>2, NextInList, NoTimerAssumption DEF Listed
  <2>2. CASE ~Listed(cur)
    BY <2>2 DEF Due, From, NextOfCur
  <2> QED BY <2>1, <2>2
<1>4. NextOfCur # NoTimer
  <2>1. NoTimer \notin Elements(timers)
    BY ElementsInList, NoTimerAssumption DEF IInv, TypeOK
  <2> QED BY <1>1, <1>3, <2>1, BothListed, NoTimerAssumption
<1> QED BY <1>2, <1>3, <1>4 DEF WalkTo, Due, From, Listed

LEMMA NotExpiredOnTime == IInv /\ OnTime /\ NotExpired => OnTime'
<1> SUFFICES ASSUME IInv, OnTime, NotExpired, NEW t \in Timers, Listed(t)' PROVE InTime(t)'
  BY DEF OnTime
<1>1. Listed(t) /\ timers' = timers /\ start' = start /\ age' = age /\ now' = now
  BY DEF NotExpired, list, ghost, Listed
<1>2. Ahead(t)' = Ahead(t) /\ Elapsed(t)' = Elapsed(t)
  BY <1>1 DEF Ahead, Elapsed
<1>3. CASE t # cur
  <2>1. Due(t) => Due(t)'
    BY <1>1, <1>3, WalkOn DEF NotExpired
  <2> QED BY <1>1, <1>2, <2>1, StillInTime DEF OnTime
<1>4. CASE t = cur
  <2>1. age[t] \in Nat /\ Elapsed(t) = age[t]
    BY <1>1 DEF OnTime, InTime
  <2>2. age[t] < Interval[t]
    BY <1>4, <2>1, RoomBounds DEF NotExpired, TimedOut
  <2> QED BY <1>1, <1>2, <2>1, <2>2, RoomBounds DEF InTime
<1> QED BY <1>3, <1>4

LEMMA ExpireToTaskOnTime == IInv /\ OnTime /\ ExpireToTask => OnTime'
<1> SUFFICES ASSUME IInv, OnTime, ExpireToTask, NEW t \in Timers, Listed(t)' PROVE InTime(t)'
  BY DEF OnTime
<1>1. /\ timers' = timers /\ start' = start /\ age' = age /\ now' = now
      /\ cur' = cur /\ stale' = stale /\ walk # "out" /\ walk' # "out"
  BY DEF ExpireToTask, Expired, list
<1>2. Listed(t) /\ Ahead(t)' = Ahead(t) /\ (Due(t) => Due(t)')
  BY <1>1 DEF Listed, Ahead, Due, From
<1> QED BY <1>1, <1>2, StillInTime DEF OnTime

LEMMA ExpireInIrqOnTime == IInv /\ OnTime /\ ExpireInIrq => OnTime'
<1> SUFFICES ASSUME IInv, OnTime, ExpireInIrq PROVE OnTime'
  OBVIOUS
<1>1. /\ cur \in Timers /\ Listed(cur) /\ timers \in Lists /\ now \in Clock
      /\ walk = "check" /\ walk' = "settle" /\ cur' = cur /\ now' = now
  BY TimersAreList DEF IInv, TypeOK, CurOnWay, ExpireInIrq, Expired, Clock
<1>2. CASE IrqCallbackPlain
  <2> SUFFICES ASSUME NEW t \in Timers, Listed(t)' PROVE InTime(t)'
    BY DEF OnTime
  <2>1. timers' = timers /\ start' = start /\ age' = age /\ stale' = stale
    BY <1>2 DEF IrqCallbackPlain, list
  <2>2. Listed(t) /\ Ahead(t)' = Ahead(t) /\ (Due(t) => Due(t)')
    BY <1>1, <2>1 DEF Listed, Ahead, Due, From
  <2> QED BY <1>1, <2>1, <2>2, StillInTime DEF OnTime
<1>3. CASE IrqCallbackStops
  <2> SUFFICES ASSUME NEW t \in Timers, Listed(t)' PROVE InTime(t)'
    BY DEF OnTime
  <2>1. /\ timers' \in Lists /\ Elements(timers') = Elements(timers) \ {cur}
        /\ \A u, w : Before(timers', u, w) <=> Before(timers, u, w) /\ u # cur /\ w # cur
    BY <1>1, <1>3, RemovedList DEF IrqCallbackStops, StopTimer
  <2>2. Listed(t) /\ t # cur /\ start'[t] = start[t] /\ age'[t] = age[t] /\ ~Listed(cur)'
    BY <1>1, <1>3, <2>1 DEF Listed, IrqCallbackStops, StopTimer, IInv, TypeOK
  <2>3. Ahead(t)' \subseteq Ahead(t)
    BY <2>1, AheadIsBefore
  <2>4. Due(t) => Due(t)'
    <3>1. stale' = NextIn(timers, cur)
      BY <1>3 DEF IrqCallbackStops
    <3>2. Before(timers, cur, t) => stale' # cur /\ (t = stale' \/ Before(timers, stale', t))
      BY <1>1, <3>1, NextInList, NoTimerAssumption DEF Listed
    <3>3. Due(t) => Before(timers, cur, t)
      BY <1>1, <2>2 DEF Due, From
    <3> QED BY <1>1, <2>1, <2>2, <3>2, <3>3 DEF Due, From
  <2> QED BY <1>1, <2>2, <2>3, <2>4, StillInTime DEF OnTime
<1>4. CASE IrqCallbackStarts
  <2>1. PICK t \in Timers : StartTimer(t)
    BY <1>4 DEF IrqCallbackStarts, StartableInIrq
  <2>2. stale' = stale
    BY <1>4 DEF IrqCallbackStarts
  <2> QED BY <1>1, <2>1, <2>2, StartOnTime
<1>5. CASE IrqCallbackStopsAndStarts
  <2> SUFFICES ASSUME NEW v \in Timers, Listed(v)' PROVE InTime(v)'
    BY DEF OnTime
  <2>1. PICK t \in StartableInIrq :
          /\ timers' = ListStarted(Without(timers, cur), t)
          /\ start' = [start EXCEPT ![t] = now]
          /\ age' = [age EXCEPT ![cur] = 0, ![t] = 0]
    BY <1>5 DEF IrqCallbackStopsAndStarts
  <2>2. t \in Timers /\ t # cur /\ stale' = NextIn(timers, cur)
    BY <1>5 DEF IrqCallbackStopsAndStarts, StartableInIrq
  <2>3. /\ timers' \in Lists /\ Elements(timers') = (Elements(timers) \ {cur}) \cup {t}
        /\ \A u, w : w \in Elements(timers) \ {cur} =>
             (Before(timers', u, w) <=> Before(timers, u, w) /\ u # cur)
    BY <1>1, <2>1, <2>2, RemovedList, StartedList
  <2>4. CASE v = t
    BY <1>1, <2>1, <2>2, <2>4, JustStarted DEF IInv, TypeOK
  <2>5. CASE v # t
    <3>1. Listed(v) /\ v # cur /\ start'[v] = start[v] /\ age'[v] = age[v] /\ ~Listed(cur)'
      BY <1>1, <2>1, <2>2, <2>3, <2>5 DEF Listed, IInv, TypeOK
    <3>2. Ahead(v)' \subseteq Ahead(v)
      BY <2>3, <3>1, AheadIsBefore DEF Listed
    <3>3. Due(v) => Due(v)'
      <4>1. Before(timers, cur, v) => stale' # cur /\ (v = stale' \/ Before(timers, stale', v))
        BY <1>1, <2>2, NextInList, NoTimerAssumption DEF Listed
      <4>2. Due(v) => Before(timers, cur, v)
        BY <1>1, <3>1 DEF Due, From
      <4> QED BY <1>1, <2>3, <3>1, <4>1, <4>2 DEF Due, From, Listed
    <3> QED BY <1>1, <3>1, <3>2, <3>3, StillInTime DEF OnTime
  <2> QED BY <2>4, <2>5
<1> QED BY <1>2, <1>3, <1>4, <1>5 DEF ExpireInIrq

LEMMA SettleOneShotOnTime == IInv /\ OnTime /\ SettleOneShot => OnTime'
<1> SUFFICES ASSUME IInv, OnTime, SettleOneShot, NEW t \in Timers, Listed(t)' PROVE InTime(t)'
  BY DEF OnTime
<1>1. cur \in OneShots /\ Listed(cur) /\ timers \in Lists /\ walk = "settle"
  BY TimersAreList DEF IInv, SettleOneShot, TypeOK, CurOnWay, OneShots
<1>2. /\ Elements(timers') = Elements(timers) \ {cur}
      /\ \A u, w : Before(timers', u, w) <=> Before(timers, u, w) /\ u # cur /\ w # cur
  BY <1>1, RemovedList DEF SettleOneShot, OneShots
<1>3. /\ Listed(t) /\ t # cur /\ start'[t] = start[t] /\ age'[t] = age[t]
      /\ now' = now /\ Elapsed(t)' = Elapsed(t)
  BY <1>1, <1>2 DEF Listed, SettleOneShot, IInv, TypeOK, Elapsed
<1>4. Ahead(t)' \subseteq Ahead(t) /\ cur \notin Ahead(t)'
  BY <1>2, AheadIsBefore
<1>5. CASE Due(t)
  <2>1. cur \in Ahead(t)
    BY <1>1, <1>3, <1>5, AheadIsBefore DEF Due, From
  <2>2. Room(t) < Room(t)'
    BY <1>1, <1>3, <1>4, <2>1, RoomGrows
  <2> QED BY <1>3, <2>2, RoomBounds DEF OnTime, InTime
<1>6. CASE ~Due(t)
  <2>1. Room(t) <= Room(t)'
    BY <1>4, RoomGrows
  <2> QED BY <1>3, <1>6, <2>1, RoomBounds DEF OnTime, InTime
<1> QED BY <1>5, <1>6

LEMMA SettlePeriodicOnTime == IInv /\ OnTime /\ SettlePeriodic => OnTime'
<1> SUFFICES ASSUME IInv, OnTime, SettlePeriodic, NEW t \in Timers, Listed(t)' PROVE InTime(t)'
  BY DEF OnTime
<1>1. /\ timers' = timers /\ now' = now /\ Listed(t) /\ Ahead(t)' = Ahead(t)
      /\ cur \in Timers /\ walk = "settle"
  BY DEF SettlePeriodic, Listed, Ahead, IInv, TypeOK
<1>2. CASE t # cur
  <2>1. start'[t] = start[t] /\ age'[t] = age[t]
    BY <1>2 DEF SettlePeriodic, IInv, TypeOK
  <2>2. Due(t) => Due(t)'
    BY <1>1, <1>2, WalkOn DEF SettlePeriodic
  <2> QED BY <1>1, <2>1, <2>2, StillInTime DEF OnTime
<1>3. CASE t = cur
  <2>1. /\ age'[t] = age[t] - Interval[t]
        /\ start'[t] = (start[t] + Interval[t]) % TimeMod
    BY <1>1, <1>3 DEF SettlePeriodic, IInv, TypeOK
  <2>2. age[t] \in Nat /\ Elapsed(t) = age[t] /\ age[t] <= Interval[t] + Room(t)
    BY <1>1 DEF OnTime, InTime
  <2>3. Interval[t] <= Elapsed(t)
    BY <1>1, <1>3, <2>2, RoomBounds DEF SettlePeriodic, IInv, Settling, TimedOut
  <2>4. Elapsed(t)' = age'[t]
    <3>1. now \in Clock /\ start[t] \in Clock
      BY DEF IInv, TypeOK, Clock
    <3>2. (now - ((start[t] + Interval[t]) % TimeMod)) % TimeMod = Elapsed(t) - Interval[t]
      BY <2>3, <3>1, RoomBounds, ElapsedRearmed DEF Elapsed
    <3> QED BY <1>1, <2>1, <2>2, <3>2 DEF Elapsed
  <2>5. Room(t)' = Room(t)
    BY <1>1 DEF Room
  <2> QED BY <2>1, <2>2, <2>3, <2>4, <2>5, RoomBounds DEF InTime
<1> QED BY <1>2, <1>3

LEMMA CallOnTime ==
  ASSUME IInv, OnTime, Call \/ Interrupt
  PROVE  OnTime'
<1>1. now \in Clock /\ UNCHANGED <<now, cur, walk, stale>> /\ timers \in Lists
  BY TimersAreList DEF Call, Interrupt, IInv, TypeOK, Clock
<1>2. ASSUME NEW t \in Timers, StartTimer(t), walk = "out" \/ Type[t] = "ONESHOT"
      PROVE  OnTime'
  BY <1>1, <1>2, StartOnTime DEF IInv, CurOnWay, TypeOK
<1>3. ASSUME NEW t \in Timers, ResetTimer(t) PROVE OnTime'
  <2> SUFFICES ASSUME NEW v \in Timers, Listed(v)' PROVE InTime(v)'
    BY DEF OnTime
  <2>1. timers' = timers /\ Listed(v) /\ Ahead(v)' = Ahead(v) /\ (Due(v) => Due(v)')
    BY <1>1, <1>3 DEF ResetTimer, Listed, Ahead, Due, From
  <2>2. CASE v = t
    BY <1>1, <1>3, <2>2, JustStarted DEF ResetTimer, IInv, TypeOK
  <2>3. CASE v # t
    <3>1. start'[v] = start[v] /\ age'[v] = age[v]
      BY <1>3, <2>3 DEF ResetTimer, IInv, TypeOK
    <3> QED BY <1>1, <2>1, <3>1, StillInTime DEF OnTime
  <2> QED BY <2>2, <2>3
<1>4. ASSUME NEW t \in Timers, StopTimer(t), walk = "out" PROVE OnTime'
  <2> SUFFICES ASSUME NEW v \in Timers, Listed(v)' PROVE InTime(v)'
    BY DEF OnTime
  <2>1. /\ Elements(timers') = Elements(timers) \ {t}
        /\ \A u, w : Before(timers', u, w) <=> Before(timers, u, w) /\ u # t /\ w # t
    BY <1>1, <1>4, RemovedList DEF StopTimer
  <2>2. Listed(v) /\ start'[v] = start[v] /\ age'[v] = age[v]
    BY <1>4, <2>1 DEF Listed, StopTimer, IInv, TypeOK
  <2>3. Ahead(v)' \subseteq Ahead(v) /\ ~Due(v)
    BY <1>4, <2>1, AheadIsBefore DEF Due
  <2> QED BY <1>1, <2>2, <2>3, StillInTime DEF OnTime
<1> QED BY <1>2, <1>3, <1>4, IsrTimersAssumption DEF Call, Interrupt

LEMMA StepOnTime == IInv /\ OnTime /\ [Next]_vars => OnTime'
<1> SUFFICES ASSUME IInv, OnTime, [Next]_vars PROVE OnTime'
  OBVIOUS
<1>1. CASE UNCHANGED <<timers, start, now, cur, walk, stale, age>>
  <2>1. ASSUME NEW t \in Timers, Listed(t)' PROVE InTime(t)'
    <3>1. Listed(t) /\ Ahead(t)' = Ahead(t) /\ (Due(t) => Due(t)')
      BY <1>1, <2>1 DEF Listed, Ahead, Due, From
    <3> QED BY <1>1, <3>1, StillInTime DEF OnTime
  <2> QED BY <2>1 DEF OnTime
<1>2. CASE OtherPush \/ RunTask \/ UNCHANGED vars
  BY <1>1, <1>2 DEF OtherPush, RunTask, vars, list, ghost
<1>3. CASE Call \/ Interrupt
  BY <1>3, CallOnTime
<1>4. CASE Tick
  BY <1>4, TickOnTime
<1>5. CASE Walk
  BY <1>5, NotExpiredOnTime, ExpireToTaskOnTime, ExpireInIrqOnTime, SettleOneShotOnTime,
     SettlePeriodicOnTime DEF Walk
<1> QED BY <1>2, <1>3, <1>4, <1>5 DEF Next

LEMMA InitOnTime == Init => OnTime
BY DEF Init, OnTime, Listed, Elements

(* A callback is late by one tick at most for each one-shot that was ahead *)
(* of its timer, for any timers whose intervals are short against the      *)
(* range of the clock.                                                     *)
THEOREM LatenessBounded == Spec => []LateByOneShotsAhead
<1>1. IInv /\ OnTime => LateByOneShotsAhead
  BY DEF LateByOneShotsAhead, OnTime, InTime, Due, Room
<1> QED BY <1>1, Invariant, InitOnTime, StepOnTime, PTL DEF Spec
=============================================================================
