------------------------- MODULE RateLimiterProofs -------------------------
(***************************************************************************)
(* keyedLimiter and the memory behind it, for every limit, window, period  *)
(* and set of keys and ceremonies: the limiter implements FixedWindow (the *)
(* sweep cannot be noticed) and lets at most twice its limit through in    *)
(* any stretch as long as a window; the sweeps reclaim the memory in time; *)
(* and an address never has four windows' worth of ceremonies pending.     *)
(*                                                                         *)
(* The last two bounds are about how many, and are proved without          *)
(* counting: requests let through are a sequence, and how far apart in     *)
(* time two of them are follows from how far apart they stand in it.       *)
(***************************************************************************)
EXTENDS Sweeping, FiniteSetTheorems, TLAPS

USE DEF Absent

\* The type invariant of the limiter: counters stay within the bound of the
\* model and window starts are times.
THEOREM TypeCorrect == Spec => []TypeOK
<1>1. Init => TypeOK
  BY LimitAssumption DEF Init, TypeOK, Time, Entry
<1>2. TypeOK /\ [Next]_vars => TypeOK'
  <2> SUFFICES ASSUME TypeOK, [Next]_vars PROVE TypeOK'
    OBVIOUS
  <2> USE LimitAssumption DEF TypeOK, Time, Entry
  <2>1. CASE \E k \in Key : Allow(k)
    <3>1. PICK k \in Key : Allow(k)
      BY <2>1
    <3>3. entries' \in [Key -> Entry]
      <4> DEFINE e == entries[k]
      <4>1. e \in Entry
        OBVIOUS
      <4>2. Opened \in Entry
        BY DEF Opened
      <4>3. e.count < MaxCount => Counted(e) \in Entry
        BY <4>1 DEF Counted
      <4> QED
        BY <3>1, <4>2, <4>3 DEF Allow
    <3>4. passed' \in [Key -> Seq(Passed)]
      <4>1. passed' = passed \/ \E w \in Time :
               passed' = [passed EXCEPT ![k] = Append(@, [at |-> now, window |-> w])]
        <5>1. \/ passed' = passed
              \/ passed' = [passed EXCEPT ![k] =
                              Append(@, [at |-> now, window |-> entries'[k].windowStart])]
          BY <3>1 DEF Allow
        <5> QED
          BY <3>3, <5>1
      <4>2. \A w \in Time : [at |-> now, window |-> w] \in Passed
        BY DEF Passed
      <4>3. passed[k] \in Seq(Passed)
        OBVIOUS
      <4>4. ASSUME NEW w \in Time,
                   passed' = [passed EXCEPT ![k] = Append(@, [at |-> now, window |-> w])]
            PROVE  passed' \in [Key -> Seq(Passed)]
        <5>1. Append(passed[k], [at |-> now, window |-> w]) \in Seq(Passed)
          BY <4>2, <4>3
        <5> QED
          BY <4>4, <5>1
      <4> QED
        BY <4>1, <4>4
    <3>5. decision' \in [key : Key \cup {NoKey}, ok : BOOLEAN]
      BY <3>1, Zenon DEF Allow
    <3> QED
      BY <3>1, <3>3, <3>4, <3>5 DEF Allow
  <2>2. CASE SweepExpired
    BY <2>2 DEF SweepExpired
  <2>3. CASE Restart
    BY <2>3 DEF Restart
  <2>4. CASE Tick
    BY <2>4 DEF Tick
  <2>5. CASE UNCHANGED vars
    BY <2>5 DEF vars
  <2> QED
    BY <2>1, <2>2, <2>3, <2>4, <2>5 DEF Next
<1> QED
  BY <1>1, <1>2, PTL DEF Spec

\* keyedLimiter implements the fixed-window specification: a sweep changes no
\* live entry, so it is a stuttering step, and Allow decides from live entries
\* only.
THEOREM LimiterImplementsFixedWindow == Spec => ImplementsFixedWindow
<1>1. Init => Abstract!Init
  BY DEF Init, Abstract!Init, Live, Abstract!Closed, Abstract!NoDecision
<1>2. TypeOK /\ [Next]_vars => [Abstract!Next]_(Abstract!vars)
  <2> SUFFICES ASSUME TypeOK, [Next]_vars
               PROVE  [Abstract!Next]_(Abstract!vars)
    OBVIOUS
  <2> USE LimitAssumption DEF TypeOK, Time, Entry
  <2>1. CASE \E k \in Key : Allow(k)
    <3>1. PICK k \in Key : Allow(k)
      BY <2>1
    <3>2. Live' = [Live EXCEPT ![k] = IF @.count = 0 THEN [count |-> 1, start |-> now]
                                      ELSE [count |-> @.count + 1, start |-> @.start]]
      <4>1. \A j \in Key : j # k => Live'[j] = Live[j]
        BY <3>1 DEF Allow, Live, Over
      <4>2. Live'[k] = IF Live[k].count = 0 THEN [count |-> 1, start |-> now]
                       ELSE [count |-> Live[k].count + 1, start |-> Live[k].start]
        BY <3>1 DEF Allow, Live, Opened, Counted, Over
      <4>3. Live = [j \in Key |-> Live[j]] /\ Live' = [j \in Key |-> Live'[j]]
        BY DEF Live
      <4> HIDE DEF TypeOK, Live
      <4> QED
        BY <4>1, <4>2, <4>3, SMTT(30)
    <3>3. decision' = [key |-> k, ok |-> Live[k].count < Limit]
      <4>1. CASE entries[k].count = 0 \/ Over(entries[k])
        BY <3>1, <4>1 DEF Allow, Live
      <4>2. CASE ~(entries[k].count = 0 \/ Over(entries[k]))
        BY <3>1, <4>2 DEF Allow, Live, Counted, Within
      <4> QED
        BY <4>1, <4>2
    <3>4. Abstract!Attempt(k)
      BY <3>1, <3>2, <3>3 DEF Allow, Abstract!Attempt
    <3> QED
      BY <3>4 DEF Abstract!Next
  <2>2. CASE SweepExpired
    <3>1. Live' = Live
      BY <2>2 DEF SweepExpired, Stale, Live, Over
    <3> QED
      BY <2>2, <3>1 DEF SweepExpired, Abstract!vars
  <2>3. CASE Restart
    <3>1. Abstract!Forget
      BY <2>3 DEF Restart, Live, Abstract!Forget, Abstract!Closed, Abstract!NoDecision
    <3> QED
      BY <3>1 DEF Abstract!Next
  <2>4. CASE Tick
    <3>1. Live' = [k \in Key |-> IF now' - Live[k].start > Window THEN Abstract!Closed
                                 ELSE Live[k]]
      <4>1. ASSUME NEW k \in Key
            PROVE  Live'[k] = IF now' - Live[k].start > Window THEN Abstract!Closed
                              ELSE Live[k]
        <5>1. CASE entries[k].count = 0 \/ Over(entries[k])
          BY <2>4, <5>1 DEF Tick, Live, Over, Abstract!Closed
        <5>2. CASE ~(entries[k].count = 0 \/ Over(entries[k]))
          BY <2>4, <5>2 DEF Tick, Live, Over, Abstract!Closed
        <5> QED
          BY <5>1, <5>2
      <4> QED
        BY <4>1 DEF Live
    <3>2. Abstract!Advance
      BY <2>4, <3>1 DEF Tick, Abstract!Advance
    <3> QED
      BY <3>2 DEF Abstract!Next
  <2>5. CASE UNCHANGED vars
    BY <2>5 DEF vars, Abstract!vars, Live, Over
  <2> QED
    BY <2>1, <2>2, <2>3, <2>4, <2>5 DEF Next
<1> QED
  BY <1>1, <1>2, TypeCorrect, PTL DEF Spec, ImplementsFixedWindow, Abstract!Spec

----------------------------------------------------------------------------
(* How much gets through                                                   *)

\* The requests of one key that were let through: each within its window,
\* windows more than Window apart, at most Limit in one window, and the first
\* of a window opened it.
Stepwise(s) ==
    /\ \A i \in 1 .. Len(s) : s[i].window <= s[i].at /\ s[i].at <= s[i].window + Window
    /\ \A i, j \in 1 .. Len(s) : i < j =>
          s[i].window = s[j].window \/ s[i].window + Window < s[j].window
    /\ \A i \in 1 .. Len(s) - Limit : s[i].window + Window < s[i + Limit].window
    /\ \A i \in 1 .. Len(s) :
          s[i].at = s[i].window \/ (i > 1 /\ s[i - 1].window = s[i].window)

\* The times of requests are natural numbers.
LEMMA Times ==
  ASSUME NEW s \in Seq(Passed)
  PROVE  Len(s) \in Nat /\ \A i \in 1 .. Len(s) : s[i].at \in Nat /\ s[i].window \in Nat
<1>1. Len(s) \in Nat /\ \A i \in 1 .. Len(s) : s[i] \in Passed
  OBVIOUS
<1>2. \A r \in Passed : r.at \in Nat /\ r.window \in Nat
  BY LimitAssumption DEF Passed, Time
<1> QED
  BY <1>1, <1>2

\* One more request, in the last window or in a new one.
LEMMA OneMore ==
  ASSUME NEW s \in Seq(Passed), NEW w \in Time, NEW t \in Time, Stepwise(s),
         w <= t, t <= w + Window,
         \A i \in 1 .. Len(s) : s[i].window = w \/ s[i].window + Window < w,
         \A i \in 1 .. Len(s) : i <= Len(s) + 1 - Limit => s[i].window + Window < w,
         t = w \/ (Len(s) > 0 /\ s[Len(s)].window = w)
  PROVE  Stepwise(Append(s, [at |-> t, window |-> w]))
<1> DEFINE r == [at |-> t, window |-> w]
           z == Append(s, r)
<1> USE LimitAssumption DEF Time
<1>1. r \in Passed /\ r.at = t /\ r.window = w
  BY DEF Passed
<1>2. Len(s) \in Nat /\ \A i \in 1 .. Len(s) : s[i].at \in Nat /\ s[i].window \in Nat
  BY Times
<1> HIDE DEF r
<1>3. /\ z \in Seq(Passed) /\ Len(z) = Len(s) + 1
      /\ \A i \in 1 .. Len(s) : z[i] = s[i]
      /\ z[Len(s) + 1] = r
  BY <1>1
<1> HIDE DEF z
<1>4. \A i \in 1 .. Len(z) : z[i].window <= z[i].at /\ z[i].at <= z[i].window + Window
  BY <1>1, <1>2, <1>3 DEF Stepwise
<1>5. ASSUME NEW i \in 1 .. Len(z), NEW j \in 1 .. Len(z), i < j
      PROVE  z[i].window = z[j].window \/ z[i].window + Window < z[j].window
  <2>1. i \in 1 .. Len(s) /\ z[i] = s[i]
    BY <1>2, <1>3, <1>5
  <2>2. CASE j = Len(s) + 1
    BY <1>1, <1>3, <2>1, <2>2
  <2>3. CASE j # Len(s) + 1
    <3>1. j \in 1 .. Len(s) /\ z[j] = s[j]
      BY <1>2, <1>3, <2>3
    <3> QED
      BY <1>5, <2>1, <3>1 DEF Stepwise
  <2> QED
    BY <2>2, <2>3
<1>6. ASSUME NEW i \in 1 .. Len(z) - Limit
      PROVE  z[i].window + Window < z[i + Limit].window
  <2>1. CASE i + Limit = Len(s) + 1
    BY <1>1, <1>2, <1>3, <2>1
  <2>2. CASE i + Limit # Len(s) + 1
    <3>1. i \in 1 .. Len(s) - Limit /\ i \in 1 .. Len(s) /\ i + Limit \in 1 .. Len(s)
      BY <1>2, <1>3, <2>2
    <3>2. z[i] = s[i] /\ z[i + Limit] = s[i + Limit]
      BY <1>3, <3>1
    <3>3. s[i].window + Window < s[i + Limit].window
      BY <3>1 DEF Stepwise
    <3> QED
      BY <3>2, <3>3
  <2> QED
    BY <2>1, <2>2
<1>7. ASSUME NEW i \in 1 .. Len(z)
      PROVE  z[i].at = z[i].window \/ (i > 1 /\ z[i - 1].window = z[i].window)
  <2>1. CASE i = Len(s) + 1
    BY <1>1, <1>2, <1>3, <2>1
  <2>2. CASE i # Len(s) + 1
    <3>1. i \in 1 .. Len(s) /\ z[i] = s[i]
      BY <1>2, <1>3, <2>2
    <3>2. i > 1 => z[i - 1] = s[i - 1]
      BY <1>2, <1>3, <3>1
    <3>3. s[i].at = s[i].window \/ (i > 1 /\ s[i - 1].window = s[i].window)
      BY <3>1 DEF Stepwise
    <3> QED
      BY <3>1, <3>2, <3>3
  <2> QED
    BY <2>1, <2>2
<1>8. Stepwise(z)
  BY <1>4, <1>5, <1>6, <1>7 DEF Stepwise
<1> QED
  BY <1>8 DEF z, r

\* The arithmetic of two and of four windows.
LEMMA Additions ==
  /\ \A x, w0, w1, w2, y \in Nat :
       x <= w0 + Window /\ w0 + Window < w1 /\ w1 + Window < w2 /\ w2 <= y => y > x + Window
  /\ \A w0, w1, w2, w3, w4, y \in Nat :
       w0 + Window < w1 /\ w1 + Window < w2 /\ w2 + Window < w3 /\ w3 <= w4 /\ w4 <= y
         => y > w0 + 3 * Window
  /\ \A x, w0, w3, w4, y \in Nat :
       x <= w0 + Window /\ w3 > w0 + 3 * Window /\ w3 + Window < w4 /\ w4 <= y
         => y > x + 3 * Window
  /\ \A w0, w1, w2, w3 \in Nat :
       w0 + Window < w1 /\ w1 + Window < w2 /\ w2 + Window < w3 => w3 > w0 + 3 * Window
  BY LimitAssumption

\* How far apart requests are: 2 * Limit later is more than one window later,
\* and 4 * Limit - 1 later more than three.  The second needs that a request
\* which did not open its window has another before it in that window.
LEMMA Spread ==
  ASSUME NEW s \in Seq(Passed), Stepwise(s), NEW i \in 1 .. Len(s)
  PROVE  /\ i + 2 * Limit <= Len(s) => s[i + 2 * Limit].at > s[i].at + Window
         /\ i + 4 * Limit - 1 <= Len(s) => s[i + 4 * Limit - 1].at > s[i].at + 3 * Window
<1> USE LimitAssumption
<1>1. PICK n \in Nat : n = Len(s)
  OBVIOUS
<1>2. PICK W \in [1 .. n -> Nat] : \A j \in 1 .. n : W[j] = s[j].window
  <2> DEFINE W == [j \in 1 .. n |-> s[j].window]
  <2>1. W \in [1 .. n -> Nat] /\ \A j \in 1 .. n : W[j] = s[j].window
    BY <1>1, Times
  <2> QED
    BY <2>1
<1>3. PICK A \in [1 .. n -> Nat] : \A j \in 1 .. n : A[j] = s[j].at
  <2> DEFINE A == [j \in 1 .. n |-> s[j].at]
  <2>1. A \in [1 .. n -> Nat] /\ \A j \in 1 .. n : A[j] = s[j].at
    BY <1>1, Times
  <2> QED
    BY <2>1
<1>4. /\ \A j \in 1 .. n : W[j] <= A[j] /\ A[j] <= W[j] + Window
      /\ \A j, l \in 1 .. n : j < l => W[j] <= W[l]
      /\ \A j \in 1 .. n : j + Limit <= n => W[j] + Window < W[j + Limit]
      /\ \A j \in 1 .. n : A[j] = W[j] \/ (j > 1 /\ W[j - 1] = W[j])
  <2>1. \A j \in 1 .. n : W[j] <= A[j] /\ A[j] <= W[j] + Window
    BY <1>1, <1>2, <1>3 DEF Stepwise
  <2>2. ASSUME NEW j \in 1 .. n, NEW l \in 1 .. n, j < l PROVE W[j] <= W[l]
    <3>1. W[j] = W[l] \/ W[j] + Window < W[l]
      BY <1>1, <1>2, <2>2 DEF Stepwise
    <3> QED
      BY <3>1
  <2>3. ASSUME NEW j \in 1 .. n, j + Limit <= n PROVE W[j] + Window < W[j + Limit]
    <3>1. j \in 1 .. n - Limit /\ j + Limit \in 1 .. n
      BY <2>3
    <3> QED
      BY <1>1, <1>2, <3>1 DEF Stepwise
  <2>4. ASSUME NEW j \in 1 .. n PROVE A[j] = W[j] \/ (j > 1 /\ W[j - 1] = W[j])
    <3>1. s[j].at = s[j].window \/ (j > 1 /\ s[j - 1].window = s[j].window)
      BY <1>1 DEF Stepwise
    <3>2. j > 1 => W[j - 1] = s[j - 1].window
      BY <1>2
    <3> QED
      BY <1>2, <1>3, <3>1, <3>2
  <2> QED
    BY <2>1, <2>2, <2>3, <2>4
<1>5. ASSUME i + 2 * Limit <= n PROVE A[i + 2 * Limit] > A[i] + Window
  <2>1. PICK a \in 1 .. n, b \in 1 .. n : a = i + Limit /\ b = a + Limit /\ b = i + 2 * Limit
    BY <1>1, <1>5
  <2>2. W[i] + Window < W[a] /\ W[a] + Window < W[b]
    BY <1>1, <1>4, <2>1
  <2>3. A[i] <= W[i] + Window /\ W[b] <= A[b]
    BY <1>1, <1>4
  <2>4. A[i] \in Nat /\ A[b] \in Nat /\ W[i] \in Nat /\ W[a] \in Nat /\ W[b] \in Nat
    BY <1>1
  <2>5. A[b] > A[i] + Window
    BY <2>2, <2>3, <2>4, Additions
  <2> QED
    BY <2>1, <2>5
<1>6. ASSUME i + 4 * Limit - 1 <= n PROVE A[i + 4 * Limit - 1] > A[i] + 3 * Window
  <2>1. PICK m \in 1 .. n : m = i + 4 * Limit - 1
    BY <1>1, <1>6
  <2>2. CASE A[i] = W[i]
    <3>1. PICK a \in 1 .. n, b \in 1 .. n, c \in 1 .. n :
             a = i + Limit /\ b = a + Limit /\ c = b + Limit /\ c <= m
      BY <1>1, <1>6, <2>1
    <3>2. W[i] + Window < W[a] /\ W[a] + Window < W[b] /\ W[b] + Window < W[c]
      BY <1>1, <1>4, <3>1
    <3>3. W[c] <= W[m] /\ W[m] <= A[m]
      <4>1. c = m \/ c < m
        BY <3>1
      <4> QED
        BY <1>4, <4>1
    <3>4. /\ A[i] \in Nat /\ A[m] \in Nat
          /\ W[i] \in Nat /\ W[a] \in Nat /\ W[b] \in Nat /\ W[c] \in Nat /\ W[m] \in Nat
      BY <1>1
    <3>5. A[m] > W[i] + 3 * Window
      BY <3>2, <3>3, <3>4, Additions
    <3> QED
      BY <2>1, <2>2, <3>5
  <2>3. CASE i > 1 /\ W[i - 1] = W[i]
    <3>1. PICK a \in 1 .. n, b \in 1 .. n, c \in 1 .. n :
             a = i - 1 + Limit /\ b = a + Limit /\ c = b + Limit /\ m = c + Limit
      BY <1>1, <1>6, <2>1, <2>3
    <3>2. /\ W[i] + Window < W[a] /\ W[a] + Window < W[b]
          /\ W[b] + Window < W[c] /\ W[c] + Window < W[m]
      <4>1. i - 1 \in 1 .. n
        BY <1>1, <2>3
      <4> QED
        BY <1>4, <2>3, <3>1, <4>1
    <3>3. A[i] <= W[i] + Window /\ W[m] <= A[m]
      BY <1>1, <1>4
    <3>4. /\ A[i] \in Nat /\ A[m] \in Nat
          /\ W[i] \in Nat /\ W[a] \in Nat /\ W[b] \in Nat /\ W[c] \in Nat /\ W[m] \in Nat
      BY <1>1
    <3>5. W[c] > W[i] + 3 * Window
      BY <3>2, <3>4, Additions
    <3>6. A[m] > A[i] + 3 * Window
      BY <3>2, <3>3, <3>4, <3>5, Additions
    <3> QED
      BY <2>1, <3>6
  <2> QED
    BY <1>1, <1>4, <2>2, <2>3
<1>7. i + 2 * Limit <= n => s[i + 2 * Limit].at > s[i].at + Window
  BY <1>1, <1>3, <1>5
<1>8. i + 4 * Limit - 1 <= n => s[i + 4 * Limit - 1].at > s[i].at + 3 * Window
  <2>1. i + 4 * Limit - 1 <= n => i + 4 * Limit - 1 \in 1 .. n
    BY <1>1
  <2> QED
    BY <1>1, <1>3, <1>6, <2>1
<1> QED
  BY <1>1, <1>7, <1>8

\* What the entry of a key knows of the requests let through: the last one was
\* in its window, all but the last e.count are of earlier windows; without an
\* entry every window is over.
HistoryInv ==
    \A k \in Key :
       LET s == passed[k]
           e == entries[k] IN
       /\ Stepwise(s)
       /\ \A i \in 1 .. Len(s) : s[i].at <= now
       /\ e.count = 0 => \A i \in 1 .. Len(s) : s[i].window + Window < now
       /\ e.count > 0 =>
            /\ Len(s) > 0 /\ s[Len(s)].window = e.windowStart
            /\ \A i \in 1 .. Len(s) : i <= Len(s) - e.count => s[i].window + Window < e.windowStart

\* When the window of an entry is over, so are those of all requests let
\* through.
LEMMA AllOver ==
  ASSUME TypeOK, HistoryInv, NEW k \in Key,
         entries[k].count = 0 \/ entries[k].windowStart + Window < now
  PROVE  \A i \in 1 .. Len(passed[k]) : passed[k][i].window + Window < now
<1> USE LimitAssumption DEF TypeOK, Time, Entry
<1>1. passed[k] \in Seq(Passed) /\ Len(passed[k]) \in Nat
  OBVIOUS
<1>2. \A i \in 1 .. Len(passed[k]) : passed[k][i].window \in Nat
  BY <1>1, Times
<1>3. CASE entries[k].count = 0
  BY <1>3 DEF HistoryInv
<1>4. CASE entries[k].count > 0 /\ entries[k].windowStart + Window < now
  <2> DEFINE s == passed[k]
  <2>1. Stepwise(s) /\ Len(s) > 0 /\ s[Len(s)].window = entries[k].windowStart
    BY <1>4 DEF HistoryInv
  <2>2. s[Len(s)].window + Window < now
    BY <1>4, <2>1
  <2>3. ASSUME NEW i \in 1 .. Len(s) PROVE s[i].window <= s[Len(s)].window
    <3>1. CASE i = Len(s)
      BY <1>2, <3>1
    <3>2. CASE i # Len(s)
      <4>1. Len(s) \in 1 .. Len(s) /\ i < Len(s)
        BY <1>1, <2>1, <3>2
      <4> HIDE DEF s
      <4>2. s[i].window = s[Len(s)].window \/ s[i].window + Window < s[Len(s)].window
        BY <2>1, <4>1 DEF Stepwise
      <4> QED
        BY <1>2, <4>1, <4>2 DEF s
    <3> QED
      BY <3>1, <3>2
  <2>4. now \in Nat /\ Window \in Nat
    OBVIOUS
  <2>5. Len(s) \in 1 .. Len(s)
    BY <1>1, <2>1
  <2>6. \A x, y \in Nat : x <= y /\ y + Window < now => x + Window < now
    BY <2>4
  <2> QED
    BY <1>2, <2>2, <2>3, <2>5, <2>6, Zenon
<1> QED
  BY <1>3, <1>4

\* A request for k, counted in a new window or in the live one.
LEMMA AllowHistory ==
  ASSUME TypeOK, HistoryInv, NEW k \in Key, Allow(k)
  PROVE  HistoryInv'
<1> USE LimitAssumption DEF Time
<1> DEFINE s == passed[k]
           e == entries[k]
           fresh == e.count = 0 \/ Over(e)
<1>1. /\ now \in Nat /\ now \in Time /\ now' = now
      /\ entries \in [Key -> Entry] /\ passed \in [Key -> Seq(Passed)]
      /\ s \in Seq(Passed) /\ e.count \in Nat /\ e.windowStart \in Nat /\ e.windowStart \in Time
  BY DEF TypeOK, Entry, Allow
<1>2. Len(s) \in Nat /\ \A i \in 1 .. Len(s) : s[i].at \in Nat /\ s[i].window \in Nat
  BY <1>1, Times
<1>3. /\ Stepwise(s)
      /\ \A i \in 1 .. Len(s) : s[i].at <= now
      /\ e.count > 0 =>
            /\ Len(s) > 0 /\ s[Len(s)].window = e.windowStart
            /\ \A i \in 1 .. Len(s) : i <= Len(s) - e.count => s[i].window + Window < e.windowStart
  BY DEF HistoryInv
<1>4. ASSUME NEW j \in Key, j # k PROVE entries'[j] = entries[j] /\ passed'[j] = passed[j]
  BY <1>1, <1>4 DEF Allow
<1> DEFINE Good(z, f) ==
             /\ Stepwise(z)
             /\ \A i \in 1 .. Len(z) : z[i].at <= now
             /\ f.count = 0 => \A i \in 1 .. Len(z) : z[i].window + Window < now
             /\ f.count > 0 =>
                  /\ Len(z) > 0 /\ z[Len(z)].window = f.windowStart
                  /\ \A i \in 1 .. Len(z) :
                        i <= Len(z) - f.count => z[i].window + Window < f.windowStart
<1>5. SUFFICES Good(passed'[k], entries'[k])
  <2>1. \A j \in Key : Good(passed[j], entries[j])
    BY DEF HistoryInv
  <2>2. ASSUME NEW j \in Key PROVE Good(passed'[j], entries'[j])
    BY <1>4, <1>5, <2>1
  <2> QED
    BY <1>1, <2>2 DEF HistoryInv
<1>6. CASE fresh
  <2>1. entries'[k] = Opened /\ passed'[k] = Append(s, [at |-> now, window |-> now])
    BY <1>1, <1>6 DEF Allow, Opened
  <2>2. \A i \in 1 .. Len(s) : s[i].window + Window < now
    <3>1. e.count = 0 \/ e.windowStart + Window < now
      BY <1>1, <1>6 DEF Over
    <3> QED
      BY <3>1, AllOver
  <2> DEFINE r == [at |-> now, window |-> now]
  <2>3. Stepwise(Append(s, r))
    <3>1. /\ now <= now /\ now <= now + Window
          /\ \A i \in 1 .. Len(s) : s[i].window = now \/ s[i].window + Window < now
          /\ \A i \in 1 .. Len(s) : i <= Len(s) + 1 - Limit => s[i].window + Window < now
      BY <1>1, <2>2
    <3> HIDE DEF s
    <3> QED
      BY <1>1, <1>3, <3>1, OneMore
  <2>4. r \in Passed /\ r.at = now /\ r.window = now /\ Opened.count = 1 /\ Opened.windowStart = now
    BY <1>1 DEF Passed, Opened
  <2> HIDE DEF r, s
  <2>5. /\ Len(Append(s, r)) = Len(s) + 1 /\ Append(s, r)[Len(s) + 1] = r
        /\ \A i \in 1 .. Len(s) : Append(s, r)[i] = s[i]
    BY <1>1, <2>4
  <2>6. PICK z : z = Append(s, r)
    OBVIOUS
  <2>7. Good(z, Opened)
    <3>1. \A i \in 1 .. Len(z) : i = Len(s) + 1 \/ i \in 1 .. Len(s)
      BY <1>2, <2>5, <2>6
    <3>2. \A i \in 1 .. Len(z) : z[i].at <= now
      BY <1>1, <1>2, <1>3, <2>4, <2>5, <2>6, <3>1
    <3>3. Len(z) > 0 /\ z[Len(z)].window = Opened.windowStart
      BY <1>2, <2>4, <2>5, <2>6
    <3>4. \A i \in 1 .. Len(z) : i <= Len(z) - 1 => z[i].window + Window < now
      BY <1>2, <2>2, <2>5, <2>6, <3>1
    <3> QED
      BY <2>3, <2>4, <2>6, <3>2, <3>3, <3>4
  <2> QED
    BY <2>1, <2>6, <2>7 DEF r
<1>7. CASE ~fresh
  <2>1. /\ entries'[k] = Counted(e) /\ e.count > 0 /\ ~Over(e)
        /\ passed'[k] = IF Within(Counted(e).count)
                        THEN Append(s, [at |-> now, window |-> e.windowStart]) ELSE s
    BY <1>1, <1>7 DEF Allow, Counted
  <2>2. Counted(e).count = e.count + 1 /\ Counted(e).windowStart = e.windowStart
    BY DEF Counted
  <2>3. now <= e.windowStart + Window /\ e.windowStart <= now
    <3>1. now <= e.windowStart + Window
      BY <1>1, <2>1 DEF Over
    <3>2. s[Len(s)].window <= s[Len(s)].at /\ s[Len(s)].at <= now
      BY <1>2, <1>3, <2>1 DEF Stepwise
    <3> QED
      BY <1>1, <1>2, <1>3, <2>1, <3>1, <3>2
  <2>4. CASE ~Within(e.count + 1)
    <3>1. passed'[k] = s
      BY <2>1, <2>2, <2>4
    <3>2. Good(s, Counted(e))
      BY <1>1, <1>2, <1>3, <2>1, <2>2
    <3> QED
      BY <2>1, <3>1, <3>2
  <2>5. CASE Within(e.count + 1)
    <3> DEFINE r == [at |-> now, window |-> e.windowStart]
    <3>1. passed'[k] = Append(s, r)
      BY <2>1, <2>2, <2>5
    <3>2. \A i \in 1 .. Len(s) : s[i].window = e.windowStart \/ s[i].window + Window < e.windowStart
      <4>1. Len(s) \in 1 .. Len(s) /\ s[Len(s)].window = e.windowStart
        BY <1>2, <1>3, <2>1
      <4> QED
        BY <1>2, <1>3, <4>1 DEF Stepwise
    <3>3. \A i \in 1 .. Len(s) : i <= Len(s) + 1 - Limit => s[i].window + Window < e.windowStart
      BY <1>1, <1>2, <1>3, <2>1, <2>5 DEF Within
    <3>4. Stepwise(Append(s, r))
      BY <1>1, <1>2, <1>3, <2>1, <2>3, <3>2, <3>3, OneMore
    <3>5. r \in Passed /\ r.at = now /\ r.window = e.windowStart
      BY <1>1 DEF Passed
    <3> HIDE DEF r, s
    <3>6. /\ Len(Append(s, r)) = Len(s) + 1 /\ Append(s, r)[Len(s) + 1] = r
          /\ \A i \in 1 .. Len(s) : Append(s, r)[i] = s[i]
      BY <1>1, <3>5
    <3>7. PICK z : z = Append(s, r)
      OBVIOUS
    <3>8. Good(z, Counted(e))
      <4>1. \A i \in 1 .. Len(z) : i = Len(s) + 1 \/ i \in 1 .. Len(s)
        BY <1>2, <3>6, <3>7
      <4>2. \A i \in 1 .. Len(z) : z[i].at <= now
        BY <1>1, <1>2, <1>3, <3>5, <3>6, <3>7, <4>1
      <4>3. Len(z) > 0 /\ z[Len(z)].window = e.windowStart
        BY <1>2, <3>5, <3>6, <3>7
      <4>4. \A i \in 1 .. Len(z) :
               i <= Len(z) - (e.count + 1) => z[i].window + Window < e.windowStart
        BY <1>1, <1>2, <1>3, <2>1, <3>6, <3>7, <4>1
      <4> QED
        BY <1>1, <2>2, <3>4, <3>7, <4>2, <4>3, <4>4
    <3> QED
      BY <2>1, <3>1, <3>7, <3>8
  <2> QED
    BY <2>4, <2>5
<1> QED
  BY <1>6, <1>7

\* The history invariant, through sweeps, restarts and the clock.
THEOREM HistoryCorrect == Spec => []HistoryInv
<1>1. Init => HistoryInv
  <2> SUFFICES ASSUME Init PROVE HistoryInv
    OBVIOUS
  <2>1. \A k \in Key : passed[k] = <<>> /\ entries[k].count = 0
    BY DEF Init
  <2>2. 1 .. 0 = {} /\ 1 .. 0 - Limit = {} /\ Len(<<>>) = 0
    BY LimitAssumption
  <2>3. Stepwise(<<>>)
    BY <2>2 DEF Stepwise
  <2>4. \A k \in Key : /\ Stepwise(passed[k]) /\ 1 .. Len(passed[k]) = {}
                        /\ entries[k].count = 0 /\ ~(entries[k].count > 0)
    <3>1. \A k \in Key : Stepwise(passed[k]) /\ Len(passed[k]) = 0
      BY <2>1, <2>2, <2>3, Zenon
    <3>2. \A n \in Nat : n = 0 => ~(n > 0)
      OBVIOUS
    <3>3. \A k \in Key : ~(entries[k].count > 0)
      BY <2>1, <3>2, Zenon
    <3>4. \A k \in Key : 1 .. Len(passed[k]) = {}
      BY <2>2, <3>1, Zenon
    <3> QED
      BY <2>1, <3>1, <3>3, <3>4, Zenon
  <2> QED
    BY <2>4, Zenon DEF HistoryInv
<1>2. TypeOK /\ HistoryInv /\ [Next]_vars => HistoryInv'
  <2> SUFFICES ASSUME TypeOK, HistoryInv, [Next]_vars PROVE HistoryInv'
    OBVIOUS
  <2>1. CASE \E k \in Key : Allow(k)
    BY <2>1, AllowHistory
  <2>2. CASE SweepExpired
    <3>1. /\ now' = now /\ passed' = passed /\ now \in Nat
          /\ \A k \in Key : entries[k].windowStart \in Nat /\ entries[k].count \in Nat
      BY <2>2, LimitAssumption DEF SweepExpired, TypeOK, Time, Entry
    <3>2. ASSUME NEW k \in Key, ~Stale(entries[k]) PROVE entries'[k] = entries[k]
      BY <2>2, <3>2 DEF SweepExpired
    <3>3. ASSUME NEW k \in Key, Stale(entries[k])
          PROVE  /\ entries'[k].count = 0
                 /\ \A i \in 1 .. Len(passed[k]) : passed[k][i].window + Window < now
      <4>1. entries'[k] = Absent /\ entries[k].windowStart + Window < now
        BY <2>2, <3>1, <3>3, LimitAssumption DEF SweepExpired, Stale
      <4> QED
        BY <4>1, AllOver
    <3> QED
      BY <3>1, <3>2, <3>3 DEF HistoryInv
  <2>3. CASE Restart
    BY <2>3, LimitAssumption DEF Restart, HistoryInv, Stepwise
  <2>4. CASE Tick
    <3>1. now' = now + 1 /\ entries' = entries /\ passed' = passed /\ now \in Nat
      BY <2>4, LimitAssumption DEF Tick, TypeOK, Time
    <3>2. \A k \in Key : passed[k] \in Seq(Passed)
      BY DEF TypeOK
    <3>3. \A k \in Key : \A i \in 1 .. Len(passed[k]) :
             passed[k][i].at \in Nat /\ passed[k][i].window \in Nat
      BY <3>2, Times
    <3>4. ASSUME NEW k \in Key, NEW i \in 1 .. Len(passed[k])
          PROVE  /\ passed[k][i].at <= now => passed[k][i].at <= now'
                 /\ passed[k][i].window + Window < now => passed[k][i].window + Window < now'
      BY <3>1, <3>3, LimitAssumption
    <3> QED
      BY <3>1, <3>4 DEF HistoryInv
  <2>5. CASE UNCHANGED vars
    BY <2>5 DEF vars, HistoryInv
  <2> QED
    BY <2>1, <2>2, <2>3, <2>4, <2>5 DEF Next
<1> QED
  BY <1>1, <1>2, TypeCorrect, PTL DEF Spec

\* keyedLimiter lets at most twice its limit through in any stretch of time as
\* long as its window, wherever the stretch begins and whenever it is swept.
THEOREM LimiterBounds == Spec => []TwiceTheLimit
<1>1. TypeOK /\ HistoryInv => TwiceTheLimit
  <2> SUFFICES ASSUME TypeOK, HistoryInv, NEW k \in Key, NEW i \in 1 .. Len(passed[k]) - 2 * Limit
               PROVE  passed[k][i + 2 * Limit].at > passed[k][i].at + Window
    BY DEF TwiceTheLimit
  <2>1. passed[k] \in Seq(Passed) /\ Stepwise(passed[k]) /\ Len(passed[k]) \in Nat
    BY DEF TypeOK, HistoryInv
  <2>2. i \in 1 .. Len(passed[k]) /\ i + 2 * Limit <= Len(passed[k])
    BY <2>1, LimitAssumption
  <2> QED
    BY <2>1, <2>2, Spread
<1> QED
  BY <1>1, TypeCorrect, HistoryCorrect, PTL

----------------------------------------------------------------------------
(* The sweeps                                                              *)

\* Every step of the requests, goroutines and restarts is a step of the
\* limiter or leaves it alone.
THEOREM SweepingRefinesLimiter == SweepingSpec => Spec
<1>1. SweepingInit => Init
  BY DEF SweepingInit
<1>2. [SweepingNext]_sweepingVars => [Next]_vars
  BY DEF sweepingVars, SweepingNext, BeginAllowed, BeginRefused, BeginPut, BeginStops, Take, SweepCeremonies, SweepLimiter, TimePasses,
         RestartAll, Next
<1> QED
  BY <1>1, <1>2, PTL DEF SweepingSpec, Spec

----------------------------------------------------------------------------

\* The tickers are set, and fire within a period.
TickersSet ==
    /\ begun \in [Request -> [by : Key \cup {NoKey}, at : Nat]]
    /\ pending \in [Ceremony -> [by : Key \cup {NoKey}, since : Nat, expiresAt : Nat]]
    /\ ceremonySweep \in Nat /\ now <= ceremonySweep /\ ceremonySweep <= now + TTL
    /\ limiterSweep \in Nat /\ now <= limiterSweep /\ limiterSweep <= now + CleanupInterval

\* The next sweep of each goroutine comes before the deadline of each entry.
SweptBefore ==
    /\ \A c \in Ceremony : Present(c) => ceremonySweep <= pending[c].expiresAt + TTL
    /\ \A k \in Key : entries[k].count > 0 =>
          limiterSweep <= entries[k].windowStart + Window + CleanupInterval

SweepInv == TickersSet /\ SweptBefore

\* An allowed request leaves every entry of the limiter with a deadline after
\* the next sweep.
LEMMA AllowKeepsDeadlines ==
  ASSUME TypeOK, SweepInv, NEW k \in Key, Allow(k)
  PROVE  \A j \in Key : entries'[j].count > 0 =>
           limiterSweep <= entries'[j].windowStart + Window + CleanupInterval
<1> USE LimitAssumption, SweepingAssumption DEF TypeOK, Time, Entry
<1>1. ASSUME NEW j \in Key, j # k
      PROVE  entries'[j] = entries[j]
  BY <1>1 DEF Allow
<1>2. CASE entries[k].count = 0 \/ Over(entries[k])
  <2>1. entries'[k].windowStart = now
    BY <1>2 DEF Allow, Opened
  <2>2. limiterSweep <= now + Window + CleanupInterval
    BY DEF SweepInv, TickersSet
  <2>3. \A j \in Key : j # k => entries'[j] = entries[j]
    BY <1>1
  <2> QED
    BY <2>1, <2>2, <2>3 DEF SweepInv, SweptBefore
<1>3. CASE ~(entries[k].count = 0 \/ Over(entries[k]))
  <2>1. entries'[k].windowStart = entries[k].windowStart /\ entries[k].count > 0
    BY <1>3 DEF Allow, Counted
  <2> QED
    BY <1>1, <2>1 DEF SweepInv, SweptBefore
<1> QED
  BY <1>2, <1>3

\* The invariant is inductive, given the limiter's types.
LEMMA SweepInductive ==
  ASSUME TypeOK, SweepInv, [SweepingNext]_sweepingVars
  PROVE  SweepInv'
<1> USE LimitAssumption, SweepingAssumption
       DEF TypeOK, Time, Entry, None, NoRequest, Absent, tickers
<1>1. CASE \E r \in Request, c \in Ceremony : BeginPut(r, c)
  <2>1. PICK r \in Request, c \in Ceremony : BeginPut(r, c)
    BY <1>1
  <2>2. /\ Put(r, c) /\ UNCHANGED <<now, entries, ceremonySweep, limiterSweep>>
        /\ begun' = [begun EXCEPT ![r] = NoRequest]
    BY <2>1 DEF BeginPut, vars
  <2>3. PICK e \in [by : Key \cup {NoKey}, since : Nat, expiresAt : Nat] :
           /\ e.expiresAt = now + TTL
           /\ \A d \in Ceremony : pending'[d] \in {e, None, pending[d]}
           /\ pending' \in [Ceremony -> [by : Key \cup {NoKey}, since : Nat, expiresAt : Nat]]
    <3> DEFINE e == [by |-> begun[r].by, since |-> begun[r].at, expiresAt |-> now + TTL]
    <3>1. e \in [by : Key \cup {NoKey}, since : Nat, expiresAt : Nat] /\ e.expiresAt = now + TTL
      BY DEF SweepInv, TickersSet
    <3> HIDE DEF e
    <3>2. \A d \in Ceremony : pending'[d] \in {e, None, pending[d]}
      BY <2>2 DEF Put, e
    <3>3. DOMAIN pending' = Ceremony /\ pending' = [d \in Ceremony |-> pending'[d]]
      BY <2>2 DEF Put
    <3>4. None \in [by : Key \cup {NoKey}, since : Nat, expiresAt : Nat]
      OBVIOUS
    <3>5. pending' \in [Ceremony -> [by : Key \cup {NoKey}, since : Nat, expiresAt : Nat]]
      <4> HIDE DEF None
      <4> QED
        BY <3>1, <3>2, <3>3, <3>4 DEF SweepInv, TickersSet
    <3> QED
      BY <3>1, <3>2, <3>5
  <2>4. TickersSet'
    BY <2>2, <2>3 DEF SweepInv, TickersSet
  <2>5. SweptBefore'
    <3>1. ceremonySweep <= now + TTL + TTL
      BY DEF SweepInv, TickersSet
    <3>2. \A d \in Ceremony : Present(d)' => ceremonySweep <= pending'[d].expiresAt + TTL
      <4> SUFFICES ASSUME NEW d \in Ceremony, pending'[d] # None
                   PROVE  ceremonySweep <= pending'[d].expiresAt + TTL
        BY DEF Present
      <4>1. CASE pending'[d] = e
        BY <2>3, <3>1, <4>1
      <4>2. CASE pending'[d] = pending[d]
        BY <4>2 DEF SweepInv, SweptBefore, Present
      <4> QED
        BY <2>3, <4>1, <4>2
    <3> QED
      BY <2>2, <3>2 DEF SweepInv, SweptBefore
  <2> QED
    BY <2>4, <2>5 DEF SweepInv
<1>2. CASE \E k \in Key : (\E r \in Request : BeginAllowed(k, r)) \/ BeginRefused(k)
  <2>1. PICK k \in Key : (\E r \in Request : BeginAllowed(k, r)) \/ BeginRefused(k)
    BY <1>2
  <2>2. Allow(k) /\ now' = now /\ UNCHANGED <<pending, tickers>>
    BY <2>1 DEF BeginAllowed, BeginRefused, Allow
  <2>3. begun' \in [Request -> [by : Key \cup {NoKey}, at : Nat]]
    <3>1. ASSUME NEW r \in Request, BeginAllowed(k, r)
          PROVE  begun' = [begun EXCEPT ![r] = [by |-> k, at |-> now]]
      BY <3>1 DEF BeginAllowed
    <3>2. [by |-> k, at |-> now] \in [by : Key \cup {NoKey}, at : Nat]
      OBVIOUS
    <3>3. begun \in [Request -> [by : Key \cup {NoKey}, at : Nat]]
      BY DEF SweepInv, TickersSet
    <3>4. BeginRefused(k) => begun' = begun
      BY DEF BeginRefused
    <3> HIDE DEF TypeOK, Time, Entry, None, NoRequest, Absent, tickers
    <3> QED
      BY <2>1, <3>1, <3>2, <3>3, <3>4
  <2> QED
    BY <2>2, <2>3, AllowKeepsDeadlines DEF SweepInv, TickersSet, SweptBefore, Present
<1>9. CASE \E r \in Request : BeginStops(r)
  BY <1>9 DEF BeginStops, vars, SweepInv, TickersSet, SweptBefore, Present
<1>3. CASE \E c \in Ceremony : Take(c)
  BY <1>3 DEF Take, vars, SweepInv, TickersSet, SweptBefore, Present
<1>4. CASE SweepCeremonies
  <2>1. \A c \in Ceremony : Present(c)' =>
           pending'[c] = pending[c] /\ now <= pending[c].expiresAt
    BY <1>4 DEF SweepCeremonies, Swept, Expired, Present, SweepInv, TickersSet
  <2> QED
    BY <1>4, <2>1 DEF SweepCeremonies, vars, SweepInv, TickersSet, SweptBefore
<1>5. CASE SweepLimiter
  <2>1. \A k \in Key : entries'[k].count > 0 =>
           entries'[k] = entries[k] /\ now - Window <= entries[k].windowStart
    BY <1>5 DEF SweepLimiter, SweepExpired, Stale
  <2> QED
    BY <1>5, <2>1 DEF SweepLimiter, SweepExpired, SweepInv, TickersSet, SweptBefore, Present
<1>6. CASE TimePasses
  BY <1>6 DEF TimePasses, Tick, SweepInv, TickersSet, SweptBefore, Present
<1>7. CASE RestartAll
  BY <1>7 DEF RestartAll, Restart, SweepInv, TickersSet, SweptBefore, Present
<1>8. CASE UNCHANGED sweepingVars
  BY <1>8 DEF sweepingVars, vars, SweepInv, TickersSet, SweptBefore, Present
<1> QED
  BY <1>1, <1>2, <1>3, <1>4, <1>5, <1>6, <1>7, <1>8, <1>9 DEF SweepingNext

\* The tickers come in time, always.
THEOREM SweepCorrect == SweepingSpec => []SweepInv
<1>1. SweepingInit => SweepInv
  BY LimitAssumption, SweepingAssumption
     DEF SweepingInit, Init, SweepInv, TickersSet, SweptBefore, Present, None, NoRequest, Absent
<1>2. TypeOK /\ SweepInv /\ [SweepingNext]_sweepingVars => SweepInv'
  BY SweepInductive
<1> QED
  BY <1>1, <1>2, TypeCorrect, SweepingRefinesLimiter, PTL DEF SweepingSpec

\* No ceremony stays in memory longer than a period of the ceremony ticker
\* after its expiry, and no address in the limiter's map longer than a period
\* of its ticker after its window.
THEOREM MemoryReclaimed == SweepingSpec => []ExpiredLeave
<1>1. TypeOK /\ SweepInv => ExpiredLeave
  BY LimitAssumption, SweepingAssumption
     DEF TypeOK, Time, Entry, SweepInv, TickersSet, SweptBefore, ExpiredLeave
<1> QED
  BY <1>1, TypeCorrect, SweepCorrect, SweepingRefinesLimiter, PTL

----------------------------------------------------------------------------
(* How much is pending                                                     *)

\* The address behind a pending ceremony or a begin in progress, and when the
\* limiter let it through.
Holder == Ceremony \cup Request
Owner(x) == IF x \in Request THEN begun[x].by ELSE pending[x].by
Asked(x) == IF x \in Request THEN begun[x].at ELSE pending[x].since

\* f names, for every pending ceremony and every begin in progress, the request
\* behind it in the order in which they were let through: another one for each.
Begun(f) ==
    \A x \in Holder : Owner(x) \in Key =>
       LET s == passed[Owner(x)] IN
       /\ f[x] \in 1 .. Len(s) /\ s[f[x]].at = Asked(x)
       /\ \A y \in Holder : y # x /\ Owner(y) = Owner(x) => f[y] # f[x]

BegunInv == \E f \in [Holder -> Nat] : Begun(f)

\* A request adds to what was let through and changes nothing of it.
LEMMA AllowExtends ==
  ASSUME TypeOK, NEW k \in Key, Allow(k)
  PROVE  /\ \A j \in Key : \A i \in 1 .. Len(passed[j]) :
               i \in 1 .. Len(passed'[j]) /\ passed'[j][i] = passed[j][i]
         /\ decision'.ok => LET n == Len(passed[k]) + 1 IN
               n \in 1 .. Len(passed'[k]) /\ passed'[k][n].at = now
<1>1. passed \in [Key -> Seq(Passed)] /\ now \in Time /\ entries \in [Key -> Entry]
  BY DEF TypeOK
<1>2. PICK w \in Time : \/ passed' = passed /\ ~decision'.ok
                        \/ passed' = [passed EXCEPT ![k] = Append(@, [at |-> now, window |-> w])]
  <2>1. CASE entries[k].count = 0 \/ Over(entries[k])
    BY <1>1, <2>1 DEF Allow, Opened
  <2>2. CASE ~(entries[k].count = 0 \/ Over(entries[k]))
    <3>1. entries[k].windowStart \in Time
      BY <1>1 DEF Entry
    <3>2. CASE Within(Counted(entries[k]).count)
      BY <1>1, <2>2, <3>1, <3>2 DEF Allow, Counted
    <3>3. CASE ~Within(Counted(entries[k]).count)
      BY <1>1, <2>2, <3>1, <3>3 DEF Allow, Counted
    <3> QED
      BY <3>2, <3>3
  <2> QED
    BY <2>1, <2>2
<1>3. CASE passed' = passed /\ ~decision'.ok
  BY <1>3
<1>4. CASE passed' = [passed EXCEPT ![k] = Append(@, [at |-> now, window |-> w])]
  <2> DEFINE r == [at |-> now, window |-> w]
  <2>1. r \in Passed /\ r.at = now
    BY <1>1 DEF Passed
  <2> HIDE DEF r
  <2>2. passed'[k] = Append(passed[k], r) /\ \A j \in Key : j # k => passed'[j] = passed[j]
    BY <1>1, <1>4 DEF r
  <2>3. /\ passed[k] \in Seq(Passed) /\ Len(passed[k]) \in Nat
        /\ Len(passed'[k]) = Len(passed[k]) + 1 /\ passed'[k][Len(passed[k]) + 1] = r
        /\ \A i \in 1 .. Len(passed[k]) : passed'[k][i] = passed[k][i]
    BY <1>1, <2>1, <2>2
  <2> QED
    BY <2>1, <2>2, <2>3
<1> QED
  BY <1>2, <1>3, <1>4

\* Holders that keep their request, or go, are still named by f.
LEMMA BegunKept ==
  ASSUME NEW f \in [Holder -> Nat], Begun(f),
         \A x \in Holder : Owner(x)' \in Key => Owner(x)' = Owner(x) /\ Asked(x)' = Asked(x),
         \A j \in Key : \A i \in 1 .. Len(passed[j]) :
            i \in 1 .. Len(passed'[j]) /\ passed'[j][i] = passed[j][i]
  PROVE  BegunInv'
<1>1. ASSUME NEW x \in Holder, Owner(x)' \in Key
      PROVE  /\ f[x] \in 1 .. Len(passed'[Owner(x)']) /\ passed'[Owner(x)'][f[x]].at = Asked(x)'
             /\ \A y \in Holder : y # x /\ Owner(y)' = Owner(x)' => f[y] # f[x]
  <2>1. Owner(x)' = Owner(x) /\ Asked(x)' = Asked(x)
    BY <1>1
  <2>2. /\ f[x] \in 1 .. Len(passed[Owner(x)]) /\ passed[Owner(x)][f[x]].at = Asked(x)
        /\ \A y \in Holder : y # x /\ Owner(y) = Owner(x) => f[y] # f[x]
    BY <1>1, <2>1 DEF Begun
  <2>3. \A y \in Holder : Owner(y)' = Owner(x)' => Owner(y) = Owner(x)
    BY <1>1, <2>1
  <2> QED
    BY <1>1, <2>1, <2>2, <2>3
<1>2. Begun(f)'
  BY <1>1 DEF Begun
<1>3. Holder' = Holder
  BY DEF Holder, Ceremony, Login
<1> QED
  BY <1>2, <1>3 DEF BegunInv

\* One holder, h, gets the request numbered n, which no other holder has.
LEMMA BegunMoved ==
  ASSUME NEW f \in [Holder -> Nat], Begun(f), NEW h \in Holder, NEW n \in Nat,
         \A x \in Holder : x # h /\ Owner(x)' \in Key =>
            Owner(x)' = Owner(x) /\ Asked(x)' = Asked(x) /\ (Owner(x) = Owner(h)' => f[x] # n),
         \A j \in Key : \A i \in 1 .. Len(passed[j]) :
            i \in 1 .. Len(passed'[j]) /\ passed'[j][i] = passed[j][i],
         n \in 1 .. Len(passed'[Owner(h)']), passed'[Owner(h)'][n].at = Asked(h)'
  PROVE  BegunInv'
<1>1. PICK g \in [Holder -> Nat] : g[h] = n /\ \A x \in Holder : x # h => g[x] = f[x]
  <2> DEFINE g == [f EXCEPT ![h] = n]
  <2>1. g \in [Holder -> Nat] /\ g[h] = n /\ \A x \in Holder : x # h => g[x] = f[x]
    OBVIOUS
  <2> QED
    BY <2>1
<1>2. ASSUME NEW x \in Holder, Owner(x)' \in Key
      PROVE  /\ g[x] \in 1 .. Len(passed'[Owner(x)']) /\ passed'[Owner(x)'][g[x]].at = Asked(x)'
             /\ \A y \in Holder : y # x /\ Owner(y)' = Owner(x)' => g[y] # g[x]
  <2>1. CASE x = h
    BY <1>1, <1>2, <2>1
  <2>2. CASE x # h
    <3>1. Owner(x)' = Owner(x) /\ Asked(x)' = Asked(x) /\ g[x] = f[x]
      BY <1>1, <1>2, <2>2
    <3>2. /\ f[x] \in 1 .. Len(passed[Owner(x)]) /\ passed[Owner(x)][f[x]].at = Asked(x)
          /\ \A y \in Holder : y # x /\ Owner(y) = Owner(x) => f[y] # f[x]
      BY <1>2, <3>1 DEF Begun
    <3>3. ASSUME NEW y \in Holder, y # x, Owner(y)' = Owner(x)' PROVE g[y] # g[x]
      <4>1. CASE y = h
        BY <1>1, <1>2, <2>2, <3>1, <3>3, <4>1
      <4>2. CASE y # h
        BY <1>1, <1>2, <3>1, <3>2, <3>3, <4>2
      <4> QED
        BY <4>1, <4>2
    <3> QED
      BY <1>2, <3>1, <3>2, <3>3
  <2> QED
    BY <2>1, <2>2
<1>3. Begun(g)'
  BY <1>2 DEF Begun
<1>4. Holder' = Holder
  BY DEF Holder, Ceremony, Login
<1> QED
  BY <1>3, <1>4 DEF BegunInv

\* Every pending ceremony and every begin in progress goes back to a request of
\* its own that was let through.
LEMMA BegunStep ==
  ASSUME TypeOK, SweepInv, BegunInv, [SweepingNext]_sweepingVars
  PROVE  BegunInv'
<1> USE LimitAssumption, SweepingAssumption
<1>1. PICK f \in [Holder -> Nat] : Begun(f)
  BY DEF BegunInv
<1>2. /\ pending \in [Ceremony -> [by : Key \cup {NoKey}, since : Nat, expiresAt : Nat]]
      /\ begun \in [Request -> [by : Key \cup {NoKey}, at : Nat]]
      /\ None.by \notin Key /\ NoRequest.by \notin Key
  BY DEF SweepInv, TickersSet, None, NoRequest
<1>0. \A x \in Holder : x \notin Request => x \in Ceremony
  BY DEF Holder
<1>00. \A c \in Ceremony : c \notin Request /\ c \in Holder
  BY DEF Holder, Ceremony, Login
<1>3. ASSUME \A c \in Ceremony : pending'[c] \in {pending[c], None},
             \A r \in Request : begun'[r] \in {begun[r], NoRequest},
             \A j \in Key : \A i \in 1 .. Len(passed[j]) :
                i \in 1 .. Len(passed'[j]) /\ passed'[j][i] = passed[j][i]
      PROVE  BegunInv'
  <2>1. /\ \A c \in Ceremony : pending'[c].by \in Key => pending'[c] = pending[c]
        /\ \A r \in Request : begun'[r].by \in Key => begun'[r] = begun[r]
    BY <1>2, <1>3
  <2>2. \A x \in Holder : Owner(x)' \in Key => Owner(x)' = Owner(x) /\ Asked(x)' = Asked(x)
    BY <1>0, <2>1 DEF Owner, Asked
  <2> QED
    BY <1>1, <1>3, <2>2, BegunKept
<1>4. ASSUME NEW k \in Key, NEW r \in Request, BeginAllowed(k, r) PROVE BegunInv'
  <2>1. /\ \A j \in Key : \A i \in 1 .. Len(passed[j]) :
              i \in 1 .. Len(passed'[j]) /\ passed'[j][i] = passed[j][i]
        /\ Len(passed[k]) + 1 \in 1 .. Len(passed'[k])
        /\ passed'[k][Len(passed[k]) + 1].at = now
    BY <1>4, AllowExtends DEF BeginAllowed
  <2>2. PICK n \in Nat : n = Len(passed[k]) + 1
    <3>1. passed[k] \in Seq(Passed)
      BY DEF TypeOK
    <3> QED
      BY <3>1
  <2>3. /\ pending' = pending /\ begun'[r] = [by |-> k, at |-> now]
        /\ \A q \in Request : q # r => begun'[q] = begun[q]
    BY <1>2, <1>4 DEF BeginAllowed
  <2>4. r \in Holder /\ Owner(r)' = k /\ Asked(r)' = now
    BY <2>3 DEF Holder, Owner, Asked
  <2>5. ASSUME NEW x \in Holder, x # r, Owner(x)' \in Key
        PROVE  Owner(x)' = Owner(x) /\ Asked(x)' = Asked(x) /\ (Owner(x) = k => f[x] # n)
    <3>1. Owner(x)' = Owner(x) /\ Asked(x)' = Asked(x)
      BY <1>0, <2>3, <2>5 DEF Owner, Asked
    <3>2. f[x] \in 1 .. Len(passed[Owner(x)])
      BY <1>1, <2>5, <3>1 DEF Begun
    <3> QED
      BY <2>2, <3>1, <3>2
  <2> QED
    BY <1>1, <2>1, <2>2, <2>4, <2>5, BegunMoved
<1>5. ASSUME NEW r \in Request, NEW c \in Ceremony, BeginPut(r, c) PROVE BegunInv'
  <2>1. /\ begun'[r] = NoRequest /\ \A q \in Request : q # r => begun'[q] = begun[q]
        /\ passed' = passed
    BY <1>2, <1>5 DEF BeginPut, vars
  <2>2. /\ pending'[c].by = begun[r].by /\ pending'[c].since = begun[r].at
        /\ \A d \in Ceremony : d # c => pending'[d] \in {pending[d], None}
    BY <1>5 DEF BeginPut, Put
  <2>3. /\ c \in Holder /\ r \in Holder /\ c # r
        /\ Owner(c)' = Owner(r) /\ Asked(c)' = Asked(r)
    BY <1>00, <2>2 DEF Holder, Owner, Asked
  <2>4. ASSUME NEW x \in Holder, x # c, Owner(x)' \in Key
        PROVE  Owner(x)' = Owner(x) /\ Asked(x)' = Asked(x) /\ x # r
    <3>1. CASE x \in Request
      BY <1>2, <2>1, <2>4, <3>1 DEF Owner, Asked
    <3>2. CASE x \notin Request
      <4>1. x \in Ceremony /\ pending'[x] = pending[x]
        BY <1>0, <1>2, <2>2, <2>4, <3>2 DEF Owner
      <4> QED
        BY <3>2, <4>1 DEF Owner, Asked
    <3> QED
      BY <3>1, <3>2
  <2>5. CASE Owner(r) \in Key
    <3>1. /\ f[r] \in 1 .. Len(passed[Owner(r)]) /\ passed[Owner(r)][f[r]].at = Asked(r)
          /\ \A x \in Holder : x # r /\ Owner(x) = Owner(r) => f[x] # f[r]
      BY <1>1, <2>3, <2>5 DEF Begun
    <3>2. \A x \in Holder : x # c /\ Owner(x)' \in Key =>
             Owner(x)' = Owner(x) /\ Asked(x)' = Asked(x) /\ (Owner(x) = Owner(c)' => f[x] # f[r])
      BY <2>3, <2>4, <3>1
    <3> QED
      BY <1>1, <2>1, <2>3, <3>1, <3>2, BegunMoved
  <2>6. CASE Owner(r) \notin Key
    <3>1. \A x \in Holder : Owner(x)' \in Key => Owner(x)' = Owner(x) /\ Asked(x)' = Asked(x)
      BY <2>3, <2>4, <2>6
    <3> QED
      BY <1>1, <2>1, <3>1, BegunKept
  <2> QED
    BY <2>5, <2>6
<1>6. ASSUME NEW k \in Key, BeginRefused(k) PROVE BegunInv'
  BY <1>3, <1>6, AllowExtends DEF BeginRefused
<1>7. ASSUME NEW r \in Request, BeginStops(r) PROVE BegunInv'
  BY <1>2, <1>3, <1>7 DEF BeginStops, vars
<1>8. ASSUME NEW c \in Ceremony, Take(c) PROVE BegunInv'
  BY <1>2, <1>3, <1>8 DEF Take, vars
<1>9. CASE SweepCeremonies
  BY <1>3, <1>9 DEF SweepCeremonies, vars
<1>10. CASE SweepLimiter
  BY <1>3, <1>10 DEF SweepLimiter, SweepExpired
<1>11. CASE TimePasses
  BY <1>3, <1>11 DEF TimePasses, Tick
<1>12. CASE RestartAll
  <2>1. \A x \in Holder : Owner(x)' \notin Key
    BY <1>0, <1>2, <1>12 DEF RestartAll, Owner
  <2>2. Begun(f)' /\ Holder' = Holder
    BY <2>1 DEF Begun, Holder, Ceremony, Login
  <2> QED
    BY <2>2 DEF BegunInv
<1>13. CASE UNCHANGED sweepingVars
  BY <1>3, <1>13 DEF sweepingVars, vars
<1> QED
  BY <1>4, <1>5, <1>6, <1>7, <1>8, <1>9, <1>10, <1>11, <1>12, <1>13 DEF SweepingNext

\* The last 4 * Limit - 1 requests of an address began all the ceremonies that
\* were begun promptly: the others were let through too long ago for the ticker
\* to have left theirs.
LEMMA RecentOnly ==
  ASSUME TypeOK, HistoryInv, SweepInv, ExpiredLeave, BegunInv, NEW k \in Key
  PROVE  Cardinality(PromptlyBegun(k)) < 4 * Limit
<1> USE LimitAssumption, SweepingAssumption
<1> DEFINE S == PromptlyBegun(k)
<1>0. \A c \in S : /\ c \in Ceremony /\ pending[c].by = k
                   /\ pending[c].expiresAt <= pending[c].since + MaxDelay + TTL
                   /\ pending[c].expiresAt \in Nat /\ pending[c].since \in Nat
  BY DEF PromptlyBegun, SweepInv, TickersSet
<1>1. PICK f \in [Holder -> Nat] : Begun(f)
  BY DEF BegunInv
<1>2. PICK s \in Seq(Passed) : s = passed[k]
  BY DEF TypeOK
<1>3. PICK n \in Nat : n = Len(s)
  BY <1>2
<1>4. Stepwise(s) /\ \A i \in 1 .. n : s[i].at \in Nat /\ s[i].at <= now
  BY <1>2, <1>3, Times DEF HistoryInv
<1>5. now \in Nat
  BY DEF TypeOK, Time
<1>00. \A c \in S : c \in Holder /\ Owner(c) = k /\ Asked(c) = pending[c].since
  BY <1>0 DEF Holder, Owner, Asked, Ceremony, Login
<1> DEFINE lo == n - 4 * Limit + 2
<1>6. ASSUME NEW c \in S PROVE f[c] \in lo .. n
  <2>1. f[c] \in 1 .. n /\ s[f[c]].at = pending[c].since
    BY <1>00, <1>1, <1>2, <1>3 DEF Begun
  <2>2. now <= pending[c].expiresAt + TTL
    BY <1>0 DEF ExpiredLeave, Present, None
  <2>3. PICK i \in 1 .. n : i = f[c]
    BY <2>1
  <2>4. now <= s[i].at + 3 * Window
    <3>1. s[i].at \in Nat /\ s[i].at = pending[c].since
      BY <1>4, <2>1, <2>3
    <3>2. pending[c].expiresAt <= s[i].at + MaxDelay + TTL /\ pending[c].expiresAt \in Nat
      BY <1>0, <3>1
    <3> HIDE DEF S
    <3> QED
      BY <1>5, <2>2, <3>1, <3>2
  <2>5. ~(i + 4 * Limit - 1 <= n)
    <3> SUFFICES ASSUME i + 4 * Limit - 1 <= n PROVE FALSE
      OBVIOUS
    <3>1. s[i + 4 * Limit - 1].at > s[i].at + 3 * Window
      BY <1>3, <1>4, Spread
    <3>2. i + 4 * Limit - 1 \in 1 .. n
      OBVIOUS
    <3>3. s[i + 4 * Limit - 1].at <= now /\ s[i + 4 * Limit - 1].at \in Nat
      BY <1>4, <3>2
    <3> QED
      BY <1>4, <1>5, <2>4, <3>1, <3>3
  <2> QED
    BY <2>3, <2>5
<1>7. \A c, d \in S : f[c] = f[d] => c = d
  BY <1>00, <1>1 DEF Begun
<1>8. IsFiniteSet(lo .. n) /\ Cardinality(lo .. n) = 4 * Limit - 1
  <2>1. lo \in Int /\ n \in Int /\ lo <= n /\ n - lo + 1 = 4 * Limit - 1
    OBVIOUS
  <2> HIDE DEF lo
  <2> QED
    BY <2>1, FS_Interval
<1> DEFINE g == [c \in S |-> f[c]]
<1>9. g \in Injection(S, lo .. n)
  <2> HIDE DEF S, lo
  <2> QED
    BY <1>6, <1>7 DEF Injection, IsInjective
<1>10. IsFiniteSet(S) /\ Cardinality(S) <= 4 * Limit - 1
  <2> HIDE DEF S, g, lo
  <2> QED
    BY <1>8, <1>9, FS_Injection
<1>11. Cardinality(S) \in Nat
  <2> HIDE DEF S
  <2> QED
    BY <1>10, FS_CardinalityType
<1> QED
  <2> HIDE DEF S
  <2>1. Cardinality(S) < 4 * Limit
    BY <1>10, <1>11
  <2> QED
    BY <2>1 DEF S

\* However the begin requests of one address are spread, and however late each
\* of them stores its ceremony up to MaxDelay, the address never has four
\* windows' worth of ceremonies in memory.
THEOREM CeremoniesBounded == SweepingSpec => []PendingBounded
<1>1. SweepingInit => BegunInv
  <2> SUFFICES ASSUME SweepingInit PROVE BegunInv
    OBVIOUS
  <2> DEFINE f == [x \in Holder |-> 0]
  <2>1. f \in [Holder -> Nat]
    OBVIOUS
  <2>2. \A x \in Holder : Owner(x) = NoKey
    BY DEF SweepingInit, Holder, Owner, None, NoRequest
  <2>3. Begun(f)
    BY <2>2, LimitAssumption DEF Begun
  <2> QED
    BY <2>1, <2>3 DEF BegunInv
<1>2. TypeOK /\ SweepInv /\ BegunInv /\ [SweepingNext]_sweepingVars => BegunInv'
  BY BegunStep
<1>3. TypeOK /\ HistoryInv /\ SweepInv /\ ExpiredLeave /\ BegunInv => PendingBounded
  BY RecentOnly DEF PendingBounded
<1> QED
  BY <1>1, <1>2, <1>3, TypeCorrect, HistoryCorrect, SweepCorrect, MemoryReclaimed,
     SweepingRefinesLimiter, PTL DEF SweepingSpec

=============================================================================
