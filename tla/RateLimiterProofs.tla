--------------------------- MODULE RateLimiterProofs ---------------------------
(***************************************************************************)
(* The limiter keeps its promises for every limit, window and resolution   *)
(* of the clock.                                                           *)
(***************************************************************************)
EXTENDS RateLimiter, FiniteSetTheorems, TLAPS

\* Hits are logged in the order of time.
InOrder == /\ \A i \in DOMAIN log : log[i] <= now
           /\ \A i, j \in DOMAIN log : i <= j => log[i] <= log[j]

\* What the deque has dropped has left the window.
Dropped == \A i \in DOMAIN log : i < head => log[i] + Window <= now

\* The deque never holds more than the limit.
Bounded == Len(log) + 1 - head <= Limit

\* A refusal announces a time at which the oldest of the last Limit hits has
\* left the window.
HintOK ==
    /\ hint.after <= Len(log)
    /\ hint.after > 0 =>
         hint.after >= Limit /\ log[hint.after + 1 - Limit] + Window <= hint.due

LimInv == TypeOK /\ InOrder /\ Dropped /\ Bounded /\ HintOK /\ WindowRespected

LEMMA WindowType == Window \in Nat /\ Window > 0
BY LimiterAssumption DEF Window

\* What the type of the log says of its entries.
LEMMA LogType ==
    ASSUME TypeOK
    PROVE  /\ log \in Seq(Nat) /\ now \in Nat /\ Len(log) \in Nat
           /\ head \in 1 .. Len(log) + 1
           /\ DOMAIN log = 1 .. Len(log)
           /\ \A i \in 1 .. Len(log) : log[i] \in Nat
           /\ hint.after \in Nat /\ hint.due \in Nat
           /\ Limit \in Nat /\ Limit > 0 /\ Window \in Nat
BY WindowType, LimiterAssumption DEF TypeOK

\* Rounding a remaining time up to whole seconds does not shorten it.
LEMMA RoundsUp ==
    ASSUME NEW left \in Nat
    PROVE  RetryAfter(left) * Tick \in Nat /\ left <= RetryAfter(left) * Tick
BY LimiterAssumption DEF RetryAfter

LEMMA InitLim == Init => LimInv
BY WindowType, LimiterAssumption
DEF Init, LimInv, TypeOK, InOrder, Dropped, Bounded, HintOK, WindowRespected, NoHint

LEMMA AcceptKeeps == LimInv /\ Accept => LimInv'
<1> SUFFICES ASSUME LimInv, Accept PROVE LimInv'
  OBVIOUS
<1>1. PICK h \in 1 .. Len(log) + 1 : Cut(h) /\ Room(h) /\ head' = h
  BY DEF Accept
<1> DEFINE n == Len(log)
<1>2. /\ log \in Seq(Nat) /\ now \in Nat /\ n \in Nat /\ head \in 1 .. n + 1
      /\ Limit \in Nat /\ Limit > 0 /\ Window \in Nat /\ DOMAIN log = 1 .. n
      /\ \A i \in 1 .. n : log[i] \in Nat
  BY LogType DEF LimInv
<1>3. /\ log' \in Seq(Nat) /\ Len(log') = n + 1 /\ DOMAIN log' = 1 .. n + 1
      /\ \A i \in 1 .. n : log'[i] = log[i]
      /\ log'[n + 1] = now
      /\ now' = now /\ hint' = hint
  BY <1>2 DEF Accept
<1>4. \A i \in 1 .. n : i < h => log[i] + Window <= now
  <2>1. /\ \A i \in 1 .. n : i < head => log[i] + Window <= now
        /\ \A i \in head .. h - 1 : log[i] + Window <= now
    BY <1>1, <1>2 DEF LimInv, Dropped, Cut
  <2>2. \A i \in 1 .. n : i < h => i < head \/ i \in head .. h - 1
    BY <1>1, <1>2
  <2> QED
    BY <2>1, <2>2
<1>5. TypeOK'
  BY <1>1, <1>2, <1>3 DEF LimInv, TypeOK
<1>6. InOrder'
  <2>1. \A i \in 1 .. n : log[i] \in Nat /\ log[i] <= now
    BY <1>2 DEF LimInv, InOrder
  <2>2. \A i, j \in 1 .. n : i <= j => log[i] <= log[j]
    BY <1>2 DEF LimInv, InOrder
  <2>3. \A i \in 1 .. n + 1 : i = n + 1 \/ i \in 1 .. n
    BY <1>2
  <2> HIDE DEF n
  <2> QED
    BY <1>2, <1>3, <2>1, <2>2, <2>3 DEF InOrder
<1>7. Dropped'
  <2>1. \A i \in 1 .. n + 1 : i < h => i \in 1 .. n
    BY <1>1, <1>2
  <2> QED
    BY <1>1, <1>2, <1>3, <1>4, <2>1 DEF Dropped
<1>8. Bounded'
  BY <1>1, <1>2, <1>3 DEF Bounded, Room
<1>9. HintOK'
  <2>1. hint.after \in Nat /\ hint.after <= n
    BY LogType DEF LimInv, HintOK
  <2>2. ASSUME hint.after > 0
        PROVE  /\ hint.after >= Limit /\ hint.after + 1 - Limit \in 1 .. n
               /\ log[hint.after + 1 - Limit] + Window <= hint.due
    <3>1. hint.after >= Limit /\ log[hint.after + 1 - Limit] + Window <= hint.due
      BY <2>2 DEF LimInv, HintOK
    <3> QED
      BY <1>2, <2>1, <3>1
  <2>3. hint'.after <= Len(log')
    BY <1>2, <1>3, <2>1
  <2>4. ASSUME hint'.after > 0
        PROVE  /\ hint'.after >= Limit
               /\ log'[hint'.after + 1 - Limit] + Window <= hint'.due
    BY <1>3, <2>2, <2>4
  <2> QED
    BY <2>3, <2>4, <1>2 DEF HintOK, Window
<1>10. WindowRespected'
  <2> SUFFICES ASSUME NEW i \in 1 .. n + 1, i + Limit \in 1 .. n + 1
               PROVE  log'[i] + Window <= log'[i + Limit]
    BY <1>3 DEF WindowRespected
  <2>1. CASE i + Limit <= n
    <3>1. i \in 1 .. n /\ i + Limit \in 1 .. n
      BY <1>2, <2>1
    <3>2. log[i] + Window <= log[i + Limit]
      BY <1>2, <3>1 DEF LimInv, WindowRespected
    <3> QED
      BY <1>3, <3>1, <3>2
  <2>2. CASE i + Limit = n + 1
    <3>1. i < h /\ i \in 1 .. n
      BY <1>1, <1>2, <2>2 DEF Room
    <3> QED
      BY <1>2, <1>3, <1>4, <2>2, <3>1
  <2> QED
    BY <1>2, <2>1, <2>2
<1> QED
  BY <1>5, <1>6, <1>7, <1>8, <1>9, <1>10 DEF LimInv

LEMMA RefuseKeeps == LimInv /\ Refuse => LimInv'
<1> SUFFICES ASSUME LimInv, Refuse PROVE LimInv'
  OBVIOUS
<1> DEFINE n == Len(log)
           Wait(h) == RetryAfter(Window - (now - log[h])) * Tick
<1>1. PICK h \in DOMAIN log :
        /\ Cut(h) /\ ~Room(h) /\ head' = h
        /\ hint' = [at |-> now, after |-> n, due |-> now + Wait(h)]
  BY DEF Refuse
<1>2. /\ log \in Seq(Nat) /\ now \in Nat /\ n \in Nat /\ head \in 1 .. n + 1
      /\ Limit \in Nat /\ Limit > 0 /\ Window \in Nat /\ DOMAIN log = 1 .. n
      /\ \A i \in 1 .. n : log[i] \in Nat
      /\ now' = now /\ log' = log
  BY LogType DEF LimInv, Refuse
<1>3. log[h] \in Nat /\ log[h] <= now /\ log[h] + Window > now
  BY <1>1, <1>2 DEF LimInv, InOrder, Cut, Deque
<1>4. Wait(h) \in Nat /\ Window - (now - log[h]) <= Wait(h)
  <2>1. Window - (now - log[h]) \in Nat
    BY <1>2, <1>3
  <2> QED
    BY <2>1, RoundsUp
<1>5. h = n + 1 - Limit
  <2>1. n + 1 - head <= Limit /\ head <= h /\ ~(n + 1 - h < Limit)
    BY <1>1, <1>2 DEF LimInv, Bounded, Room, Cut
  <2>2. h \in Nat /\ n \in Nat /\ head \in Nat /\ Limit \in Nat
    BY <1>2
  <2> HIDE DEF n, Wait
  <2> QED
    BY <2>1, <2>2
<1>6. TypeOK'
  BY <1>1, <1>2, <1>4 DEF TypeOK
<1>7. Dropped'
  BY <1>1, <1>2 DEF LimInv, Dropped, Cut
<1>8. Bounded'
  BY <1>1, <1>2, <1>5 DEF Bounded
<1>9. HintOK'
  <2> HIDE DEF Wait
  <2> QED
    BY <1>1, <1>2, <1>3, <1>4, <1>5 DEF HintOK
<1> QED
  BY <1>2, <1>6, <1>7, <1>8, <1>9 DEF LimInv, InOrder, WindowRespected

LEMMA ElapseKeeps == LimInv /\ Elapse => LimInv'
<1> SUFFICES ASSUME LimInv, Elapse PROVE LimInv'
  OBVIOUS
<1>1. /\ log \in Seq(Nat) /\ now \in Nat /\ now' = now + 1 /\ Window \in Nat
      /\ UNCHANGED <<log, head, hint>>
  BY WindowType DEF LimInv, TypeOK, Elapse
<1>2. \A i \in DOMAIN log : log[i] \in Nat
  BY <1>1
<1> QED
  BY <1>1, <1>2
  DEF LimInv, TypeOK, InOrder, Dropped, Bounded, HintOK, WindowRespected

\* The invariant of the limiter: the deque is what is left of the log in the
\* window, so a place in it is a place in the window.
LEMMA AlwaysLimInv == Spec => []LimInv
<1>1. LimInv /\ [Next]_vars => LimInv'
  <2> SUFFICES ASSUME LimInv, [Next]_vars PROVE LimInv'
    OBVIOUS
  <2>1. CASE UNCHANGED vars
    BY <2>1 DEF vars, LimInv, TypeOK, InOrder, Dropped, Bounded, HintOK, WindowRespected
  <2> QED
    BY <2>1, AcceptKeeps, RefuseKeeps, ElapseKeeps DEF Next
<1> QED
  BY <1>1, InitLim, PTL DEF Spec

\* Every variable of the limiter keeps its type.
THEOREM LimiterTypeCorrect == Spec => []TypeOK
<1>1. LimInv => TypeOK
  BY DEF LimInv
<1> QED
  BY <1>1, AlwaysLimInv, PTL

\* No window of the configured length holds more accepted hits than the limit,
\* whatever the limit, the window and the times of the requests.
THEOREM NoWindowOverrun == Spec => []WindowRespected
<1>1. LimInv => WindowRespected
  BY DEF LimInv
<1> QED
  BY <1>1, AlwaysLimInv, PTL

\* Who waits for retry_after finds a place, unless somebody else took it: the
\* announced time is rounded so that the oldest hit that counts has left.
THEOREM WaitingSuffices == Spec => []RetryIsEnough
<1>1. LimInv => RetryIsEnough
  <2> SUFFICES ASSUME LimInv, hint.after > 0, hint.due <= now, Len(log) = hint.after,
                      NEW h \in 1 .. Len(log) + 1, Cut(h), ~Room(h)
               PROVE  FALSE
    BY DEF RetryIsEnough
  <2> DEFINE n == Len(log)
             k == n + 1 - Limit
  <2>1. /\ log \in Seq(Nat) /\ now \in Nat /\ n \in Nat /\ head \in 1 .. n + 1
        /\ Limit \in Nat /\ Limit > 0 /\ Window \in Nat /\ DOMAIN log = 1 .. n
        /\ \A i \in 1 .. n : log[i] \in Nat
        /\ hint.due \in Nat
    BY LogType DEF LimInv
  <2>2. k \in 1 .. n /\ log[k] + Window <= now
    <3>1. n >= Limit /\ log[k] + Window <= hint.due
      BY <2>1 DEF LimInv, HintOK
    <3>2. k \in 1 .. n
      BY <2>1, <3>1
    <3>3. log[k] \in Nat /\ log[k] + Window <= hint.due
      BY <2>1, <3>1, <3>2
    <3> QED
      BY <2>1, <3>2, <3>3
  <2>3. h <= k /\ h \in 1 .. n /\ h \in Deque
    <3>1. h \in 1 .. n + 1 /\ head <= h /\ ~(n + 1 - h < Limit)
      BY <2>1 DEF Room, Cut
    <3> QED
      BY <2>1, <3>1 DEF Deque
  <2>4. log[h] + Window > now /\ log[h] <= log[k]
    BY <2>1, <2>2, <2>3 DEF Cut, LimInv, InOrder
  <2> QED
    BY <2>1, <2>2, <2>3, <2>4
<1> QED
  BY <1>1, AlwaysLimInv, PTL

\* A refusal is always due to Limit hits that do lie in the window.
THEOREM RefusalsAreDue == Spec => NoNeedlessRefusal
<1>1. LimInv /\ [Next]_vars => [hint' # hint => Cardinality(Recent) >= Limit]_vars
  <2> SUFFICES ASSUME LimInv, Next, hint' # hint PROVE Cardinality(Recent) >= Limit
    OBVIOUS
  <2>1. Refuse
    BY DEF Next, Accept, Elapse
  <2>2. PICK h \in DOMAIN log : Cut(h) /\ ~Room(h)
    BY <2>1 DEF Refuse
  <2> DEFINE n == Len(log)
  <2>3. /\ log \in Seq(Nat) /\ now \in Nat /\ n \in Nat /\ head \in 1 .. n + 1
        /\ Limit \in Nat /\ Limit > 0 /\ Window \in Nat /\ DOMAIN log = 1 .. n
        /\ \A i \in 1 .. n : log[i] \in Nat
    BY LogType DEF LimInv
  <2>4. \A i \in h .. n : i \in Recent
    <3>1. h \in 1 .. n /\ h \in Deque /\ log[h] + Window > now
      BY <2>2, <2>3 DEF Cut, Deque
    <3>2. \A i \in h .. n : i \in 1 .. n /\ log[h] <= log[i]
      BY <2>3, <3>1 DEF LimInv, InOrder
    <3> QED
      BY <2>3, <3>1, <3>2 DEF Recent
  <2>5. Cardinality(h .. n) = n - h + 1
    BY <2>3, FS_Interval
  <2>6. IsFiniteSet(1 .. n) /\ Recent \subseteq 1 .. n
    BY <2>3, FS_Interval DEF Recent
  <2>7. IsFiniteSet(Recent)
    BY <2>6, FS_Subset
  <2>8. Cardinality(h .. n) <= Cardinality(Recent) /\ Cardinality(Recent) \in Nat
    BY <2>4, <2>7, FS_Subset, FS_CardinalityType
  <2> QED
    BY <2>2, <2>3, <2>5, <2>8 DEF Room
<1> QED
  BY <1>1, AlwaysLimInv, PTL DEF Spec, NoNeedlessRefusal
===============================================================================
