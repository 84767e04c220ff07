---------------------------- MODULE DeliveryProofs ----------------------------
(***************************************************************************)
(* What links and presigned URLs promise, for every number of requests,    *)
(* every resolution of the clock and every setting of the lifetimes.       *)
(***************************************************************************)
EXTENDS Delivery, TLAPS

\* The row, every copy of it and every link go by the job's own expires_at,
\* and as long as nobody takes the job away it is there until then.
Dated ==
    /\ row # NoRow <=> job = "completed"
    /\ row # NoRow => row.exp = jobExp
    /\ \A r \in Requests : snap[r] # NoRow => snap[r].exp = jobExp /\ job # "working"
    /\ \A link \in links : link * Tick <= jobExp /\ job # "working"
    /\ kept /\ job = "expired" => jobExp < now

\* A request that came too late never holds a row.
Holds(r) == \/ pc[r] \in {"sign", "local"} \/ answer[r] \in {"file", "url"}
            \/ pc[r] \in {"check", "linkmake"} /\ snap[r] # NoRow
LateEmpty == \A r \in Requests : late[r] => job = "expired" /\ ~Holds(r)

\* What is left of a link or of an artifact when a handler goes on with it.
Spare(r, end) == end - begun[r] + Tick
Lives ==
    \A r \in Requests :
      /\ begun[r] <= now
      /\ pc[r] \in {"read", "check", "sign"} =>
           /\ left[r] >= 1 /\ answer[r] = "none"
           /\ asked[r] # NoLink => left[r] * Tick < Spare(r, asked[r] * Tick)
      /\ pc[r] = "sign" => /\ snap[r] # NoRow
                           /\ left[r] * Tick < Spare(r, snap[r].exp)
      /\ answer[r] = "url" => pc[r] = "idle" /\ snap[r] # NoRow

IInv == TypeOK /\ Dated /\ LateEmpty /\ Lives /\ UrlEndsInTime

-----------------------------------------------------------------------------
(***************************************************************************)
(* Seconds and ticks.                                                      *)
(***************************************************************************)
LEMMA SecondBounds ==
    ASSUME NEW t \in Nat
    PROVE  /\ Second(t) \in Nat
           /\ Second(t) * Tick \in Nat
           /\ Second(t) * Tick <= t
           /\ t < Second(t) * Tick + Tick
BY DeliveryAssumption DEF Second

LEMMA TicksAdd ==
    ASSUME NEW a \in Int, NEW b \in Int
    PROVE  /\ (a + b) * Tick = a * Tick + b * Tick
           /\ (a - b) * Tick = a * Tick - b * Tick
           /\ a * Tick \in Int /\ b * Tick \in Int
BY DeliveryAssumption

LEMMA TicksGrow ==
    ASSUME NEW a \in Int, NEW b \in Int, a <= b
    PROVE  a * Tick <= b * Tick
BY DeliveryAssumption

LEMMA Clamps ==
    ASSUME NEW a \in Int, NEW b \in Int
    PROVE  /\ Least(a, b) \in {a, b} /\ Least(a, b) <= a /\ Least(a, b) <= b
           /\ Most(a, b) \in {a, b} /\ Most(a, b) >= a /\ Most(a, b) >= b
BY DEF Least, Most

\* The products the invariant compares, for the solver.
LEMMA Ticks ==
    ASSUME TypeOK, NEW r \in Requests
    PROVE  /\ until[r] * Tick \in Nat /\ left[r] * Tick \in Nat /\ Tick \in Nat
           /\ begun[r] \in Nat /\ now \in Nat
           /\ asked[r] # NoLink => asked[r] * Tick \in Nat
           /\ snap[r] # NoRow => snap[r].exp \in Nat
<1>1. until[r] \in Nat /\ left[r] \in Nat /\ begun[r] \in Nat /\ now \in Nat
  BY DEF TypeOK
<1>2. asked[r] # NoLink => asked[r] \in Nat
  BY DEF TypeOK
<1>3. snap[r] # NoRow => snap[r].exp \in Nat
  BY DEF TypeOK, Row
<1> QED
  BY <1>1, <1>2, <1>3, DeliveryAssumption

-----------------------------------------------------------------------------
(***************************************************************************)
(* The invariant.                                                          *)
(***************************************************************************)
LEMMA InitIInv == Init => IInv
<1> SUFFICES ASSUME Init PROVE IInv
  OBVIOUS
<1>1. TypeOK
  BY DeliveryAssumption DEF Init, TypeOK
<1>2. Dated /\ LateEmpty
  BY DEF Init, Dated, LateEmpty, Holds
<1>3. Lives /\ UrlEndsInTime
  BY DEF Init, Lives, UrlEndsInTime
<1> QED
  BY <1>1, <1>2, <1>3 DEF IInv

\* What happens to the artifact while no handler moves.
LEMMA WorldKeeps ==
    ASSUME IInv, Complete \/ Sweep \/ PurgeOrEvict \/ RemoveFiles
    PROVE  IInv'
<1> USE DEF IInv, Complete, Sweep, PurgeOrEvict, RemoveFiles, MarkExpired, handler
<1>1. TypeOK'
  <2>1. CASE Complete
    <3>1. row' \in Row /\ jobExp' \in Nat /\ file' \in BOOLEAN
      BY <2>1, DeliveryAssumption DEF TypeOK, Row
    <3> QED
      BY <2>1, <3>1 DEF TypeOK
  <2>2. CASE Sweep \/ PurgeOrEvict \/ RemoveFiles
    BY <2>2 DEF TypeOK
  <2> QED
    BY <2>1, <2>2
<1>2. Dated'
  BY <1>1, DeliveryAssumption DEF Dated, TypeOK, Row
<1>3. LateEmpty'
  BY DEF LateEmpty, Holds
<1>4. Lives' /\ UrlEndsInTime'
  BY DEF Lives, Spare, UrlEndsInTime, EndsInTime, Excess
<1> QED
  BY <1>1, <1>2, <1>3, <1>4

LEMMA ElapseKeeps ==
    ASSUME IInv, Elapse
    PROVE  IInv'
<1> USE DEF IInv, Elapse, world, handler
<1>1. TypeOK'
  BY DEF TypeOK
<1>2. Dated' /\ LateEmpty'
  BY DEF Dated, LateEmpty, Holds, TypeOK
<1>3. Lives'
  BY DEF Lives, Spare, TypeOK
<1>4. UrlEndsInTime'
  <2> SUFFICES ASSUME NEW r \in Requests, answer[r] = "url"
               PROVE  EndsInTime(r)'
    BY DEF UrlEndsInTime
  <2>1. EndsInTime(r) /\ snap[r] # NoRow
    BY DEF UrlEndsInTime, Lives
  <2> QED
    BY <2>1, Ticks DEF EndsInTime, Excess, TypeOK, Row
<1> QED
  BY <1>1, <1>2, <1>3, <1>4

\* A request that comes in may go on with what is left of its link.
LEMMA ArrivalKeeps ==
    ASSUME IInv, NEW r \in Requests, NEW p \in {"read", "linkread"},
           NEW link \in Nat \cup {NoLink}, NEW ttl \in Nat,
           p = "read" => /\ ttl >= 1
                         /\ link # NoLink => ttl * Tick < link * Tick - now + Tick,
           Arrives(r, p, link, ttl)
    PROVE  IInv'
<1> USE DEF IInv, Arrives, Goes, Set, world
<1>1. TypeOK'
  BY DEF TypeOK
<1>2. Dated'
  BY DEF Dated
<1>3. LateEmpty'
  BY DEF LateEmpty, Holds, TypeOK, Dated
<1>4. Lives'
  BY DEF Lives, Spare, TypeOK
<1>5. UrlEndsInTime'
  BY DEF UrlEndsInTime, EndsInTime, Excess, TypeOK
<1> QED
  BY <1>1, <1>2, <1>3, <1>4, <1>5

LEMMA GetKeeps ==
    ASSUME IInv, NEW r \in Requests,
           GetArtifact(r) \/ PostLink(r) \/ \E link \in links : GetDirect(r, link)
    PROVE  IInv'
<1>1. CASE GetArtifact(r) \/ PostLink(r)
  <2>1. PresignTtl \in Nat /\ PresignTtl >= 1
    BY DeliveryAssumption
  <2>2. CASE Arrives(r, "read", NoLink, PresignTtl)
    BY <2>1, <2>2, ArrivalKeeps
  <2>3. CASE Arrives(r, "linkread", NoLink, 0)
    BY <2>3, ArrivalKeeps
  <2> QED
    BY <1>1, <2>2, <2>3 DEF GetArtifact, PostLink
<1>2. ASSUME NEW link \in links, GetDirect(r, link) PROVE IInv'
  <2> DEFINE s == Second(now)
  <2>1. link \in Nat /\ now \in Nat
    BY DEF IInv, TypeOK
  <2>2. s \in Nat /\ s * Tick \in Nat /\ now < s * Tick + Tick
    BY <2>1, SecondBounds
  <2>3. link > s /\ Arrives(r, "read", link, Most(1, link - s))
    BY <1>2 DEF GetDirect
  <2> HIDE DEF s
  <2>4. Most(1, link - s) = link - s /\ link - s \in Nat /\ link - s >= 1
    BY <2>1, <2>2, <2>3 DEF Most
  <2>5. (link - s) * Tick = link * Tick - s * Tick /\ link * Tick \in Int
    BY <2>1, <2>2, TicksAdd
  <2>6. (link - s) * Tick < link * Tick - now + Tick
    BY <2>1, <2>2, <2>5, DeliveryAssumption
  <2> QED
    BY <2>1, <2>3, <2>4, <2>6, ArrivalKeeps
<1> QED
  BY <1>1, <1>2

\* The row is read; a request that came late reads nothing.
LEMMA ReadKeeps ==
    ASSUME IInv, NEW r \in Requests,
           ReadRow(r, "read", "check") \/ ReadRow(r, "linkread", "linkmake")
    PROVE  IInv'
<1> USE DEF IInv, ReadRow, Goes, Set, world
<1>1. TypeOK'
  BY DEF TypeOK
<1>2. Dated'
  <2>1. \A q \in Requests : snap'[q] \in {snap[q], row}
    BY DEF TypeOK
  <2>2. row # NoRow => row.exp = jobExp /\ job # "working"
    BY DEF Dated
  <2>3. \A q \in Requests : snap'[q] # NoRow => snap'[q].exp = jobExp /\ job # "working"
    BY <2>1, <2>2 DEF Dated
  <2> QED
    BY <2>3 DEF Dated
<1>3. LateEmpty'
  BY DEF LateEmpty, Holds, TypeOK, Dated
<1>4. Lives'
  BY DEF Lives, Spare, TypeOK
<1>5. UrlEndsInTime'
  BY DEF UrlEndsInTime, EndsInTime, Excess, TypeOK, Lives
<1> QED
  BY <1>1, <1>2, <1>3, <1>4, <1>5

\* The seconds a URL is to be signed for fit into what is left of the artifact.
LEMMA SignForFits ==
    ASSUME IInv, NEW r \in Requests, pc[r] = "check", Ready(r)
    PROVE  /\ SignFor(r) \in Nat /\ SignFor(r) >= 1
           /\ asked[r] # NoLink => SignFor(r) * Tick < Spare(r, asked[r] * Tick)
           /\ SignFor(r) * Tick < Spare(r, snap[r].exp)
<1> DEFINE x == snap[r].exp - now
           m == Most(1, Second(x))
           k == SignFor(r)
<1>1. /\ now \in Nat /\ begun[r] \in Nat /\ begun[r] <= now /\ snap[r].exp \in Nat
      /\ left[r] \in Nat /\ left[r] >= 1 /\ left[r] * Tick \in Nat /\ Tick \in Nat /\ Tick >= 1
      /\ asked[r] # NoLink => /\ asked[r] * Tick \in Nat
                              /\ left[r] * Tick < Spare(r, asked[r] * Tick)
  BY Ticks, DeliveryAssumption DEF IInv, Lives, Ready, TypeOK
<1>2. x \in Nat /\ x >= 1
  BY <1>1 DEF Ready
<1> HIDE DEF x
<1>3. Second(x) \in Nat /\ Second(x) * Tick <= x
  BY <1>2, SecondBounds
<1>4. m \in Nat /\ m >= 1 /\ m * Tick < x + Tick
  BY <1>1, <1>2, <1>3 DEF Most
<1>5. k \in Nat /\ k >= 1 /\ k <= left[r] /\ k <= m
  BY <1>1, <1>3 DEF SignFor, Least, Most, x
<1> HIDE DEF k, m
<1>6. k * Tick <= left[r] * Tick /\ k * Tick <= m * Tick
      /\ k * Tick \in Int /\ m * Tick \in Int
  BY <1>1, <1>4, <1>5, TicksGrow, TicksAdd
<1>7. k * Tick < x + Tick
  BY <1>1, <1>2, <1>4, <1>6
<1>8. k * Tick < Spare(r, snap[r].exp)
  <2>1. x = snap[r].exp - now
    BY DEF x
  <2> QED
    BY <2>1, <1>1, <1>6, <1>7 DEF Spare
<1>9. asked[r] # NoLink => k * Tick < Spare(r, asked[r] * Tick)
  BY <1>1, <1>6 DEF Spare
<1> QED
  BY <1>5, <1>8, <1>9 DEF k

LEMMA CheckRemoteKeeps ==
    ASSUME IInv, NEW r \in Requests, CheckRemote(r)
    PROVE  IInv'
<1> USE DEF IInv, CheckRemote, Goes, Set, world
<1>0. /\ SignFor(r) \in Nat /\ SignFor(r) >= 1 /\ snap[r] # NoRow
      /\ asked[r] # NoLink => SignFor(r) * Tick < Spare(r, asked[r] * Tick)
      /\ SignFor(r) * Tick < Spare(r, snap[r].exp)
  BY SignForFits DEF Ready
<1>1. TypeOK'
  BY <1>0 DEF TypeOK
<1>2. Dated'
  BY DEF Dated
<1>3. LateEmpty'
  BY <1>0 DEF LateEmpty, Holds, TypeOK
<1>4. Lives'
  BY <1>0 DEF Lives, Spare, TypeOK
<1>5. UrlEndsInTime'
  BY DEF UrlEndsInTime, EndsInTime, Excess
<1> QED
  BY <1>1, <1>2, <1>3, <1>4, <1>5

\* The answers and steps that do not hand out a URL.
LEMMA PlainKeeps ==
    ASSUME IInv, NEW r \in Requests,
           CheckLocal(r) \/ CheckRefused(r) \/ SignFails(r) \/ ServeLocal(r)
    PROVE  IInv'
<1> USE DEF IInv, CheckLocal, CheckRefused, SignFails, ServeLocal, Answers, Goes, Set, world
<1>1. TypeOK'
  BY DEF TypeOK
<1>2. Dated'
  BY DEF Dated
<1>3. LateEmpty'
  BY DEF LateEmpty, Holds, TypeOK, Ready
<1>4. Lives'
  BY DEF Lives, Spare, TypeOK
<1>5. UrlEndsInTime'
  BY DEF UrlEndsInTime, EndsInTime, Excess, TypeOK
<1> QED
  BY <1>1, <1>2, <1>3, <1>4, <1>5

LEMMA SignKeeps ==
    ASSUME IInv, NEW r \in Requests, Sign(r)
    PROVE  IInv'
<1> DEFINE s == Second(now)
           ttl == Most(1, Least(left[r], PresignTtl))
<1>1. /\ now \in Nat /\ begun[r] \in Nat /\ snap[r] # NoRow /\ snap[r].exp \in Nat
      /\ left[r] \in Nat /\ left[r] >= 1 /\ left[r] * Tick \in Nat /\ Tick \in Nat
      /\ left[r] * Tick < Spare(r, snap[r].exp)
      /\ asked[r] # NoLink => /\ asked[r] * Tick \in Nat
                              /\ left[r] * Tick < Spare(r, asked[r] * Tick)
  BY Ticks DEF IInv, Lives, Sign, TypeOK
<1>2. s \in Nat /\ s * Tick \in Nat /\ s * Tick <= now
  BY <1>1, SecondBounds
<1>3. ttl \in Nat /\ ttl <= left[r]
  BY <1>1, DeliveryAssumption DEF Least, Most
<1>4. until' = [until EXCEPT ![r] = s + ttl]
  BY DEF Sign, Set
<1> HIDE DEF s, ttl
<1>5. (s + ttl) * Tick = s * Tick + ttl * Tick /\ ttl * Tick <= left[r] * Tick
      /\ ttl * Tick \in Int /\ s + ttl \in Nat
  <2>1. (s + ttl) * Tick = s * Tick + ttl * Tick /\ ttl * Tick \in Int /\ s + ttl \in Nat
    <3>1. s \in Int /\ ttl \in Int /\ s + ttl \in Nat
      BY <1>2, <1>3
    <3> QED
      BY <3>1, TicksAdd
  <2>2. ttl * Tick <= left[r] * Tick
    <3>1. ttl \in Int /\ left[r] \in Int /\ ttl <= left[r]
      BY <1>1, <1>3
    <3> QED
      BY <3>1, TicksGrow
  <2> QED
    BY <2>1, <2>2
<1>6. (s + ttl) * Tick \in Int /\ (s + ttl) * Tick <= now + left[r] * Tick
  BY <1>1, <1>2, <1>5
<1> USE DEF IInv, Sign, Answers, Set, world
<1>7. TypeOK'
  BY <1>4, <1>5 DEF TypeOK
<1>8. Dated' /\ LateEmpty'
  BY DEF Dated, LateEmpty, Holds, TypeOK
<1>9. Lives'
  BY <1>1 DEF Lives, Spare, TypeOK
<1>10. EndsInTime(r)'
  <2>1. /\ until'[r] = s + ttl /\ asked' = asked /\ snap' = snap /\ begun' = begun /\ now' = now
    BY <1>4 DEF TypeOK
  <2>2. (s + ttl) * Tick - snap[r].exp < now - begun[r] + Tick
    BY <1>1, <1>6 DEF Spare
  <2>3. asked[r] # NoLink => (s + ttl) * Tick - asked[r] * Tick < now - begun[r] + Tick
    BY <1>1, <1>6 DEF Spare
  <2> QED
    BY <2>1, <2>2, <2>3 DEF EndsInTime, Excess
<1>11. UrlEndsInTime'
  BY <1>10, <1>4 DEF UrlEndsInTime, EndsInTime, Excess, TypeOK
<1> QED
  BY <1>7, <1>8, <1>9, <1>11

\* A link ends no later than the row its maker has read says.
LEMMA MakeKeeps ==
    ASSUME IInv, NEW r \in Requests, NEW ttl \in LinkTtls, MakeLink(r, ttl)
    PROVE  IInv'
<1> DEFINE e == LinkEnd(r, ttl)
<1> USE DEF IInv, MakeLink, Goes, world
<1>1. /\ now \in Nat /\ ttl \in Nat /\ snap[r] # NoRow /\ snap[r].exp \in Nat
      /\ snap[r].exp = jobExp /\ job # "working"
  BY Ticks, DeliveryAssumption DEF Ready, Dated, TypeOK
<1>2. e \in Nat /\ e <= jobExp
  BY <1>1 DEF LinkEnd, Least
<1> HIDE DEF e
<1>3. Second(e) \in Nat /\ Second(e) * Tick \in Nat /\ Second(e) * Tick <= e
  BY <1>2, SecondBounds
<1>4. links' = links \cup {Second(e)}
  BY DEF e
<1>5. TypeOK'
  BY <1>3, <1>4 DEF TypeOK
<1>6. Dated'
  <2>1. Second(e) * Tick <= jobExp
    BY <1>1, <1>2, <1>3
  <2> QED
    BY <2>1, <1>1, <1>4 DEF Dated
<1>7. LateEmpty'
  BY DEF LateEmpty, Holds, TypeOK
<1>8. Lives' /\ UrlEndsInTime'
  BY DEF Lives, Spare, UrlEndsInTime, EndsInTime, Excess, TypeOK
<1> QED
  BY <1>5, <1>6, <1>7, <1>8

LEMMA Invariance == Spec => []IInv
<1>1. IInv /\ [Next]_vars => IInv'
  <2> SUFFICES ASSUME IInv, [Next]_vars PROVE IInv'
    OBVIOUS
  <2>1. CASE UNCHANGED vars
    BY <2>1 DEF vars, world, handler, IInv, TypeOK, Dated, LateEmpty, Holds, Lives, Spare,
       UrlEndsInTime, EndsInTime, Excess
  <2>2. ASSUME NEW r \in Requests, Handler(r) PROVE IInv'
    BY <2>2, GetKeeps, ReadKeeps, CheckRemoteKeeps, PlainKeeps, SignKeeps, MakeKeeps DEF Handler
  <2> QED
    BY <2>1, <2>2, WorldKeeps, ElapseKeeps DEF Next
<1> QED
  BY <1>1, InitIInv, PTL DEF Spec

-----------------------------------------------------------------------------
(***************************************************************************)
(* The theorems.                                                           *)
(***************************************************************************)
\* Every variable keeps its type.
THEOREM DeliveryTypeCorrect == Spec => []TypeOK
<1>1. IInv => TypeOK
  BY DEF IInv
<1> QED
  BY Invariance, <1>1, PTL

\* A link works until its end unless the job is purged or evicted: the sweep
\* cannot come first, because complete_job dates the row and the job alike.
THEOREM LinksKeepTheirWord == Spec => []LinkKeepsItsWord
<1>1. IInv => LinkKeepsItsWord
  <2> SUFFICES ASSUME IInv, kept, NEW link \in links, now < link * Tick
               PROVE  row # NoRow /\ row.exp > now
    BY DEF LinkKeepsItsWord
  <2>1. /\ now \in Nat /\ jobExp \in Nat /\ link \in Nat /\ link * Tick \in Int
        /\ link * Tick <= jobExp
    BY TicksAdd DEF IInv, TypeOK, Dated
  <2>2. now < jobExp
    BY <2>1
  <2>3. job = "completed"
    BY <2>1, <2>2 DEF IInv, TypeOK, Dated
  <2> QED
    BY <2>2, <2>3 DEF IInv, Dated
<1> QED
  BY Invariance, <1>1, PTL

\* What is revoked is not handed out to a request that comes in afterwards.
THEOREM RevocationHolds == Spec => []RevokedAtOnce
<1>1. IInv => RevokedAtOnce
  BY DEF IInv, LateEmpty, Holds, RevokedAtOnce
<1> QED
  BY Invariance, <1>1, PTL

\* A presigned URL outlives neither its link nor the artifact by more than the
\* time its handler took and a second.
THEOREM UrlsEndInTime == Spec => []UrlEndsInTime
<1>1. IInv => UrlEndsInTime
  BY DEF IInv
<1> QED
  BY Invariance, <1>1, PTL

===============================================================================
