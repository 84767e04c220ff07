---------------------------- MODULE WebClientProofs ----------------------------
(***************************************************************************)
(* Proofs about WebClient, for every number of jobs, of polling loops, of  *)
(* requests in flight and of clicks.                                       *)
(*                                                                         *)
(* Followed is not inductive: the late answer to a purge changes the       *)
(* status on the card without starting a loop, which is harmless only      *)
(* because it never says "active".  That in turn holds because whatever    *)
(* the page or an answer calls ended has ended on the server.  The         *)
(* invariant says so of every place a status is kept in, and the proof     *)
(* follows how a step treats the page, the loops and the requests.         *)
(***************************************************************************)
EXTENDS WebClient, TLAPS

PageInv ==
    /\ active \in Jobs \cup {NoJob} /\ shown \in Statuses
    /\ jobs \in [Jobs -> Statuses]
    /\ \A j \in Jobs : jobs[j] \in Ended => srv[j] \in Ended

PollInv ==
    /\ poll \in [Loops -> {"off", "sent", "answered", "refused", "sleep"}]
    /\ target \in [Loops -> Jobs \cup {NoJob}]
    /\ got \in [Loops -> Statuses]
    /\ current \in Loops \cup {NoLoop}
    /\ \A l \in Loops : poll[l] # "off" => target[l] \in Jobs
    /\ \A l \in Loops : poll[l] # "answered" => got[l] \notin Ended
    /\ \A l \in Loops : target[l] \in Jobs /\ got[l] \in Ended => srv[target[l]] \in Ended

\* What is known of one request, by its kind.
CallOK(c) ==
    /\ kind[c] \in {"cancel", "purge"} => about[c] \in Jobs
    /\ kind[c] = "start" /\ req[c] = "answered" => about[c] \in Jobs
    /\ kind[c] = "purge" => srv[about[c]] \in Ended
    /\ kind[c] = "purge" /\ req[c] = "answered" => snap[c][about[c]] \in Ended
    /\ \A j \in Jobs : snap[c][j] \in Ended => srv[j] \in Ended

CallInv ==
    /\ req \in [Calls -> {"free", "sent", "answered", "refused"}]
    /\ kind \in [Calls -> {"none", "start", "cancel", "purge", "list", "logout"}]
    /\ about \in [Calls -> Jobs \cup {NoJob}]
    /\ snap \in [Calls -> [Jobs -> Statuses]]
    /\ \A c \in Calls : CallOK(c)

RestInv ==
    /\ srv \in [Jobs -> Statuses]
    /\ cookie \in BOOLEAN /\ dialog \in BOOLEAN
    /\ clicks \in 0..MaxClicks

\* An empty card has no loop: a poll cannot fill it.
ShutIsIdle == active = NoJob => current = NoLoop

Inv == PageInv /\ PollInv /\ CallInv /\ RestInv /\ Followed /\ ShutIsIdle

\* What a step may do to the jobs table: no job that has ended comes back.
SrvMoves ==
    /\ srv' \in [Jobs -> Statuses]
    /\ \A j \in Jobs : srv[j] \in Ended => srv'[j] \in Ended

LEMMA InvImpliesTypeOK == Inv => TypeOK
BY DEF Inv, PageInv, PollInv, CallInv, RestInv, TypeOK

LEMMA InitInv == Init => Inv
<1> SUFFICES ASSUME Init PROVE Inv
  OBVIOUS
<1>1. PageInv
  BY DEF Init, PageInv, Blank, Statuses, Ended
<1>2. PollInv
  BY DEF Init, PollInv, Statuses, Ended
<1>3. CallInv
  BY DEF Init, CallInv, CallOK, Blank, Statuses, Ended
<1>4. RestInv
  <2>1. srv \in [Jobs -> Statuses]
    BY DEF Init, Statuses
  <2>2. clicks \in 0..MaxClicks
    BY ClientAssumption DEF Init
  <2>3. cookie \in BOOLEAN /\ dialog \in BOOLEAN
    BY DEF Init
  <2> QED
    BY <2>1, <2>2, <2>3 DEF RestInv
<1>5. Followed /\ ShutIsIdle
  BY DEF Init, Followed, ShutIsIdle
<1> QED
  BY <1>1, <1>2, <1>3, <1>4, <1>5 DEF Inv

-----------------------------------------------------------------------------
(* What a step does to the requests.                                       *)

LEMMA CallsRest ==
    ASSUME CallInv, SrvMoves, UNCHANGED calls
    PROVE  CallInv'
BY DEF CallInv, CallOK, SrvMoves, calls, Ended

LEMMA FreeCallIsFree ==
    ASSUME \E c \in Calls : req[c] = "free"
    PROVE  FreeCall \in Calls /\ req[FreeCall] = "free"
BY DEF FreeCall

LEMMA CallsAsk ==
    ASSUME CallInv, UNCHANGED srv,
           NEW k \in {"start", "cancel", "purge", "list", "logout"},
           NEW j \in Jobs \cup {NoJob},
           k \in {"cancel", "purge"} => j \in Jobs,
           k = "purge" => srv[j] \in Ended,
           Ask(k, j)
    PROVE  CallInv'
<1> DEFINE c == FreeCall
<1>1. c \in Calls
  BY FreeCallIsFree DEF Ask
<1> HIDE DEF c
<1>2. /\ req' = [req EXCEPT ![c] = IF k = "logout" THEN "sent" ELSE Sent]
      /\ kind' = [kind EXCEPT ![c] = k]
      /\ about' = [about EXCEPT ![c] = j]
      /\ snap' = [snap EXCEPT ![c] = Blank]
  BY DEF Ask, c
<1>3. Sent \in {"sent", "refused"} /\ Blank \in [Jobs -> Statuses]
  BY DEF Sent, Blank, Statuses
<1>4. /\ req' \in [Calls -> {"free", "sent", "answered", "refused"}]
      /\ kind' \in [Calls -> {"none", "start", "cancel", "purge", "list", "logout"}]
      /\ about' \in [Calls -> Jobs \cup {NoJob}]
      /\ snap' \in [Calls -> [Jobs -> Statuses]]
  BY <1>2, <1>3 DEF CallInv
<1>5. ASSUME NEW d \in Calls PROVE CallOK(d)'
  <2>1. CASE d = c
    <3>1. kind'[d] = k /\ about'[d] = j /\ snap'[d] = Blank /\ req'[d] \in {"sent", "refused"}
      BY <1>1, <1>2, <1>3, <2>1 DEF CallInv
    <3>2. \A i \in Jobs : Blank[i] \notin Ended
      BY DEF Blank, Ended
    <3> QED
      BY <3>1, <3>2 DEF CallOK
  <2>2. CASE d # c
    BY <1>2, <2>2 DEF CallInv, CallOK
  <2> QED
    BY <2>1, <2>2
<1> QED
  BY <1>4, <1>5 DEF CallInv

LEMMA CallsFree ==
    ASSUME CallInv, SrvMoves, NEW c \in Calls, Free(c)
    PROVE  CallInv'
<1>1. Blank \in [Jobs -> Statuses] /\ \A i \in Jobs : Blank[i] \notin Ended
  BY DEF Blank, Statuses, Ended
<1>2. /\ req' \in [Calls -> {"free", "sent", "answered", "refused"}]
      /\ kind' \in [Calls -> {"none", "start", "cancel", "purge", "list", "logout"}]
      /\ about' \in [Calls -> Jobs \cup {NoJob}]
      /\ snap' \in [Calls -> [Jobs -> Statuses]]
  BY <1>1 DEF CallInv, Free
<1>3. ASSUME NEW d \in Calls PROVE CallOK(d)'
  <2>1. CASE d = c
    <3>1. kind'[d] = "none" /\ snap'[d] = Blank
      BY <2>1 DEF CallInv, Free
    <3> QED
      BY <3>1, <1>1 DEF CallOK
  <2>2. CASE d # c
    BY <2>2 DEF CallInv, CallOK, Free, SrvMoves
  <2> QED
    BY <2>1, <2>2
<1> QED
  BY <1>2, <1>3 DEF CallInv

LEMMA CallsAnswer ==
    ASSUME CallInv, SrvMoves, NEW c \in Calls,
           NEW j \in Jobs \cup {NoJob}, NEW s \in [Jobs -> Statuses],
           kind[c] \in {"start", "cancel", "purge"} => j \in Jobs,
           kind[c] = "purge" => j = about[c] /\ s[j] \in Ended,
           \A i \in Jobs : s[i] \in Ended => srv'[i] \in Ended,
           Answer(c, j, s)
    PROVE  CallInv'
<1>1. /\ req' \in [Calls -> {"free", "sent", "answered", "refused"}]
      /\ kind' = kind
      /\ about' \in [Calls -> Jobs \cup {NoJob}]
      /\ snap' \in [Calls -> [Jobs -> Statuses]]
  BY DEF CallInv, Answer
<1>2. ASSUME NEW d \in Calls PROVE CallOK(d)'
  <2>1. CASE d = c
    <3>1. about'[d] = j /\ snap'[d] = s /\ kind'[d] = kind[c] /\ req'[d] = "answered"
      BY <2>1 DEF CallInv, Answer
    <3>2. kind[c] = "purge" => srv'[j] \in Ended
      OBVIOUS
    <3> QED
      BY <3>1, <3>2 DEF CallOK
  <2>2. CASE d # c
    BY <2>2 DEF CallInv, CallOK, Answer, SrvMoves
  <2> QED
    BY <2>1, <2>2
<1> QED
  BY <1>1, <1>2 DEF CallInv

-----------------------------------------------------------------------------
(* What a step does to the polling loops.                                  *)

LEMMA PollsRest ==
    ASSUME PollInv, SrvMoves, UNCHANGED <<pollers, current>>
    PROVE  PollInv'
BY DEF PollInv, SrvMoves, pollers, Ended

LEMMA PollsStop ==
    ASSUME PollInv, SrvMoves, UNCHANGED pollers, current' = NoLoop
    PROVE  PollInv'
BY DEF PollInv, SrvMoves, pollers, Ended

\* A loop that is started follows the job it is started for.
LEMMA PollsStart ==
    ASSUME PollInv, UNCHANGED srv, NEW j \in Jobs, PollJob(j)
    PROVE  /\ PollInv'
           /\ current' \in Loops /\ poll'[current'] # "off" /\ target'[current'] = j
<1> DEFINE l == FreeLoop
<1>1. l \in Loops /\ poll[l] = "off"
  BY DEF PollJob, FreeLoop
<1> HIDE DEF l
<1>2. /\ poll' = [poll EXCEPT ![l] = Sent] /\ target' = [target EXCEPT ![l] = j]
      /\ current' = l /\ got' = got
  BY DEF PollJob, l
<1>3. Sent \in {"sent", "refused"}
  BY DEF Sent
<1>4. /\ poll' \in [Loops -> {"off", "sent", "answered", "refused", "sleep"}]
      /\ target' \in [Loops -> Jobs \cup {NoJob}]
      /\ got' \in [Loops -> Statuses]
      /\ current' \in Loops /\ poll'[current'] # "off" /\ target'[current'] = j
  BY <1>1, <1>2, <1>3 DEF PollInv
<1> QED
  BY <1>1, <1>2, <1>3, <1>4 DEF PollInv
LEMMA PollsLoop ==
    ASSUME PollInv, UNCHANGED srv, NEW l \in Loops, poll[l] # "off",
           NEW p \in {"off", "sent", "refused", "sleep"}, Loop(l, p)
    PROVE  /\ PollInv'
           /\ current # l => current' = current
           /\ p # "off" => current' = current /\ target' = target
           /\ p = "off" /\ current = l => current' = NoLoop
           /\ poll'[l] = p
           /\ \A k \in Loops \ {l} : poll'[k] = poll[k] /\ target'[k] = target[k]
<1>1. /\ poll' = [poll EXCEPT ![l] = p]
      /\ target' = [target EXCEPT ![l] = IF p = "off" THEN NoJob ELSE @]
      /\ got' = [got EXCEPT ![l] = "absent"]
      /\ current' = IF p = "off" /\ current = l THEN NoLoop ELSE current
  BY DEF Loop
<1>2. p # "off" => target' = target
  BY <1>1 DEF PollInv
<1>3. /\ poll' \in [Loops -> {"off", "sent", "answered", "refused", "sleep"}]
      /\ target' \in [Loops -> Jobs \cup {NoJob}]
      /\ got' \in [Loops -> Statuses]
      /\ current' \in Loops \cup {NoLoop}
  BY <1>1 DEF PollInv, Statuses
<1>4. "absent" \notin Ended
  BY DEF Ended
<1>5. /\ \A k \in Loops : poll'[k] # "off" => target'[k] \in Jobs
      /\ \A k \in Loops : poll'[k] # "answered" => got'[k] \notin Ended
      /\ \A k \in Loops : target'[k] \in Jobs /\ got'[k] \in Ended => srv'[target'[k]] \in Ended
  BY <1>1, <1>2, <1>4 DEF PollInv
<1> QED
  BY <1>1, <1>2, <1>3, <1>5 DEF PollInv

LEMMA PollsServe ==
    ASSUME PollInv, RestInv, NEW l \in Loops, ServePoll(l)
    PROVE  /\ PollInv'
           /\ current' = current /\ target' = target
           /\ \A k \in Loops : poll[k] # "off" => poll'[k] # "off"
<1>1. /\ poll' = [poll EXCEPT ![l] = "answered"]
      /\ got' = [got EXCEPT ![l] = srv[target[l]]]
      /\ poll[l] = "sent" /\ target' = target /\ current' = current /\ srv' = srv
  BY DEF ServePoll
<1>2. target[l] \in Jobs /\ srv[target[l]] \in Statuses
  BY <1>1 DEF PollInv, RestInv
<1> QED
  BY <1>1, <1>2 DEF PollInv

-----------------------------------------------------------------------------
(* What a step does to the page.                                           *)

LEMMA PageRest ==
    ASSUME PageInv, SrvMoves, UNCHANGED page
    PROVE  PageInv'
BY DEF PageInv, SrvMoves, page, Ended

LEMMA PageUpsert ==
    ASSUME PageInv, UNCHANGED srv, NEW j \in Jobs, NEW s \in Statuses,
           s \in Ended => srv[j] \in Ended,
           Upsert(j, s), Show(j, s) \/ UNCHANGED <<active, shown>>
    PROVE  PageInv'
BY DEF PageInv, Upsert, Show

\* What keeps a card followed: its loop stays, or nothing unfinished is shown.
LEMMA CardRest ==
    ASSUME Followed, ShutIsIdle, UNCHANGED <<active, shown, pollers, current>>
    PROVE  Followed' /\ ShutIsIdle'
BY DEF Followed, ShutIsIdle, pollers
-----------------------------------------------------------------------------
(* One lemma per kind of step.                                             *)

\* The jobs table and what none of these steps changes but by its type.
LEMMA RestMoves ==
    ASSUME RestInv, SrvMoves, dialog' \in BOOLEAN, cookie' \in BOOLEAN,
           clicks' \in 0..MaxClicks
    PROVE  RestInv'
BY DEF RestInv, SrvMoves

LEMMA SrvStays ==
    ASSUME RestInv, UNCHANGED srv
    PROVE  SrvMoves
BY DEF RestInv, SrvMoves

LEMMA ServerStep ==
    ASSUME Inv, Server \/ SessionEnds
    PROVE  Inv'
<1> USE DEF Inv
<1>1. ASSUME NEW j \in Jobs, SrvEnds(j) \/ SrvExpires(j) PROVE Inv'
  <2>1. SrvMoves
    BY <1>1 DEF SrvEnds, SrvExpires, SrvMoves, RestInv, Statuses, Ended
  <2>2. UNCHANGED <<page, pollers, current, calls, session, clicks>>
    BY <1>1 DEF SrvEnds, SrvExpires
  <2>3. PageInv' /\ PollInv' /\ CallInv'
    BY <2>1, <2>2, PageRest, PollsRest, CallsRest
  <2>4. RestInv'
    BY <2>1, <2>2, RestMoves DEF session, RestInv
  <2>5. Followed' /\ ShutIsIdle'
    BY <2>2, CardRest DEF page
  <2> QED
    BY <2>3, <2>4, <2>5
<1>2. ASSUME NEW c \in Calls, NEW j \in Jobs, ServeStart(c, j) PROVE Inv'
  <2>1. SrvMoves /\ kind[c] = "start" /\ Answer(c, j, Only(j, "active"))
    BY <1>2 DEF ServeStart, SrvMoves, RestInv, Statuses, Ended
  <2>2. UNCHANGED <<page, pollers, current, session, clicks>>
    BY <1>2 DEF ServeStart
  <2>3. Only(j, "active") \in [Jobs -> Statuses] /\ \A i \in Jobs : Only(j, "active")[i] \notin Ended
    BY DEF Only, Blank, Statuses, Ended
  <2>4. CallInv'
    BY <2>1, <2>3, CallsAnswer
  <2>5. PageInv' /\ PollInv'
    BY <2>1, <2>2, PageRest, PollsRest
  <2>6. RestInv'
    BY <2>1, <2>2, RestMoves DEF session, RestInv
  <2>7. Followed' /\ ShutIsIdle'
    BY <2>2, CardRest DEF page
  <2> QED
    BY <2>4, <2>5, <2>6, <2>7
<1>3. ASSUME NEW c \in Calls, ServeDelete(c) PROVE Inv'
  <2> DEFINE j == about[c]
  <2>1. PICK s \in Statuses :
          /\ \/ s = srv[j]
             \/ srv[j] = "active" /\ s = "done"
             \/ srv[j] = "done" /\ s = "expired"
          /\ srv' = [srv EXCEPT ![j] = s]
          /\ Answer(c, j, Only(j, s))
    BY <1>3 DEF ServeDelete
  <2>2. j \in Jobs /\ (kind[c] = "purge" => srv[j] \in Ended)
    BY <1>3 DEF ServeDelete, CallInv, CallOK
  <2>3. SrvMoves /\ srv'[j] = s /\ (srv[j] \in Ended => s \in Ended)
    BY <2>1, <2>2 DEF SrvMoves, RestInv, Ended
  <2>4. /\ Only(j, s) \in [Jobs -> Statuses] /\ Only(j, s)[j] = s
        /\ \A i \in Jobs : Only(j, s)[i] \in Ended => i = j
    BY <2>2 DEF Only, Blank, Statuses, Ended
  <2>5. CallInv'
    BY <2>1, <2>2, <2>3, <2>4, CallsAnswer
  <2>6. UNCHANGED <<page, pollers, current, session, clicks>>
    BY <1>3 DEF ServeDelete
  <2>7. PageInv' /\ PollInv'
    BY <2>3, <2>6, PageRest, PollsRest
  <2>8. RestInv'
    BY <2>3, <2>6, RestMoves DEF session, RestInv
  <2>9. Followed' /\ ShutIsIdle'
    BY <2>6, CardRest DEF page
  <2> QED
    BY <2>5, <2>7, <2>8, <2>9
<1>4. ASSUME NEW c \in Calls, ServeList(c) \/ ServeLogout(c) PROVE Inv'
  <2>1. UNCHANGED <<srv, page, pollers, current, session, clicks>> /\ kind[c] \in {"list", "logout"}
    BY <1>4 DEF ServeList, ServeLogout
  <2>2. SrvMoves
    BY <2>1, SrvStays
  <2>3. Blank \in [Jobs -> Statuses] /\ \A i \in Jobs : Blank[i] \notin Ended
    BY DEF Blank, Statuses, Ended
  <2>4. CallInv'
    <3>1. CASE ServeList(c)
      BY <3>1, <2>1, <2>2, CallsAnswer DEF ServeList, RestInv
    <3>2. CASE ServeLogout(c)
      BY <3>2, <2>1, <2>2, <2>3, CallsAnswer DEF ServeLogout
    <3> QED
      BY <1>4, <3>1, <3>2
  <2>5. PageInv' /\ PollInv' /\ Followed' /\ ShutIsIdle'
    BY <2>1, <2>2, PageRest, PollsRest, CardRest DEF page
  <2>6. RestInv'
    BY <2>1, <2>2, RestMoves DEF session, RestInv
  <2> QED
    BY <2>4, <2>5, <2>6
<1>5. ASSUME NEW l \in Loops, ServePoll(l) PROVE Inv'
  <2>1. UNCHANGED <<srv, page, target, current, calls, session, clicks>>
    BY <1>5 DEF ServePoll
  <2>2. SrvMoves
    BY <2>1, SrvStays
  <2>3. /\ PollInv' /\ current' = current /\ target' = target
        /\ \A k \in Loops : poll[k] # "off" => poll'[k] # "off"
    BY <1>5, PollsServe
  <2>4. PageInv' /\ CallInv'
    BY <2>1, <2>2, PageRest, CallsRest
  <2>5. RestInv'
    BY <2>1, <2>2, RestMoves DEF session, RestInv
  <2>6. Followed' /\ ShutIsIdle'
    BY <2>1, <2>3 DEF Followed, ShutIsIdle, page, PollInv
  <2> QED
    BY <2>3, <2>4, <2>5, <2>6
<1>6. ASSUME SessionEnds PROVE Inv'
  <2>1. UNCHANGED <<srv, page, pollers, current, calls, dialog, clicks>> /\ cookie' = FALSE
    BY <1>6 DEF SessionEnds
  <2>2. SrvMoves
    BY <2>1, SrvStays
  <2>3. PageInv' /\ PollInv' /\ CallInv' /\ Followed' /\ ShutIsIdle'
    BY <2>1, <2>2, PageRest, PollsRest, CallsRest, CardRest DEF page
  <2>4. RestInv'
    BY <2>1, <2>2, RestMoves DEF RestInv
  <2> QED
    BY <2>3, <2>4
<1> QED
  BY <1>1, <1>2, <1>3, <1>4, <1>5, <1>6 DEF Server
\* Showing an unfinished job with a loop of its own.
LEMMA CardStarts ==
    ASSUME NEW j \in Jobs, NEW s \in Statuses, Show(j, s),
           current' \in Loops, poll'[current'] # "off", target'[current'] = j
    PROVE  Followed' /\ ShutIsIdle'
BY ClientAssumption DEF Followed, ShutIsIdle, Show

LEMMA CallStep ==
    ASSUME Inv, NEW c \in Calls, CallReturns(c)
    PROVE  Inv'
<1> USE DEF Inv
<1> DEFINE j == about[c]
           s == snap[c][about[c]]
<1>1. UNCHANGED <<srv, clicks>> /\ Free(c)
  BY DEF CallReturns, StartAnswered, CancelAnswered, PurgeAnswered, ListAnswered,
         LogoutAnswered, CallFails, CallRefused
<1>2. SrvMoves /\ CallInv'
  BY <1>1, SrvStays, CallsFree
<1>3. CASE StartAnswered(c) \/ CancelAnswered(c)
  <2>1. Show(j, s) /\ Upsert(j, s) /\ UNCHANGED session
    BY <1>3 DEF StartAnswered, CancelAnswered
  <2>2. j \in Jobs
    BY <1>3 DEF StartAnswered, CancelAnswered, CallInv, CallOK
  <2>3. s \in Statuses /\ (s \in Ended => srv[j] \in Ended)
    BY <2>2 DEF CallInv, CallOK
  <2>4. PageInv'
    BY <1>1, <2>1, <2>2, <2>3, PageUpsert
  <2>5. RestInv'
    BY <1>1, <1>2, <2>1, RestMoves DEF session, RestInv
  <2>6. CASE PollJob(j)
    BY <1>1, <1>2, <2>1, <2>2, <2>3, <2>4, <2>5, <2>6, PollsStart, CardStarts
  <2>7. CASE KeepPolling /\ s # "active"
    <3>1. PollInv'
      BY <1>2, <2>7, PollsRest DEF KeepPolling
    <3>2. Followed' /\ ShutIsIdle'
      BY <2>1, <2>2, <2>7, ClientAssumption DEF Show, Followed, ShutIsIdle
    <3> QED
      BY <1>2, <2>4, <2>5, <3>1, <3>2
  <2> QED
    BY <1>3, <2>6, <2>7 DEF StartAnswered, CancelAnswered
<1>4. CASE PurgeAnswered(c)
  <2>1. /\ Upsert(j, s) /\ KeepPolling /\ UNCHANGED session
        /\ (active = j /\ Show(j, s)) \/ UNCHANGED <<active, shown>>
    BY <1>4 DEF PurgeAnswered
  <2>2. j \in Jobs /\ s \in Statuses /\ s \in Ended /\ srv[j] \in Ended
    BY <1>4 DEF PurgeAnswered, CallInv, CallOK
  <2>3. PageInv'
    BY <1>1, <2>1, <2>2, PageUpsert
  <2>4. PollInv'
    BY <1>2, <2>1, PollsRest DEF KeepPolling
  <2>5. RestInv'
    BY <1>1, <1>2, <2>1, RestMoves DEF session, RestInv
  <2>6. Followed' /\ ShutIsIdle'
    <3>1. CASE active = j /\ Show(j, s)
      BY <3>1, <2>2, ClientAssumption DEF Show, Followed, ShutIsIdle, Ended
    <3>2. CASE UNCHANGED <<active, shown>>
      BY <3>2, <2>1, CardRest DEF KeepPolling
    <3> QED
      BY <2>1, <3>1, <3>2
  <2> QED
    BY <1>2, <2>3, <2>4, <2>5, <2>6
<1>5. CASE ListAnswered(c)
  <2>1. /\ jobs' = snap[c] /\ UNCHANGED session
        /\ \/ \E i \in Jobs : Show(i, "active") /\ PollJob(i)
           \/ KeepPolling /\ UNCHANGED <<active, shown>>
    BY <1>5 DEF ListAnswered
  <2>2. /\ jobs' \in [Jobs -> Statuses]
        /\ \A i \in Jobs : jobs'[i] \in Ended => srv[i] \in Ended
    BY <2>1 DEF CallInv, CallOK
  <2>3. RestInv'
    BY <1>1, <1>2, <2>1, RestMoves DEF session, RestInv
  <2>4. CASE \E i \in Jobs : Show(i, "active") /\ PollJob(i)
    <3>1. PICK i \in Jobs : Show(i, "active") /\ PollJob(i)
      BY <2>4
    <3>2. "active" \in Statuses
      BY DEF Statuses
    <3>3. PageInv'
      BY <1>1, <2>2, <3>1, <3>2 DEF PageInv, Show
    <3>4. PollInv' /\ Followed' /\ ShutIsIdle'
      BY <1>1, <3>1, <3>2, PollsStart, CardStarts
    <3> QED
      BY <1>2, <2>3, <3>3, <3>4
  <2>5. CASE KeepPolling /\ UNCHANGED <<active, shown>>
    <3>1. PageInv'
      BY <1>1, <2>2, <2>5 DEF PageInv
    <3>2. PollInv' /\ Followed' /\ ShutIsIdle'
      BY <1>2, <2>5, PollsRest, CardRest DEF KeepPolling
    <3> QED
      BY <1>2, <2>3, <3>1, <3>2
  <2> QED
    BY <2>1, <2>4, <2>5
<1>6. CASE LogoutAnswered(c)
  <2>1. /\ jobs' = Blank /\ active' = NoJob /\ shown' = "absent" /\ current' = NoLoop
        /\ cookie' = FALSE /\ dialog' = TRUE /\ UNCHANGED pollers
    BY <1>6 DEF LogoutAnswered, Show
  <2>2. PageInv'
    BY <2>1 DEF PageInv, Blank, Statuses, Ended
  <2>3. PollInv'
    BY <1>2, <2>1, PollsStop
  <2>4. RestInv'
    BY <1>1, <1>2, <2>1, RestMoves DEF RestInv
  <2>5. Followed' /\ ShutIsIdle'
    BY <2>1 DEF Followed, ShutIsIdle
  <2> QED
    BY <1>2, <2>2, <2>3, <2>4, <2>5
<1>7. CASE CallFails(c) \/ CallRefused(c)
  <2>1. UNCHANGED <<page, pollers, current, cookie>> /\ (dialog' = TRUE \/ dialog' = dialog)
    BY <1>7 DEF CallFails, CallRefused, session
  <2>2. PageInv' /\ PollInv' /\ Followed' /\ ShutIsIdle'
    BY <1>2, <2>1, PageRest, PollsRest, CardRest DEF page
  <2>3. RestInv'
    BY <1>1, <1>2, <2>1, RestMoves DEF RestInv
  <2> QED
    BY <1>2, <2>2, <2>3
<1> QED
  BY <1>3, <1>4, <1>5, <1>6, <1>7 DEF CallReturns

LEMMA PollStep ==
    ASSUME Inv, NEW l \in Loops, PollMoves(l)
    PROVE  Inv'
<1> USE DEF Inv
<1>1. /\ UNCHANGED <<srv, calls, cookie, clicks>> /\ (dialog' = TRUE \/ dialog' = dialog)
      /\ poll[l] # "off"
  BY DEF PollMoves, PollAnswered, PollFails, PollRefused, Wake, session
<1>2. SrvMoves /\ CallInv' /\ RestInv'
  <2>1. SrvMoves
    BY <1>1, SrvStays
  <2> QED
    BY <1>1, <2>1, CallsRest, RestMoves DEF RestInv
<1>3. ASSUME NEW p \in {"off", "sent", "refused", "sleep"}, Loop(l, p), UNCHANGED page,
             p = "off" => current # l \/ active # target[l]
      PROVE  Inv'
  <2>1. /\ PollInv'
        /\ current # l => current' = current
        /\ p # "off" => current' = current /\ target' = target
        /\ p = "off" /\ current = l => current' = NoLoop
        /\ poll'[l] = p
        /\ \A k \in Loops \ {l} : poll'[k] = poll[k] /\ target'[k] = target[k]
    BY <1>1, <1>3, PollsLoop
  <2>2. PageInv'
    BY <1>2, <1>3, PageRest
  <2>3. Followed' /\ ShutIsIdle'
    BY <1>3, <2>1, ClientAssumption DEF Followed, ShutIsIdle, page, PollInv
  <2> QED
    BY <1>2, <2>1, <2>2, <2>3
<1>4. CASE PollAnswered(l)
  <2>1. CASE current # l
    BY <1>3, <1>4, <2>1 DEF PollAnswered
  <2>2. CASE current = l
    <3> DEFINE p == IF got[l] \in Ended THEN "off" ELSE "sleep"
    <3>1. Show(target[l], got[l]) /\ Upsert(target[l], got[l]) /\ Loop(l, p)
      BY <1>4, <2>2 DEF PollAnswered
    <3>2. /\ target[l] \in Jobs /\ got[l] \in Statuses
          /\ got[l] \in Ended => srv[target[l]] \in Ended
      BY <1>1 DEF PollInv
    <3>3. PageInv'
      BY <1>1, <3>1, <3>2, PageUpsert
    <3>4. /\ PollInv' /\ poll'[l] = p
          /\ p # "off" => current' = current /\ target' = target
          /\ p = "off" => current' = NoLoop
      BY <1>1, <2>2, <3>1, PollsLoop
    <3>5. Followed' /\ ShutIsIdle'
      BY <2>2, <3>1, <3>2, <3>4, ClientAssumption DEF Show, Followed, ShutIsIdle, Ended
    <3> QED
      BY <1>2, <3>3, <3>4, <3>5
  <2> QED
    BY <2>1, <2>2
<1>5. CASE PollFails(l) \/ PollRefused(l)
  <2> DEFINE p == IF current = l THEN "sleep" ELSE "off"
  <2>1. Loop(l, p) /\ UNCHANGED page
    BY <1>5 DEF PollFails, PollRefused
  <2>2. p \in {"off", "sent", "refused", "sleep"} /\ (p = "off" => current # l)
    OBVIOUS
  <2> HIDE DEF p
  <2> QED
    BY <1>3, <2>1, <2>2
<1>6. CASE Wake(l)
  <2> DEFINE p == IF current = l /\ active = target[l] THEN Sent ELSE "off"
  <2>1. Loop(l, p) /\ UNCHANGED page
    BY <1>6 DEF Wake
  <2>2. p \in {"off", "sent", "refused", "sleep"} /\ (p = "off" => current # l \/ active # target[l])
    BY DEF Sent
  <2> HIDE DEF p
  <2> QED
    BY <1>3, <2>1, <2>2
<1> QED
  BY <1>4, <1>5, <1>6 DEF PollMoves
LEMMA UserStep ==
    ASSUME Inv, User
    PROVE  Inv'
<1> USE DEF Inv
<1>1. UNCHANGED srv /\ clicks' \in 0..MaxClicks
  BY ClientAssumption DEF User, Start, Cancel, Dismiss, LoadJobs, Logout, Login, View, Purge,
                          Click, RestInv
<1>2. SrvMoves
  BY <1>1, SrvStays
<1>3. ASSUME UNCHANGED <<page, pollers, current, session>>, CallInv' PROVE Inv'
  <2>1. PageInv' /\ PollInv' /\ Followed' /\ ShutIsIdle'
    BY <1>2, <1>3, PageRest, PollsRest, CardRest DEF page
  <2>2. RestInv'
    BY <1>1, <1>2, <1>3, RestMoves DEF session, RestInv
  <2> QED
    BY <1>3, <2>1, <2>2
<1>4. CASE Start \/ LoadJobs \/ Logout
  <2>1. /\ UNCHANGED <<page, pollers, current, session>>
        /\ \E k \in {"start", "list", "logout"} : Ask(k, NoJob)
    BY <1>4 DEF Start, LoadJobs, Logout, Click
  <2>2. CallInv'
    BY <1>1, <2>1, CallsAsk
  <2> QED
    BY <1>3, <2>1, <2>2
<1>5. CASE Cancel
  <2>1. /\ UNCHANGED <<page, pollers, current, session>>
        /\ active \in Jobs /\ Ask("cancel", active)
    BY <1>5 DEF Cancel, Click, PageInv
  <2>2. CallInv'
    BY <1>1, <2>1, CallsAsk
  <2> QED
    BY <1>3, <2>1, <2>2
<1>6. ASSUME NEW j \in Jobs, Purge(j) PROVE Inv'
  <2>1. /\ UNCHANGED <<page, pollers, current, session>>
        /\ Ask("purge", j) /\ jobs[j] = "done"
    BY <1>6 DEF Purge, Click
  <2>2. srv[j] \in Ended
    BY <2>1 DEF PageInv, Ended
  <2>3. CallInv'
    BY <1>1, <2>1, <2>2, CallsAsk
  <2> QED
    BY <1>3, <2>1, <2>3
<1>7. ASSUME NEW j \in Jobs, View(j) PROVE Inv'
  <2>1. /\ Show(j, jobs[j]) /\ PollJob(j) /\ UNCHANGED <<jobs, calls, session>>
        /\ jobs[j] \in Statuses
    BY <1>7 DEF View, Click, PageInv
  <2>2. PageInv'
    BY <1>1, <2>1 DEF PageInv, Show
  <2>3. PollInv' /\ Followed' /\ ShutIsIdle'
    BY <1>1, <2>1, PollsStart, CardStarts
  <2>4. CallInv' /\ RestInv'
    BY <1>1, <1>2, <2>1, CallsRest, RestMoves DEF session, RestInv
  <2> QED
    BY <2>2, <2>3, <2>4
<1>8. CASE Dismiss
  <2>1. /\ active' = NoJob /\ shown' = "absent" /\ current' = NoLoop
        /\ UNCHANGED <<jobs, pollers, calls, session>>
    BY <1>8 DEF Dismiss, Click, Show
  <2>2. PageInv'
    BY <1>1, <2>1 DEF PageInv, Statuses
  <2>3. PollInv' /\ Followed' /\ ShutIsIdle'
    BY <1>2, <2>1, PollsStop DEF Followed, ShutIsIdle
  <2>4. CallInv' /\ RestInv'
    BY <1>1, <1>2, <2>1, CallsRest, RestMoves DEF session, RestInv
  <2> QED
    BY <2>2, <2>3, <2>4
<1>9. CASE Login
  <2> DEFINE c == FreeCall
  <2>1. /\ c \in Calls /\ req[c] = "free"
        /\ req' = [req EXCEPT ![c] = "sent"] /\ kind' = [kind EXCEPT ![c] = "list"]
        /\ UNCHANGED <<page, pollers, current, about, snap>>
        /\ dialog' = FALSE /\ cookie' = TRUE
    BY <1>9, FreeCallIsFree DEF Login
  <2> HIDE DEF c
  <2>2. CallInv'
    BY <1>1, <2>1 DEF CallInv, CallOK
  <2>3. PageInv' /\ PollInv' /\ Followed' /\ ShutIsIdle'
    BY <1>2, <2>1, PageRest, PollsRest, CardRest DEF page
  <2>4. RestInv'
    BY <1>1, <1>2, <2>1, RestMoves
  <2> QED
    BY <2>2, <2>3, <2>4
<1> QED
  BY <1>4, <1>5, <1>6, <1>7, <1>8, <1>9 DEF User

LEMMA InvNext == Inv /\ [Next]_vars => Inv'
<1> SUFFICES ASSUME Inv, [Next]_vars PROVE Inv'
  OBVIOUS
<1>1. CASE Next
  BY <1>1, ServerStep, UserStep, CallStep, PollStep DEF Next
<1>2. CASE UNCHANGED vars
  <2>1. UNCHANGED <<srv, page, pollers, current, calls, session, clicks>>
    BY <1>2 DEF vars
  <2>2. SrvMoves
    BY <2>1, SrvStays DEF Inv
  <2>3. PageInv' /\ PollInv' /\ CallInv' /\ Followed' /\ ShutIsIdle'
    BY <2>1, <2>2, PageRest, PollsRest, CallsRest, CardRest DEF page, Inv
  <2>4. RestInv'
    BY <2>1, <2>2, RestMoves DEF session, RestInv, Inv
  <2> QED
    BY <2>3, <2>4 DEF Inv
<1> QED
  BY <1>1, <1>2

LEMMA InvAlways == Spec => []Inv
BY InitInv, InvNext, PTL DEF Spec

\* Type correctness of the page, the loops and the requests.
THEOREM ClientTypeCorrect == Spec => []TypeOK
BY InvAlways, InvImpliesTypeOK, PTL

\* A card that shows an unfinished job is being polled, whichever of any
\* number of requests is answered late or never: pollJob, cancelActiveJob,
\* purgeJob and loadJobs leave no card behind without its loop.
THEOREM CardIsFollowed == Spec => []Followed
<1>1. Inv => Followed
  BY DEF Inv
<1> QED
  BY <1>1, InvAlways, PTL

-----------------------------------------------------------------------------
LEMMA OnlyAskedOpens ==
    ASSUME Inv, [Next]_vars, active = NoJob, active' # NoJob
    PROVE  \/ clicks' = clicks + 1
           \/ \E c \in Calls :
                req[c] = "answered" /\ req'[c] = "free" /\ kind[c] \in {"start", "cancel", "list"}
<1>1. ~UNCHANGED active
  OBVIOUS
<1>2. Next
  BY <1>1 DEF vars, page
<1>3. CASE Server \/ SessionEnds
  BY <1>1, <1>3 DEF Server, SessionEnds, SrvEnds, SrvExpires, ServeStart, ServeDelete,
                    ServeList, ServeLogout, ServePoll, page
<1>4. CASE User
  BY <1>1, <1>4 DEF User, Start, Cancel, Dismiss, LoadJobs, Logout, Login, View, Purge, Click
<1>5. ASSUME NEW c \in Calls, CallReturns(c)
      PROVE  req[c] = "answered" /\ req'[c] = "free" /\ kind[c] \in {"start", "cancel", "list"}
  <2>1. StartAnswered(c) \/ CancelAnswered(c) \/ ListAnswered(c)
    <3>1. ~CallFails(c) /\ ~CallRefused(c)
      BY <1>1 DEF CallFails, CallRefused, page
    <3>2. ~LogoutAnswered(c)
      BY <1>1 DEF LogoutAnswered, Show
    <3>3. ~PurgeAnswered(c)
      <4> SUFFICES ASSUME PurgeAnswered(c) PROVE FALSE
        OBVIOUS
      <4>1. about[c] \in Jobs
        BY DEF PurgeAnswered, Inv, CallInv, CallOK
      <4> QED
        BY <1>1, <4>1, ClientAssumption DEF PurgeAnswered
    <3> QED
      BY <1>5, <3>1, <3>2, <3>3 DEF CallReturns
  <2> QED
    BY <2>1 DEF StartAnswered, CancelAnswered, ListAnswered, Free, Inv, CallInv
<1>6. ASSUME NEW l \in Loops, PollMoves(l) PROVE FALSE
  <2>1. current # l
    BY ClientAssumption DEF Inv, ShutIsIdle
  <2> QED
    BY <1>1, <1>6, <2>1 DEF PollMoves, PollAnswered, PollFails, PollRefused, Wake, page
<1> QED
  BY <1>2, <1>3, <1>4, <1>5, <1>6 DEF Next

\* A card that was dismissed or cleared is never brought back by a poll that
\* was under way, for every number of loops whose answers are outstanding.
THEOREM ShutStaysShut == Spec => DismissedStaysShut
<1>1. Inv /\ [Next]_vars =>
        [active = NoJob /\ active' # NoJob =>
           \/ clicks' = clicks + 1
           \/ \E c \in Calls :
                req[c] = "answered" /\ req'[c] = "free" /\ kind[c] \in {"start", "cancel", "list"}]_vars
  BY OnlyAskedOpens
<1> QED
  BY <1>1, InvAlways, PTL DEF Spec, DismissedStaysShut
===============================================================================
