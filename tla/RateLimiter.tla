------------------------------ MODULE RateLimiter ------------------------------
(***************************************************************************)
(* SlidingWindowRateLimiter.check for one key and bucket: every request to *)
(* /api/ passes it, POST /jobs, /analyses and /session a second one.  All  *)
(* callers run on the event loop, so a check is one step, and monotonic    *)
(* time never runs backwards between two of them.                          *)
(*                                                                         *)
(* The clock counts ticks, several to a second, because the code compares  *)
(* exact times but announces whole seconds.  Buckets of other keys are     *)
(* independent copies; that the table of keys is never emptied is not      *)
(* modelled.                                                               *)
(***************************************************************************)
EXTENDS Naturals, Sequences, FiniteSets

CONSTANTS
    Limit,     \* hits allowed in a window
    Seconds,   \* length of the window
    Tick,      \* ticks of the clock in a second
    Horizon    \* bound: the last tick that is looked at

ASSUME LimiterAssumption ==
    /\ Limit \in Nat \ {0} /\ Seconds \in Nat \ {0} /\ Tick \in Nat \ {0}
    /\ Horizon \in Nat

VARIABLES
    now,     \* time.monotonic()
    log,     \* times of the accepted hits; the deque is its end,
    head,    \* from this position on
    hint     \* the last refusal: its time, how many hits had been accepted,
             \* and when its retry_after is over

vars == <<now, log, head, hint>>

Window == Seconds * Tick
NoHint == [at |-> 0, after |-> 0, due |-> 0]
Deque  == head .. Len(log)

TypeOK ==
    /\ now \in Nat
    /\ log \in Seq(Nat)
    /\ head \in 1 .. Len(log) + 1
    /\ hint \in [at : Nat, after : Nat, due : Nat]

Init == now = 0 /\ log = <<>> /\ head = 1 /\ hint = NoHint

\* Mutant: a hit is kept for one more instant, at the edge of the window.
CutLate(h) ==
    /\ h \in head .. Len(log) + 1
    /\ \A i \in head .. h - 1 : log[i] + Window < now
    /\ h \in Deque => log[h] + Window >= now

\* h is the head after the loop that drops what has left the window.
Cut(h) ==
    /\ h \in head .. Len(log) + 1
    /\ \A i \in head .. h - 1 : log[i] + Window <= now
    /\ h \in Deque => log[h] + Window > now

\* Mutant: the comparison with the limit is off by one.
RoomForOneMore(h) == Len(log) + 1 - h <= Limit

\* A deque that begins at h has a place left.
Room(h) == Len(log) + 1 - h < Limit

\* Mutant: the remaining time is rounded down.
RetryRoundedDown(left) == IF left \div Tick > 1 THEN left \div Tick ELSE 1

\* retry_after of a hit that is refused: whole seconds, at least one.
RetryAfter(left) == IF left \div Tick + 1 > 1 THEN left \div Tick + 1 ELSE 1

Accept ==
    /\ \E h \in 1 .. Len(log) + 1 : Cut(h) /\ Room(h) /\ head' = h
    /\ log' = Append(log, now)
    /\ UNCHANGED <<now, hint>>

Refuse ==
    /\ \E h \in DOMAIN log :
         /\ Cut(h) /\ ~Room(h) /\ head' = h
         /\ hint' = [at |-> now, after |-> Len(log),
                     due |-> now + RetryAfter(Window - (now - log[h])) * Tick]
    /\ UNCHANGED <<now, log>>

Elapse == now < Horizon /\ now' = now + 1 /\ UNCHANGED <<log, head, hint>>

Next == Accept \/ Refuse \/ Elapse

Spec == Init /\ [][Next]_vars

-----------------------------------------------------------------------------
\* No window of `Seconds` seconds, wherever it begins, holds more than Limit
\* accepted hits: any Limit + 1 hits in a row take at least that long.
WindowRespected ==
    \A i \in DOMAIN log :
        i + Limit \in DOMAIN log => log[i] + Window <= log[i + Limit]

\* A client that was refused and waits for retry_after finds a place, to the
\* very tick, unless another client behind the same key has taken it.
RetryIsEnough ==
    hint.after > 0 /\ hint.due <= now /\ Len(log) = hint.after
      => \A h \in 1 .. Len(log) + 1 : Cut(h) => Room(h)

\* A hit is refused only while Limit accepted hits lie in the window that ends
\* now; refused hits and hits at its edge do not count.
Recent == {i \in DOMAIN log : log[i] + Window > now}
NoNeedlessRefusal ==
    [][hint' # hint => Cardinality(Recent) >= Limit]_vars
===============================================================================
