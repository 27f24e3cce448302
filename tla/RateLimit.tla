------------------------------- MODULE RateLimit -------------------------------
(***************************************************************************)
(* check_rate_limit in one API process, for one key: calls of the route    *)
(* handlers' thread pool over one entry of _rate_buckets.  There is no     *)
(* lock; a thread gives up the interpreter when a call it made returns or  *)
(* a loop jumps back, so a test and the popleft it guards are one step,    *)
(* while len() and append() are two.  Every process has a table of its     *)
(* own, so the bounds below are per process.                               *)
(***************************************************************************)
EXTENDS Integers, Sequences, FiniteSets, SequencesExt

CONSTANTS
  Calls,    \* calls of check_rate_limit, and the deques they may create
  NoBucket, \* no deque
  Limit,    \* limit
  Window,   \* RATE_WINDOW_S
  MaxClock  \* bound: the last second looked at

ASSUME ConstantsAssumption ==
  /\ IsFiniteSet(Calls) /\ NoBucket \notin Calls
  /\ Limit \in Nat \ {0} /\ Window \in Nat \ {0} /\ MaxClock \in Nat

VARIABLES
  clock,     \* the time
  attached,  \* the deque of the key in _rate_buckets, or NoBucket
  deque,     \* what each deque holds; an entry c stands for the time call c read
  call,      \* each call: where it is, the time it read, the deque it holds
  together,  \* history: the most calls ever under way at once,
  evicted    \*   and whether a key was ever deleted

vars == <<clock, attached, deque, call, together, evicted>>

\* "refused" got HTTP 429, "failed" HTTP 500.
UnderWay == {"timed", "pruning", "passed", "appended"}
CallStates == UnderWay \cup {"idle", "admitted", "refused", "failed"}

At(pcs) == {c \in Calls : call[c].pc \in pcs}
Entries(b) == ToSet(deque[b])

Larger(a, b) == IF a > b THEN a ELSE b

-----------------------------------------------------------------------------
(* Mutants: plausible mistakes the properties below must catch.            *)

\* Entries are never dropped.
ExpiredNever(d, c) == FALSE

\* An entry is dropped in its last second.
ExpiredAtBoundary(d, c) == call[d].now <= call[c].now - Window

\* What the code does: bucket[0] < now - RATE_WINDOW_S.
Expired(d, c) == call[d].now < call[c].now - Window

\* One request too many.
CountOffByOne(c) ==
  /\ call[c].pc = "pruning"
  /\ ~ (deque[call[c].bucket] # <<>> /\ Expired(Head(deque[call[c].bucket]), c))
  /\ call' = [call EXCEPT ![c].pc =
                IF Len(deque[call[c].bucket]) > Limit THEN "refused" ELSE "passed"]
  /\ UNCHANGED <<clock, attached, deque, together, evicted>>

\* A key without a deque gets none.
LookupGet(c) ==
  /\ call[c].pc = "timed"
  /\ call' = [call EXCEPT ![c].pc = "pruning", ![c].bucket = attached]
  /\ UNCHANGED <<clock, attached, deque, together, evicted>>
-----------------------------------------------------------------------------
Init ==
  /\ clock = 0
  /\ attached = NoBucket
  /\ deque = [b \in Calls |-> <<>>]
  /\ call = [c \in Calls |-> [pc |-> "idle", now |-> 0, bucket |-> NoBucket]]
  /\ together = 0
  /\ evicted = FALSE

Tick ==
  /\ clock < MaxClock
  /\ clock' = clock + 1
  /\ UNCHANGED <<attached, deque, call, together, evicted>>

\* now = time.time()
ReadTime(c) ==
  /\ call[c].pc = "idle"
  /\ call' = [call EXCEPT ![c].pc = "timed", ![c].now = clock]
  /\ together' = Larger(together, Cardinality(At(UnderWay)) + 1)
  /\ UNCHANGED <<clock, attached, deque, evicted>>

\* bucket = _rate_buckets[key], which makes a deque for a key without one.
Lookup(c) ==
  LET found == IF attached = NoBucket THEN c ELSE attached
  IN /\ call[c].pc = "timed"
     /\ attached' = found
     /\ call' = [call EXCEPT ![c].pc = "pruning", ![c].bucket = found]
     /\ UNCHANGED <<clock, deque, together, evicted>>

\* One round of the loop that drops what left the window.
PopExpired(c) ==
  LET b == call[c].bucket
  IN /\ call[c].pc = "pruning"
     /\ deque[b] # <<>> /\ Expired(Head(deque[b]), c)
     /\ deque' = [deque EXCEPT ![b] = Tail(deque[b])]
     /\ UNCHANGED <<clock, attached, call, together, evicted>>

\* The loop ends and the length is compared with the limit.
Count(c) ==
  LET b == call[c].bucket
  IN /\ call[c].pc = "pruning"
     /\ ~ (deque[b] # <<>> /\ Expired(Head(deque[b]), c))
     /\ call' = [call EXCEPT ![c].pc =
                   IF Len(deque[b]) >= Limit THEN "refused" ELSE "passed"]
     /\ UNCHANGED <<clock, attached, deque, together, evicted>>

AppendTime(c) ==
  LET b == call[c].bucket
  IN /\ call[c].pc = "passed"
     /\ deque' = [deque EXCEPT ![b] = Append(deque[b], c)]
     /\ call' = [call EXCEPT ![c].pc = "appended"]
     /\ UNCHANGED <<clock, attached, together, evicted>>

\* if not bucket: del _rate_buckets[key].  The deque held c's own entry a step
\* ago, so it is empty only if another call has dropped that entry since.
KeepKey(c) ==
  /\ call[c].pc = "appended"
  /\ deque[call[c].bucket] # <<>>
  /\ call' = [call EXCEPT ![c].pc = "admitted"]
  /\ UNCHANGED <<clock, attached, deque, together, evicted>>

\* It deletes whatever deque the key has by now; KeyError if it has none.
EvictKey(c) ==
  /\ call[c].pc = "appended"
  /\ deque[call[c].bucket] = <<>>
  /\ attached' = NoBucket
  /\ call' = [call EXCEPT ![c].pc =
                IF attached = NoBucket THEN "failed" ELSE "admitted"]
  /\ evicted' = TRUE
  /\ UNCHANGED <<clock, deque, together>>

Step(c) ==
  \/ ReadTime(c) \/ Lookup(c) \/ PopExpired(c) \/ Count(c)
  \/ AppendTime(c) \/ KeepKey(c) \/ EvictKey(c)

Next == Tick \/ \E c \in Calls : Step(c)

Spec == Init /\ [][Next]_vars

\* A call under way is a running thread, and time goes on; nobody has to call.
Fairness ==
  /\ \A c \in Calls : WF_vars(call[c].pc # "idle" /\ Step(c))
  /\ WF_vars(Tick)
FairSpec == Spec /\ Fairness

-----------------------------------------------------------------------------
TypeOK ==
  /\ clock \in 0..MaxClock
  /\ attached \in Calls \cup {NoBucket}
  /\ deque \in [Calls -> Seq(Calls)]
  /\ call \in [Calls -> [pc : CallStates, now : 0..MaxClock,
                         bucket : Calls \cup {NoBucket}]]
  /\ together \in Nat
  /\ evicted \in BOOLEAN
  /\ \A c \in At({"pruning", "passed", "appended"}) : call[c].bucket # NoBucket

Admitted == At({"appended", "admitted", "failed"})
LiveAt(t) == {c \in Admitted : call[c].now \in (t - Window)..t}

\* A request that was let through counts against the next ones until it leaves
\* the window, in whatever order calls read the clock, drop and append; only
\* the deletion of a key loses it.
AdmittedIsCounted ==
  ~evicted => \A c \in LiveAt(clock) : attached # NoBucket /\ c \in Entries(attached)

\* At any moment at most Limit requests of the window have been let through,
\* and one more for each further call that was under way at the same time.
OvershootIsOnePerCall ==
  ~evicted => Cardinality(LiveAt(clock)) <= Limit - 1 + Larger(together, 1)

\* While calls do not overlap, a refused one found Limit requests in its window.
RefusedOnlyAtLimit ==
  together = 1 => \A c \in At({"refused"}) : Cardinality(LiveAt(call[c].now)) >= Limit

\* "keys are removed once their deque empties after the window": once all that
\* was let through has left the window, the key goes, unless a call brings a new
\* entry.  The code does not do this: the only test for an empty deque follows
\* the append of the call that makes it.
EmptyKeysAreEvicted ==
  attached # NoBucket /\ LiveAt(clock) = {}
    ~> attached = NoBucket \/ LiveAt(clock) # {}

-----------------------------------------------------------------------------
(* The inductive invariants behind these properties.                       *)

\* Nobody has read a time that is still to come.
NotAhead == \A c \in Calls : call[c].now <= clock

\* The calls under way are at most as many as they ever were.
Overlap == Cardinality(At(UnderWay)) <= together

\* Past the lookup.
Holding == CallStates \ {"idle", "timed"}

\* Until the key is deleted there is one deque, and all calls hold it.
OneDeque ==
  ~evicted =>
    /\ \A c \in At(Holding) : attached # NoBucket /\ call[c].bucket = attached
    /\ \A b \in Calls \ {attached} : deque[b] = <<>>

\* The entries, and the calls about to append one, are as many as the limit
\* and the overlap allow.
Room ==
  ~evicted /\ attached # NoBucket =>
    Len(deque[attached]) + Cardinality(At({"passed"})) <= Limit - 1 + together

\* A call that is alone finds its own entry again.
AloneKeepsKey ==
  together <= 1 =>
    /\ ~evicted
    /\ \A c \in At({"appended"}) : c \in Entries(call[c].bucket)

\* The entries of a deque are calls let through, each once, in the order of the
\* times they read, none later than a call under way: so it is while calls do
\* not overlap.
Ordered ==
  \A b \in Calls : \A i \in DOMAIN deque[b] :
    /\ deque[b][i] \in Admitted
    /\ \A c \in At(UnderWay) : call[deque[b][i]].now <= call[c].now
    /\ \A j \in DOMAIN deque[b] : i < j =>
         deque[b][i] # deque[b][j] /\ call[deque[b][i]].now <= call[deque[b][j]].now
AloneInOrder == together <= 1 => Ordered
=============================================================================
