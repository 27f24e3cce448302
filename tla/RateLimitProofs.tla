--------------------------- MODULE RateLimitProofs ---------------------------
(***************************************************************************)
(* Theorems about RateLimit, for any calls, limit, window and clock.       *)
(***************************************************************************)
EXTENDS RateLimit, FiniteSetTheorems, TLAPS

CallRec == [pc : CallStates, now : 0..MaxClock, bucket : Calls \cup {NoBucket}]

\* What a step of c does to its own record, and leaves of the others.
Becomes(c, l, t, b) ==
  /\ call' \in [Calls -> CallRec]
  /\ call'[c].pc = l /\ call'[c].now = t /\ call'[c].bucket = b
  /\ \A d \in Calls \ {c} : call'[d] = call[d]

LEMMA RecordUpdates ==
  ASSUME NEW x \in CallRec, NEW l \in CallStates, NEW t \in 0..MaxClock,
         NEW b \in Calls \cup {NoBucket}
  PROVE  /\ [x EXCEPT !.pc = l] \in CallRec
         /\ [x EXCEPT !.pc = l, !.now = t] \in CallRec
         /\ [x EXCEPT !.pc = l, !.bucket = b] \in CallRec
  BY DEF CallRec

LEMMA Moves ==
  ASSUME TypeOK, NEW c \in Calls, NEW l \in CallStates,
         call' = [call EXCEPT ![c].pc = l]
  PROVE  Becomes(c, l, call[c].now, call[c].bucket)
<1>1. call \in [Calls -> CallRec]
  BY DEF TypeOK, CallRec
<1>2. [call[c] EXCEPT !.pc = l] \in CallRec
  BY <1>1, RecordUpdates DEF CallRec
<1>3. call' \in [Calls -> CallRec]
  BY <1>1, <1>2
<1> QED
  BY <1>1, <1>3 DEF Becomes, CallRec

\* The numbers and sets the steps compute with.
LEMMA Types ==
  ASSUME TypeOK
  PROVE  /\ clock \in Nat /\ together \in Nat /\ MaxClock \in Nat
         /\ call \in [Calls -> CallRec]
         /\ \A c \in Calls : call[c].now \in Nat /\ call[c].pc \in CallStates
         /\ \A c \in At({"pruning", "passed", "appended"}) : call[c].bucket \in Calls
         /\ \A b \in Calls : deque[b] \in Seq(Calls) /\ Len(deque[b]) \in Nat
<1>1. clock \in Nat /\ together \in Nat /\ MaxClock \in Nat
  BY ConstantsAssumption DEF TypeOK
<1>2. call \in [Calls -> CallRec]
  BY DEF TypeOK, CallRec
<1>3. \A c \in Calls : call[c].now \in Nat /\ call[c].pc \in CallStates
  BY <1>1, <1>2 DEF CallRec
<1>4. \A c \in At({"pruning", "passed", "appended"}) : call[c].bucket \in Calls
  BY <1>2 DEF TypeOK, CallRec, At
<1>5. \A b \in Calls : deque[b] \in Seq(Calls) /\ Len(deque[b]) \in Nat
  BY DEF TypeOK
<1> QED
  BY <1>1, <1>2, <1>3, <1>4, <1>5

\* Any set of calls is finite.
LEMMA Countable ==
  ASSUME NEW pcs
  PROVE  IsFiniteSet(At(pcs)) /\ Cardinality(At(pcs)) \in Nat
  BY ConstantsAssumption, FS_Subset, FS_CardinalityType DEF At

-----------------------------------------------------------------------------
LEMMA InitType == Init => TypeOK
<1> SUFFICES ASSUME Init PROVE TypeOK
  OBVIOUS
<1>1. [pc |-> "idle", now |-> 0, bucket |-> NoBucket] \in CallRec
  BY ConstantsAssumption DEF CallRec, CallStates, UnderWay
<1>2. call \in [Calls -> CallRec]
  BY <1>1 DEF Init
<1>3. deque \in [Calls -> Seq(Calls)]
  BY DEF Init
<1>4. At({"pruning", "passed", "appended"}) = {}
  BY DEF Init, At
<1>5. /\ clock \in 0..MaxClock /\ attached \in Calls \cup {NoBucket}
      /\ together \in Nat
  BY ConstantsAssumption DEF Init
<1>6. evicted \in BOOLEAN
  BY DEF Init
<1> QED
  BY <1>2, <1>3, <1>4, <1>5, <1>6, Zenon DEF TypeOK, CallRec

\* The three steps that do something other than move a call.
LEMMA ReadTimeMoves ==
  ASSUME TypeOK, NEW c \in Calls, ReadTime(c)
  PROVE  Becomes(c, "timed", clock, call[c].bucket)
<1>1. call \in [Calls -> CallRec] /\ clock \in 0..MaxClock
  BY DEF TypeOK, CallRec
<1>2. "timed" \in CallStates
  BY DEF CallStates, UnderWay
<1>3. [call[c] EXCEPT !.pc = "timed", !.now = clock] \in CallRec
  BY <1>1, <1>2, RecordUpdates DEF CallRec
<1>4. call' = [call EXCEPT ![c] = [call[c] EXCEPT !.pc = "timed", !.now = clock]]
  BY <1>1 DEF ReadTime
<1>5. call' \in [Calls -> CallRec]
  BY <1>1, <1>3, <1>4
<1> QED
  BY <1>1, <1>4, <1>5 DEF Becomes, CallRec

LEMMA LookupMoves ==
  ASSUME TypeOK, NEW c \in Calls, Lookup(c)
  PROVE  /\ attached' = IF attached = NoBucket THEN c ELSE attached
         /\ attached' \in Calls
         /\ Becomes(c, "pruning", call[c].now, attached')
<1>1. call \in [Calls -> CallRec]
  BY DEF TypeOK, CallRec
<1>2. attached' = (IF attached = NoBucket THEN c ELSE attached)
  BY DEF Lookup
<1>3. attached' \in Calls
  BY <1>2 DEF TypeOK
<1>4. "pruning" \in CallStates
  BY DEF CallStates, UnderWay
<1>5. [call[c] EXCEPT !.pc = "pruning", !.bucket = attached'] \in CallRec
  BY <1>1, <1>3, <1>4, RecordUpdates DEF CallRec
<1>6. call' = [call EXCEPT ![c] = [call[c] EXCEPT !.pc = "pruning", !.bucket = attached']]
  BY <1>1, <1>2 DEF Lookup
<1>7. call' \in [Calls -> CallRec]
  BY <1>1, <1>5, <1>6
<1> QED
  BY <1>1, <1>2, <1>3, <1>6, <1>7 DEF Becomes, CallRec

\* Count sends a call on or away, by the length of its deque.
LEMMA CountMoves ==
  ASSUME TypeOK, NEW c \in Calls, Count(c)
  PROVE  \/ /\ Len(deque[call[c].bucket]) < Limit
            /\ Becomes(c, "passed", call[c].now, call[c].bucket)
         \/ /\ Len(deque[call[c].bucket]) >= Limit
            /\ Becomes(c, "refused", call[c].now, call[c].bucket)
<1>1. "passed" \in CallStates /\ "refused" \in CallStates
  BY DEF CallStates, UnderWay
<1>2. call[c].bucket \in Calls
  BY Types DEF Count, At
<1>3. Len(deque[call[c].bucket]) \in Nat /\ Limit \in Nat
  BY <1>2, Types, ConstantsAssumption
<1>4. CASE Len(deque[call[c].bucket]) >= Limit
  <2>1. call' = [call EXCEPT ![c].pc = "refused"]
    BY <1>4 DEF Count
  <2> QED
    BY <2>1, <1>1, <1>4, Moves
<1>5. CASE Len(deque[call[c].bucket]) < Limit
  <2>1. ~(Len(deque[call[c].bucket]) >= Limit)
    BY <1>3, <1>5
  <2>2. call' = [call EXCEPT ![c].pc = "passed"]
    BY <2>1 DEF Count
  <2> QED
    BY <2>2, <1>1, <1>5, Moves
<1> QED
  BY <1>3, <1>4, <1>5

LEMMA AppendMoves ==
  ASSUME TypeOK, NEW c \in Calls, AppendTime(c)
  PROVE  Becomes(c, "appended", call[c].now, call[c].bucket)
<1>1. "appended" \in CallStates
  BY DEF CallStates, UnderWay
<1> QED
  BY <1>1, Moves DEF AppendTime

LEMMA EndMoves ==
  ASSUME TypeOK, NEW c \in Calls, KeepKey(c) \/ EvictKey(c)
  PROVE  \E l \in {"admitted", "failed"} :
           /\ Becomes(c, l, call[c].now, call[c].bucket)
           /\ KeepKey(c) => l = "admitted"
<1>1. "admitted" \in CallStates /\ "failed" \in CallStates
  BY DEF CallStates
<1>2. CASE KeepKey(c)
  BY <1>1, <1>2, Moves DEF KeepKey
<1>3. CASE EvictKey(c) /\ ~KeepKey(c)
  <2>1. CASE attached = NoBucket
    BY <2>1, <1>1, <1>3, Moves DEF EvictKey
  <2>2. CASE attached # NoBucket
    BY <2>2, <1>1, <1>3, Moves DEF EvictKey
  <2> QED
    BY <2>1, <2>2
<1> QED
  BY <1>2, <1>3

-----------------------------------------------------------------------------
Before == {"pruning", "passed", "appended"}

\* The last part of TypeOK, after a step that changes one call.
LEMMA BucketsKept ==
  ASSUME TypeOK, NEW c \in Calls, NEW l \in CallStates, NEW t \in 0..MaxClock,
         NEW b \in Calls \cup {NoBucket}, Becomes(c, l, t, b),
         l \in Before => b # NoBucket
  PROVE  /\ call' \in [Calls -> [pc : CallStates, now : 0..MaxClock,
                                 bucket : Calls \cup {NoBucket}]]
         /\ \A d \in At(Before)' : call'[d].bucket # NoBucket
<1>1. call' \in [Calls -> CallRec]
  BY DEF Becomes
<1>2. ASSUME NEW d \in At(Before)' PROVE call'[d].bucket # NoBucket
  <2>1. CASE d = c
    BY <2>1 DEF At, Becomes
  <2>2. CASE d # c
    BY <2>2 DEF At, Becomes, TypeOK, Before
  <2> QED
    BY <2>1, <2>2
<1> QED
  BY <1>1, <1>2 DEF CallRec

LEMMA TypeStep ==
  ASSUME TypeOK, [Next]_vars
  PROVE  TypeOK'
<1> USE DEF Before
<1>1. CASE UNCHANGED vars
  BY <1>1 DEF vars, TypeOK, At
<1>2. CASE Tick
  <2>1. clock' \in 0..MaxClock
    BY <1>2, Types DEF Tick, TypeOK
  <2> QED
    BY <1>2, <2>1 DEF Tick, TypeOK, At
<1>3. ASSUME NEW c \in Calls, Step(c) PROVE TypeOK'
  <2> DEFINE kept == /\ call' \in [Calls -> [pc : CallStates, now : 0..MaxClock,
                                         bucket : Calls \cup {NoBucket}]]
                     /\ \A d \in At(Before)' : call'[d].bucket # NoBucket
  <2>0. call[c].now \in 0..MaxClock /\ call[c].bucket \in Calls \cup {NoBucket}
    BY DEF TypeOK
  <2>00. /\ Before \subseteq CallStates
         /\ {"timed", "refused", "admitted", "failed"} \subseteq CallStates
    BY DEF CallStates, UnderWay
  <2>1. CASE ReadTime(c)
    <3>1. kept
      BY <2>1, <2>0, <2>00, ReadTimeMoves, BucketsKept DEF TypeOK
    <3>2. together' \in Nat
      BY <2>1, Countable, Types DEF ReadTime, Larger
    <3>3. UNCHANGED <<clock, attached, deque, evicted>>
      BY <2>1 DEF ReadTime
    <3> QED
      BY <3>1, <3>2, <3>3 DEF TypeOK
  <2>2. CASE Lookup(c)
    <3>1. kept /\ attached' \in Calls
      BY <2>2, <2>0, <2>00, LookupMoves, BucketsKept, ConstantsAssumption
    <3>2. UNCHANGED <<clock, deque, together, evicted>>
      BY <2>2 DEF Lookup
    <3> QED
      BY <3>1, <3>2 DEF TypeOK
  <2>3. CASE PopExpired(c)
    <3>1. call[c].bucket \in Calls /\ deque[call[c].bucket] \in Seq(Calls)
      BY <2>3, Types DEF PopExpired, At
    <3>2. Tail(deque[call[c].bucket]) \in Seq(Calls)
      BY <2>3, <3>1 DEF PopExpired
    <3>3. deque' \in [Calls -> Seq(Calls)]
      BY <2>3, <3>2 DEF PopExpired, TypeOK
    <3>4. UNCHANGED <<clock, attached, call, together, evicted>>
      BY <2>3 DEF PopExpired
    <3> QED
      BY <3>3, <3>4 DEF TypeOK, At
  <2>4. CASE Count(c)
    <3>0. call[c].bucket # NoBucket
      BY <2>4 DEF Count, TypeOK, At
    <3>1. \E l \in {"passed", "refused"} : Becomes(c, l, call[c].now, call[c].bucket)
      BY <2>4, CountMoves
    <3>2. kept
      BY <3>0, <3>1, <2>0, <2>00, BucketsKept
    <3>3. UNCHANGED <<clock, attached, deque, together, evicted>>
      BY <2>4 DEF Count
    <3> QED
      BY <3>2, <3>3 DEF TypeOK
  <2>5. CASE AppendTime(c)
    <3>0. call[c].bucket # NoBucket /\ call[c].bucket \in Calls
      BY <2>5, Types, ConstantsAssumption DEF AppendTime, At
    <3>1. kept
      BY <2>5, <3>0, <2>0, <2>00, AppendMoves, BucketsKept
    <3>2. deque' \in [Calls -> Seq(Calls)]
      <4>1. Append(deque[call[c].bucket], c) \in Seq(Calls)
        BY <3>0, Types
      <4> QED
        BY <2>5, <4>1 DEF AppendTime, TypeOK
    <3>3. UNCHANGED <<clock, attached, together, evicted>>
      BY <2>5 DEF AppendTime
    <3> QED
      BY <3>1, <3>2, <3>3 DEF TypeOK
  <2>6. CASE KeepKey(c) \/ EvictKey(c)
    <3>1. \E l \in {"admitted", "failed"} : Becomes(c, l, call[c].now, call[c].bucket)
      BY <2>6, EndMoves
    <3>2. kept
      BY <3>1, <2>0, <2>00, BucketsKept
    <3>3. /\ UNCHANGED <<clock, deque, together>>
          /\ attached' \in {attached, NoBucket} /\ evicted' \in {evicted, TRUE}
      BY <2>6 DEF KeepKey, EvictKey
    <3>4. attached' \in Calls \cup {NoBucket} /\ evicted' \in BOOLEAN
      BY <3>3 DEF TypeOK
    <3> QED
      BY <3>2, <3>3, <3>4 DEF TypeOK
  <2> QED
    BY <1>3, <2>1, <2>2, <2>3, <2>4, <2>5, <2>6 DEF Step
<1> QED
  BY <1>1, <1>2, <1>3 DEF Next

\* Type correctness, for any calls, limit, window and clock.
THEOREM TypeCorrect == Spec => []TypeOK
<1>1. Init => TypeOK
  BY InitType
<1>2. TypeOK /\ [Next]_vars => TypeOK'
  BY TypeStep
<1> QED
  BY <1>1, <1>2, PTL DEF Spec

-----------------------------------------------------------------------------
(* One fact per invariant: a step keeps it, given those before it.         *)

LEMMA NotAheadStep ==
  ASSUME TypeOK, NotAhead, [Next]_vars
  PROVE  NotAhead'
<1>1. CASE UNCHANGED vars
  BY <1>1 DEF vars, NotAhead
<1>2. CASE Tick
  BY <1>2, Types DEF Tick, NotAhead
<1>3. ASSUME NEW c \in Calls, Step(c) PROVE NotAhead'
  <2>1. CASE ReadTime(c)
    <3>1. clock' = clock
      BY <2>1 DEF ReadTime
    <3> QED
      BY <2>1, <3>1, ReadTimeMoves, Types DEF NotAhead, Becomes
  <2>2. CASE ~ReadTime(c)
    <3>1. clock' = clock
      BY <1>3, <2>2 DEF Step, Lookup, PopExpired, Count, AppendTime, KeepKey, EvictKey
    <3>2. CASE PopExpired(c)
      BY <3>1, <3>2 DEF PopExpired, NotAhead
    <3>3. CASE ~PopExpired(c)
      <4>1. \E l \in CallStates, b \in Calls \cup {NoBucket} :
              Becomes(c, l, call[c].now, b)
        <5>1. /\ {"pruning", "passed", "refused", "appended", "admitted", "failed"}
                    \subseteq CallStates
              /\ call[c].bucket \in Calls \cup {NoBucket}
          BY DEF CallStates, UnderWay, TypeOK
        <5> QED
          BY <1>3, <2>2, <3>3, <5>1, LookupMoves, CountMoves, AppendMoves, EndMoves DEF Step
      <4> QED
        BY <3>1, <4>1 DEF NotAhead, Becomes
    <3> QED
      BY <3>2, <3>3
  <2> QED
    BY <2>1, <2>2
<1> QED
  BY <1>1, <1>2, <1>3 DEF Next

\* Where a step leaves the calls under way.
LEMMA OverlapStep ==
  ASSUME TypeOK, Overlap, [Next]_vars
  PROVE  Overlap'
<1>0. /\ IsFiniteSet(At(UnderWay)) /\ Cardinality(At(UnderWay)) \in Nat
      /\ IsFiniteSet(At(UnderWay)') /\ Cardinality(At(UnderWay)') \in Nat
  <2>1. At(UnderWay)' \subseteq Calls
    BY DEF At
  <2> QED
    BY <2>1, Countable, ConstantsAssumption, FS_Subset, FS_CardinalityType
<1>1. CASE UNCHANGED <<call, together>>
  BY <1>1 DEF Overlap, At
<1>2. ASSUME NEW c \in Calls, ReadTime(c) PROVE Overlap'
  <2>1. At(UnderWay)' \subseteq At(UnderWay) \cup {c}
    BY <1>2, ReadTimeMoves DEF At, Becomes
  <2>2. Cardinality(At(UnderWay)') <= Cardinality(At(UnderWay)) + 1
    <3>1. /\ IsFiniteSet(At(UnderWay) \cup {c})
          /\ Cardinality(At(UnderWay) \cup {c}) <= Cardinality(At(UnderWay)) + 1
      BY <1>0, FS_AddElement
    <3>2. Cardinality(At(UnderWay)') <= Cardinality(At(UnderWay) \cup {c})
      BY <2>1, <3>1, FS_Subset
    <3>3. Cardinality(At(UnderWay) \cup {c}) \in Nat
      BY <3>1, FS_CardinalityType
    <3> QED
      BY <1>0, <3>1, <3>2, <3>3
  <2>3. together' >= Cardinality(At(UnderWay)) + 1
    BY <1>0, <1>2, Types DEF ReadTime, Larger
  <2>4. together' \in Nat
    BY <1>0, <1>2, Types DEF ReadTime, Larger
  <2> QED
    BY <1>0, <2>2, <2>3, <2>4 DEF Overlap
<1>3. ASSUME NEW c \in Calls, Step(c), ~ReadTime(c), ~PopExpired(c) PROVE Overlap'
  <2>1. call[c].pc \in UnderWay
    BY <1>3 DEF Step, Lookup, Count, AppendTime, KeepKey, EvictKey, UnderWay
  <2>2. \E l \in CallStates : \E t, b : Becomes(c, l, t, b)
    BY <1>3, LookupMoves, CountMoves, AppendMoves, EndMoves DEF Step, CallStates, UnderWay
  <2>3. At(UnderWay)' \subseteq At(UnderWay)
    BY <2>1, <2>2 DEF At, Becomes
  <2>4. Cardinality(At(UnderWay)') <= Cardinality(At(UnderWay))
    BY <2>3, <1>0, FS_Subset
  <2>5. together' = together
    BY <1>3 DEF Step, Lookup, Count, AppendTime, KeepKey, EvictKey
  <2> QED
    BY <1>0, <2>4, <2>5, Types DEF Overlap
<1>4. ASSUME NEW c \in Calls, PopExpired(c) PROVE UNCHANGED <<call, together>>
  BY <1>4 DEF PopExpired
<1>5. ASSUME Tick \/ UNCHANGED vars PROVE UNCHANGED <<call, together>>
  BY <1>5 DEF Tick, vars
<1> QED
  BY <1>1, <1>2, <1>3, <1>4, <1>5 DEF Next, Step

LEMMA OneDequeStep ==
  ASSUME TypeOK, OneDeque, [Next]_vars
  PROVE  OneDeque'
<1>0. /\ "passed" \in Holding /\ "refused" \in Holding /\ "appended" \in Holding
      /\ "admitted" \in Holding /\ "pruning" \in Holding /\ "timed" \notin Holding
      /\ "failed" \in Holding
  BY DEF Holding, CallStates, UnderWay
<1>1. CASE UNCHANGED <<call, attached, deque, evicted>>
  BY <1>1 DEF OneDeque, At
<1>2. ASSUME NEW c \in Calls, Step(c), ~evicted' PROVE OneDeque'
  <2>0. ~evicted
    BY <1>2 DEF Step, ReadTime, Lookup, PopExpired, Count, AppendTime, KeepKey, EvictKey
  <2>1. CASE ReadTime(c)
    <3>1. UNCHANGED <<attached, deque>>
      BY <2>1 DEF ReadTime
    <3> QED
      BY <1>0, <2>0, <2>1, <3>1, ReadTimeMoves DEF OneDeque, At, Becomes
  <2>2. CASE Lookup(c)
    <3>1. /\ \A d \in At(Holding) : attached # NoBucket /\ call[d].bucket = attached
          /\ \A b \in Calls \ {attached} : deque[b] = <<>>
      BY <2>0 DEF OneDeque
    <3>2. deque' = deque
      BY <2>2 DEF Lookup
    <3>3. \A b \in Calls \ {attached'} : deque'[b] = <<>>
      BY <2>2, <3>1, <3>2, LookupMoves, ConstantsAssumption
    <3>4. \A d \in At(Holding)' : attached' # NoBucket /\ call'[d].bucket = attached'
      <4>1. /\ attached' = (IF attached = NoBucket THEN c ELSE attached)
            /\ attached' # NoBucket /\ call'[c].bucket = attached'
            /\ \A d \in Calls \ {c} : call'[d] = call[d]
        BY <2>2, LookupMoves, ConstantsAssumption DEF Becomes
      <4>2. \A d \in At(Holding)' \ {c} : d \in At(Holding)
        BY <4>1 DEF At
      <4> QED
        BY <3>1, <4>1, <4>2 DEF At
    <3> QED
      BY <3>3, <3>4 DEF OneDeque
  <2>3. CASE PopExpired(c)
    <3>1. call[c].bucket = attached
      BY <1>0, <2>0, <2>3 DEF PopExpired, OneDeque, At
    <3>2. \A b \in Calls \ {attached} : deque'[b] = deque[b]
      BY <2>3, <3>1 DEF PopExpired, TypeOK
    <3>3. UNCHANGED <<call, attached>>
      BY <2>3 DEF PopExpired
    <3> QED
      BY <2>0, <3>2, <3>3 DEF OneDeque, At
  <2>4. CASE Count(c)
    <3>1. UNCHANGED <<attached, deque>> /\ call[c].pc \in Holding
      BY <1>0, <2>4 DEF Count
    <3>2. \E l : Becomes(c, l, call[c].now, call[c].bucket)
      BY <2>4, CountMoves
    <3> QED
      BY <2>0, <3>1, <3>2 DEF OneDeque, At, Becomes
  <2>5. CASE AppendTime(c)
    <3>0. call[c].pc \in Holding
      BY <1>0, <2>5 DEF AppendTime
    <3>1. call[c].bucket = attached
      BY <2>0, <3>0 DEF OneDeque, At
    <3>2. \A b \in Calls \ {attached} : deque'[b] = deque[b]
      BY <2>5, <3>1 DEF AppendTime, TypeOK
    <3>3. attached' = attached
      BY <2>5 DEF AppendTime
    <3> QED
      BY <2>0, <2>5, <3>0, <3>2, <3>3, AppendMoves DEF OneDeque, At, Becomes
  <2>6. CASE KeepKey(c)
    <3>1. UNCHANGED <<attached, deque>> /\ call[c].pc \in Holding
      BY <1>0, <2>6 DEF KeepKey
    <3>2. \E l : Becomes(c, l, call[c].now, call[c].bucket)
      BY <2>6, EndMoves
    <3> QED
      BY <2>0, <3>1, <3>2 DEF OneDeque, At, Becomes
  <2>7. CASE EvictKey(c)
    BY <1>2, <2>7 DEF EvictKey
  <2> QED
    BY <1>2, <2>1, <2>2, <2>3, <2>4, <2>5, <2>6, <2>7 DEF Step
<1>3. ASSUME Tick \/ UNCHANGED vars PROVE UNCHANGED <<call, attached, deque, evicted>>
  BY <1>3 DEF Tick, vars
<1>4. CASE evicted'
  BY <1>4 DEF OneDeque
<1> QED
  BY <1>1, <1>2, <1>3, <1>4 DEF Next

-----------------------------------------------------------------------------
(* What the deque holds.                                                   *)

\* The entries of a deque shrink and grow as its ends do.
LEMMA Ends ==
  ASSUME NEW s \in Seq(Calls)
  PROVE  /\ \A c \in Calls : ToSet(Append(s, c)) = ToSet(s) \cup {c}
         /\ s # <<>> => /\ ToSet(s) \subseteq ToSet(Tail(s)) \cup {Head(s)}
                       /\ ToSet(Tail(s)) \subseteq ToSet(s)
                       /\ Len(Tail(s)) = Len(s) - 1
<1>1. ASSUME NEW c \in Calls PROVE ToSet(Append(s, c)) = ToSet(s) \cup {c}
  <2>1. /\ Len(Append(s, c)) = Len(s) + 1
        /\ \A i \in 1..Len(s) : Append(s, c)[i] = s[i]
        /\ Append(s, c)[Len(s) + 1] = c
    OBVIOUS
  <2>2. ToSet(Append(s, c)) \subseteq ToSet(s) \cup {c}
    BY <2>1 DEF ToSet
  <2>3. ToSet(s) \cup {c} \subseteq ToSet(Append(s, c))
    BY <2>1 DEF ToSet
  <2> QED
    BY <2>2, <2>3
<1>2. ASSUME s # <<>>
      PROVE  /\ ToSet(s) \subseteq ToSet(Tail(s)) \cup {Head(s)}
             /\ ToSet(Tail(s)) \subseteq ToSet(s)
             /\ Len(Tail(s)) = Len(s) - 1
  <2>1. /\ Len(Tail(s)) = Len(s) - 1 /\ Len(s) \in Nat \ {0}
        /\ \A i \in 1..(Len(s) - 1) : Tail(s)[i] = s[i + 1]
        /\ Head(s) = s[1]
    BY <1>2
  <2>2. ASSUME NEW i \in 1..Len(s) PROVE s[i] \in ToSet(Tail(s)) \cup {Head(s)}
    <3>1. CASE i = 1
      BY <2>1, <3>1
    <3>2. CASE i # 1
      <4>1. i - 1 \in 1..Len(Tail(s)) /\ Tail(s)[i - 1] = s[i]
        BY <2>1, <3>2
      <4>2. Tail(s) \in Seq(Calls)
        BY <1>2
      <4>3. DOMAIN Tail(s) = 1..Len(Tail(s))
        BY <4>2
      <4> QED
        BY <4>1, <4>3, Zenon DEF ToSet
    <3> QED
      BY <3>1, <3>2
  <2>3. ASSUME NEW i \in 1..Len(Tail(s)) PROVE Tail(s)[i] \in ToSet(s)
    <3>1. i + 1 \in 1..Len(s) /\ Tail(s)[i] = s[i + 1]
      BY <2>1
    <3> QED
      BY <3>1 DEF ToSet
  <2>4. /\ ToSet(s) = {s[i] : i \in 1..Len(s)}
        /\ ToSet(Tail(s)) = {Tail(s)[i] : i \in 1..Len(Tail(s))}
    <3>1. Tail(s) \in Seq(Calls)
      BY <1>2
    <3>2. DOMAIN Tail(s) = 1..Len(Tail(s)) /\ DOMAIN s = 1..Len(s)
      BY <3>1
    <3> QED
      BY <3>2, Zenon DEF ToSet
  <2> QED
    BY <2>1, <2>2, <2>3, <2>4
<1> QED
  BY <1>1, <1>2

\* A sequence has no more entries than places.
LEMMA EntriesBound ==
  ASSUME NEW s \in Seq(Calls)
  PROVE  Cardinality(ToSet(s)) <= Len(s)
<1>1. s \in Surjection(1..Len(s), ToSet(s))
  BY DEF Surjection, ToSet
<1>2. IsFiniteSet(1..Len(s)) /\ Cardinality(1..Len(s)) = Len(s)
  <2>1. Len(s) \in Nat
    OBVIOUS
  <2> QED
    BY <2>1, FS_Interval
<1>3. Cardinality(ToSet(s)) <= Cardinality(1..Len(s))
  BY <1>1, <1>2, FS_Surjection
<1> QED
  BY <1>2, <1>3

\* A step that is not PopExpired nor a new admission: nothing to count anew.
LEMMA CountedStep ==
  ASSUME TypeOK, NotAhead, NotAhead', OneDeque, OneDeque', AdmittedIsCounted, [Next]_vars
  PROVE  AdmittedIsCounted'
<1>0. /\ {"appended", "admitted", "failed"} \subseteq Holding
      /\ {"pruning", "passed"} \subseteq Holding
      /\ clock \in Nat /\ Window \in Nat
  BY Types, ConstantsAssumption DEF Holding, CallStates, UnderWay
<1>1. CASE UNCHANGED <<call, clock, attached, deque, evicted>>
  BY <1>1 DEF AdmittedIsCounted, LiveAt, Admitted, At, Entries
<1>2. CASE Tick
  <2>1. LiveAt(clock') \subseteq LiveAt(clock)
    BY <1>0, <1>2, Types DEF Tick, LiveAt, NotAhead, Admitted, At
  <2>2. UNCHANGED <<call, attached, deque, evicted>>
    BY <1>2 DEF Tick
  <2>3. LiveAt(clock)' = LiveAt(clock')
    BY <2>2 DEF LiveAt, Admitted, At
  <2> QED
    BY <2>1, <2>2, <2>3 DEF AdmittedIsCounted, Entries
<1>3. ASSUME NEW c \in Calls, Step(c), ~evicted' PROVE AdmittedIsCounted'
  <2>0. /\ ~evicted
        /\ clock' = clock
    BY <1>3 DEF Step, ReadTime, Lookup, PopExpired, Count, AppendTime, KeepKey, EvictKey
  <2>1. CASE PopExpired(c)
    <3> DEFINE b == call[c].bucket
    <3>1. b = attached /\ b \in Calls
      BY <1>0, <2>0, <2>1, Types DEF PopExpired, OneDeque, At
    <3>2. UNCHANGED <<call, attached>> /\ deque'[b] = Tail(deque[b]) /\ deque[b] # <<>>
      BY <2>1, <3>1 DEF PopExpired, TypeOK
    <3>3. LiveAt(clock)' = LiveAt(clock)
      BY <2>0, <3>2 DEF LiveAt, Admitted, At
    <3>4. deque[b] \in Seq(Calls) /\ Head(deque[b]) \in Calls
      BY <3>1, <3>2, Types
    <3>5. Head(deque[b]) \notin LiveAt(clock)
      <4>1. call[Head(deque[b])].now < call[c].now - Window
        BY <2>1 DEF PopExpired, Expired
      <4>2. call[c].now <= clock
        BY DEF NotAhead
      <4>3. call[Head(deque[b])].now \in Nat /\ call[c].now \in Nat
        BY <3>4, Types
      <4>4. ~(call[Head(deque[b])].now >= clock - Window)
        BY <1>0, <4>1, <4>2, <4>3
      <4> QED
        BY <1>0, <4>3, <4>4 DEF LiveAt
    <3>6. Entries(b) \subseteq ToSet(deque'[b]) \cup {Head(deque[b])}
      BY <3>2, <3>4, Ends DEF Entries
    <3> QED
      BY <2>0, <3>1, <3>2, <3>3, <3>5, <3>6 DEF AdmittedIsCounted, Entries
  <2>2. CASE AppendTime(c)
    <3> DEFINE b == call[c].bucket
    <3>1. b = attached /\ b \in Calls /\ attached # NoBucket
      BY <1>0, <2>0, <2>2, Types DEF AppendTime, OneDeque, At
    <3>2. attached' = attached /\ deque'[b] = Append(deque[b], c)
      BY <2>2, <3>1 DEF AppendTime, TypeOK
    <3>3. ToSet(deque'[b]) = Entries(b) \cup {c}
      BY <3>1, <3>2, Types, Ends DEF Entries
    <3>4. LiveAt(clock)' \subseteq LiveAt(clock) \cup {c}
      BY <2>0, <2>2, AppendMoves DEF LiveAt, Admitted, At, Becomes
    <3> QED
      BY <2>0, <3>1, <3>2, <3>3, <3>4 DEF AdmittedIsCounted, Entries
  <2>3. CASE ReadTime(c) \/ Lookup(c) \/ Count(c) \/ KeepKey(c)
    <3>1. deque' = deque
      BY <2>3 DEF ReadTime, Lookup, Count, KeepKey
    <3>2. LiveAt(clock)' \subseteq LiveAt(clock)
      <4>1. CASE ReadTime(c)
        BY <2>0, <4>1, ReadTimeMoves DEF LiveAt, Admitted, At, Becomes
      <4>2. CASE Lookup(c)
        BY <2>0, <4>2, LookupMoves DEF LiveAt, Admitted, At, Becomes
      <4>3. CASE Count(c)
        BY <2>0, <4>3, CountMoves DEF LiveAt, Admitted, At, Becomes
      <4>4. CASE KeepKey(c)
        <5>1. call[c].pc = "appended"
          BY <4>4 DEF KeepKey
        <5>2. Becomes(c, "admitted", call[c].now, call[c].bucket)
          BY <4>4, EndMoves
        <5> QED
          BY <2>0, <5>1, <5>2 DEF LiveAt, Admitted, At, Becomes
      <4> QED
        BY <2>3, <4>1, <4>2, <4>3, <4>4
    <3>3. attached # NoBucket => attached' = attached
      BY <2>3, LookupMoves DEF ReadTime, Count, KeepKey
    <3> QED
      BY <2>0, <3>1, <3>2, <3>3 DEF AdmittedIsCounted, Entries
  <2>4. CASE EvictKey(c)
    BY <1>3, <2>4 DEF EvictKey
  <2> QED
    BY <1>3, <2>1, <2>2, <2>3, <2>4 DEF Step
<1>4. ASSUME UNCHANGED vars PROVE UNCHANGED <<call, clock, attached, deque, evicted>>
  BY <1>4 DEF vars
<1>5. CASE evicted'
  BY <1>5 DEF AdmittedIsCounted
<1> QED
  BY <1>1, <1>2, <1>3, <1>4, <1>5 DEF Next

-----------------------------------------------------------------------------
(* How many there are.                                                     *)

\* The step of Count is where the limit is tested: whoever passes finds fewer
\* entries, and adds one to the calls about to append.
LEMMA RoomStep ==
  ASSUME TypeOK, OneDeque, Overlap, Overlap', TypeOK', Room, [Next]_vars
  PROVE  Room'
<1>0. /\ Limit \in Nat /\ together \in Nat /\ together' \in Nat
      /\ IsFiniteSet(At({"passed"})) /\ Cardinality(At({"passed"})) \in Nat
      /\ IsFiniteSet(At({"passed"})') /\ Cardinality(At({"passed"})') \in Nat
      /\ IsFiniteSet(At(UnderWay)') /\ Cardinality(At(UnderWay)') \in Nat
  <2>1. At({"passed"})' \subseteq Calls /\ At(UnderWay)' \subseteq Calls
    BY DEF At
  <2> QED
    BY <2>1, Countable, ConstantsAssumption, FS_Subset, FS_CardinalityType DEF TypeOK
<1>1. CASE UNCHANGED <<call, attached, deque, together, evicted>>
  BY <1>1 DEF Room, At
<1>2. ASSUME NEW c \in Calls, Step(c), ~evicted', attached' # NoBucket
      PROVE  Len(deque'[attached']) + Cardinality(At({"passed"})') <= Limit - 1 + together'
  <2>0. ~evicted /\ "pruning" \in Holding /\ "passed" \in Holding
    BY <1>2 DEF Step, ReadTime, Lookup, PopExpired, Count, AppendTime, KeepKey, EvictKey,
                Holding, CallStates, UnderWay
  <2>1. CASE ReadTime(c) \/ KeepKey(c)
    <3>1. UNCHANGED <<attached, deque>>
      BY <2>1 DEF ReadTime, KeepKey
    <3>2. At({"passed"})' = At({"passed"})
      <4>1. CASE ReadTime(c)
        <5>1. call[c].pc = "idle" /\ Becomes(c, "timed", clock, call[c].bucket)
          BY <4>1, ReadTimeMoves DEF ReadTime
        <5> QED
          BY <5>1 DEF At, Becomes
      <4>2. CASE KeepKey(c)
        <5>1. call[c].pc = "appended" /\ Becomes(c, "admitted", call[c].now, call[c].bucket)
          BY <4>2, EndMoves DEF KeepKey
        <5> QED
          BY <5>1 DEF At, Becomes
      <4> QED
        BY <2>1, <4>1, <4>2
    <3>3. together' >= together
      BY <1>0, <2>1, Countable, Types DEF ReadTime, KeepKey, Larger
    <3>4. attached \in Calls /\ Len(deque[attached]) \in Nat
      BY <1>2, <3>1, Types DEF TypeOK
    <3>5. Len(deque[attached]) + Cardinality(At({"passed"})) <= Limit - 1 + together
      BY <1>2, <2>0, <3>1 DEF Room
    <3> QED
      BY <1>0, <3>1, <3>2, <3>3, <3>4, <3>5
  <2>2. CASE Lookup(c)
    <3>1. UNCHANGED <<deque, together>>
      BY <2>2 DEF Lookup
    <3>2. At({"passed"})' = At({"passed"})
      <4>1. call[c].pc = "timed" /\ Becomes(c, "pruning", call[c].now, attached')
        BY <2>2, LookupMoves DEF Lookup
      <4> QED
        BY <4>1 DEF At, Becomes
    <3>3. CASE attached = NoBucket
      <4>1. At({"passed"}) = {}
        BY <2>0, <3>3 DEF OneDeque, At
      <4>2. attached' \in Calls /\ deque[attached'] = <<>>
        BY <2>0, <2>2, <3>3, LookupMoves, ConstantsAssumption DEF OneDeque
      <4>3. Len(deque'[attached']) = 0
        BY <3>1, <4>2
      <4> QED
        BY <1>0, <3>1, <3>2, <4>1, <4>3, FS_EmptySet, ConstantsAssumption
    <3>4. CASE attached # NoBucket
      <4>1. attached' = attached
        BY <2>2, <3>4, LookupMoves
      <4> QED
        BY <2>0, <3>1, <3>2, <3>4, <4>1 DEF Room
    <3> QED
      BY <3>3, <3>4
  <2>3. CASE PopExpired(c)
    <3>1. call[c].bucket = attached /\ attached \in Calls
      BY <2>0, <2>3, Types DEF PopExpired, OneDeque, At
    <3>2. UNCHANGED <<call, attached, together>> /\ deque'[attached] = Tail(deque[attached])
          /\ deque[attached] # <<>>
      BY <2>3, <3>1 DEF PopExpired, TypeOK
    <3>3. Len(deque'[attached]) = Len(deque[attached]) - 1 /\ Len(deque[attached]) \in Nat
      BY <3>1, <3>2, Types, Ends
    <3>4. At({"passed"})' = At({"passed"})
      BY <3>2 DEF At
    <3>5. Len(deque[attached]) + Cardinality(At({"passed"})) <= Limit - 1 + together
      BY <1>2, <2>0, <3>2 DEF Room
    <3> QED
      BY <1>0, <3>2, <3>3, <3>4, <3>5
  <2>4. CASE Count(c)
    <3>1. call[c].bucket = attached /\ attached \in Calls /\ call[c].pc = "pruning"
      BY <2>0, <2>4, Types DEF Count, OneDeque, At
    <3>2. UNCHANGED <<attached, deque, together>>
      BY <2>4 DEF Count
    <3>3. Len(deque[attached]) \in Nat
      BY <3>1, Types
    <3>4. CASE Len(deque[attached]) < Limit
      <4>1. At({"passed"})' \subseteq At(UnderWay)'
        BY DEF At, UnderWay
      <4>2. Cardinality(At({"passed"})') <= Cardinality(At(UnderWay)')
        BY <1>0, <4>1, FS_Subset
      <4>3. Cardinality(At(UnderWay)') <= together'
        BY DEF Overlap
      <4> QED
        BY <1>0, <3>2, <3>3, <3>4, <4>2, <4>3
    <3>5. CASE ~(Len(deque[attached]) < Limit)
      <4>1. Becomes(c, "refused", call[c].now, call[c].bucket)
        BY <2>4, <3>1, <3>5, CountMoves
      <4>2. At({"passed"})' = At({"passed"})
        BY <3>1, <4>1 DEF At, Becomes
      <4> QED
        BY <1>2, <2>0, <3>2, <4>2 DEF Room
    <3> QED
      BY <3>4, <3>5
  <2>5. CASE AppendTime(c)
    <3>1. call[c].bucket = attached /\ attached \in Calls /\ c \in At({"passed"})
      BY <2>0, <2>5, Types DEF AppendTime, OneDeque, At
    <3>2. UNCHANGED <<attached, together>> /\ deque'[attached] = Append(deque[attached], c)
      BY <2>5, <3>1 DEF AppendTime, TypeOK
    <3>3. Len(deque'[attached]) = Len(deque[attached]) + 1 /\ Len(deque[attached]) \in Nat
      BY <3>1, <3>2, Types
    <3>4. At({"passed"})' = At({"passed"}) \ {c}
      BY <2>5, AppendMoves DEF At, Becomes
    <3>5. Cardinality(At({"passed"})') = Cardinality(At({"passed"})) - 1
      BY <1>0, <3>1, <3>4, FS_RemoveElement
    <3>6. Len(deque[attached]) + Cardinality(At({"passed"})) <= Limit - 1 + together
      BY <1>2, <2>0, <3>2 DEF Room
    <3> QED
      BY <1>0, <3>2, <3>3, <3>5, <3>6
  <2>6. CASE EvictKey(c)
    BY <1>2, <2>6 DEF EvictKey
  <2> QED
    BY <1>2, <2>1, <2>2, <2>3, <2>4, <2>5, <2>6 DEF Step
<1>3. ASSUME Tick \/ UNCHANGED vars
      PROVE  UNCHANGED <<call, attached, deque, together, evicted>>
  BY <1>3 DEF Tick, vars
<1> QED
  BY <1>1, <1>2, <1>3 DEF Next, Room

\* Two calls under way are two.
LEMMA AloneIsAlone ==
  ASSUME TypeOK, Overlap, together <= 1,
         NEW c \in At(UnderWay), NEW d \in At(UnderWay)
  PROVE  c = d
<1> SUFFICES ASSUME c # d PROVE FALSE
  OBVIOUS
<1>1. IsFiniteSet({c, d}) /\ Cardinality({c, d}) = 2
  <2>1. IsFiniteSet({c}) /\ Cardinality({c}) = 1
    BY FS_Singleton
  <2>2. {c, d} = {c} \cup {d} /\ d \notin {c}
    OBVIOUS
  <2>3. /\ IsFiniteSet({c} \cup {d})
        /\ Cardinality({c} \cup {d}) = Cardinality({c}) + 1
    BY <2>1, <2>2, FS_AddElement
  <2> QED
    BY <2>1, <2>2, <2>3
<1>2. Cardinality({c, d}) <= Cardinality(At(UnderWay))
  BY Countable, FS_Subset
<1> QED
  BY <1>1, <1>2, Countable, Types DEF Overlap

LEMMA AloneStep ==
  ASSUME TypeOK, Overlap, AloneKeepsKey, [Next]_vars
  PROVE  AloneKeepsKey'
<1>1. CASE UNCHANGED <<call, deque, together, evicted>>
  BY <1>1 DEF AloneKeepsKey, At, Entries
<1>2. ASSUME NEW c \in Calls, Step(c), together' <= 1
      PROVE  ~evicted' /\ \A d \in At({"appended"})' : d \in ToSet(deque'[call'[d].bucket])
  <2>0. /\ together <= 1
        /\ ~evicted
        /\ \A d \in At({"appended"}) : d \in ToSet(deque[call[d].bucket])
    <3>1. together' >= together
      BY <1>2, Countable, Types DEF Step, ReadTime, Lookup, PopExpired, Count, AppendTime,
         KeepKey, EvictKey, Larger
    <3>2. together' \in Nat
      BY <1>2, TypeStep DEF TypeOK, Next
    <3>3. together <= 1
      BY <1>2, <3>1, <3>2, Types
    <3> QED
      BY <3>3 DEF AloneKeepsKey, Entries
  <2>1. CASE AppendTime(c)
    <3>1. call[c].bucket \in Calls /\ c \in At(UnderWay)
      BY <2>1, Types DEF AppendTime, At, UnderWay
    <3>2. c \in ToSet(deque'[call[c].bucket])
      <4>1. deque'[call[c].bucket] = Append(deque[call[c].bucket], c)
        BY <2>1, <3>1 DEF AppendTime, TypeOK
      <4> QED
        BY <3>1, <4>1, Types, Ends
    <3>3. Becomes(c, "appended", call[c].now, call[c].bucket)
      BY <2>1, AppendMoves
    <3>4. ASSUME NEW d \in At({"appended"})' PROVE d = c
      <4>1. d # c => d \in At(UnderWay)
        BY <3>3 DEF At, Becomes, UnderWay
      <4> QED
        BY <2>0, <3>1, <4>1, AloneIsAlone
    <3>5. evicted' = evicted
      BY <2>1 DEF AppendTime
    <3> QED
      BY <2>0, <3>2, <3>3, <3>4, <3>5 DEF Becomes
  <2>2. CASE PopExpired(c)
    <3>1. call' = call /\ evicted' = evicted /\ c \in At(UnderWay) /\ call[c].pc = "pruning"
      BY <2>2 DEF PopExpired, At, UnderWay
    <3>2. At({"appended"})' = {}
      <4>1. ASSUME NEW d \in At({"appended"}) PROVE FALSE
        <5>1. d \in At(UnderWay) /\ d # c
          BY <3>1 DEF At, UnderWay
        <5> QED
          BY <2>0, <3>1, <5>1, AloneIsAlone
      <4> QED
        BY <3>1, <4>1 DEF At
    <3> QED
      BY <2>0, <3>1, <3>2
  <2>3. CASE ReadTime(c) \/ Lookup(c) \/ Count(c) \/ KeepKey(c)
    <3>1. deque' = deque /\ evicted' = evicted
      BY <2>3 DEF ReadTime, Lookup, Count, KeepKey
    <3>2. \E l \in CallStates \ {"appended"} : \E s, b : Becomes(c, l, s, b)
      BY <2>3, ReadTimeMoves, LookupMoves, CountMoves, EndMoves DEF CallStates, UnderWay
    <3>3. \A d \in At({"appended"})' : d \in At({"appended"}) /\ call'[d] = call[d]
      BY <3>2 DEF At, Becomes
    <3> QED
      BY <2>0, <3>1, <3>3
  <2>4. CASE EvictKey(c)
    <3>1. c \in At({"appended"}) /\ deque[call[c].bucket] = <<>>
      BY <2>4 DEF EvictKey, At
    <3>2. ToSet(<<>>) = {}
      BY DEF ToSet
    <3> QED
      BY <2>0, <3>1, <3>2
  <2> QED
    BY <1>2, <2>1, <2>2, <2>3, <2>4 DEF Step
<1>3. ASSUME Tick \/ UNCHANGED vars PROVE UNCHANGED <<call, deque, together, evicted>>
  BY <1>3 DEF Tick, vars
<1> QED
  BY <1>1, <1>2, <1>3 DEF Next, AloneKeepsKey, Entries

-----------------------------------------------------------------------------
Kept ==
  /\ TypeOK /\ NotAhead /\ Overlap
  /\ OneDeque /\ AdmittedIsCounted /\ Room /\ AloneKeepsKey

LEMMA InitKept == Init => Kept
<1> SUFFICES ASSUME Init PROVE Kept
  OBVIOUS
<1>1. TypeOK
  BY InitType
<1>2. At(UnderWay) = {} /\ Admitted = {} /\ At(Holding) = {} /\ At({"appended"}) = {}
  BY DEF Init, At, UnderWay, Admitted, Holding
<1>3. NotAhead
  BY DEF Init, NotAhead
<1>4. Overlap
  BY <1>2, FS_EmptySet DEF Init, Overlap
<1>5. OneDeque /\ Room
  BY <1>2 DEF Init, OneDeque, Room
<1>6. AdmittedIsCounted
  BY <1>2 DEF AdmittedIsCounted, LiveAt
<1>7. AloneKeepsKey
  BY <1>2 DEF Init, AloneKeepsKey
<1> QED
  BY <1>1, <1>3, <1>4, <1>5, <1>6, <1>7 DEF Kept

LEMMA StepKept ==
  ASSUME Kept, [Next]_vars
  PROVE  Kept'
<1>1. TypeOK' /\ NotAhead' /\ Overlap'
  BY TypeStep, NotAheadStep, OverlapStep DEF Kept
<1>2. OneDeque' /\ AloneKeepsKey'
  BY OneDequeStep, AloneStep DEF Kept
<1>3. AdmittedIsCounted'
  BY <1>1, <1>2, CountedStep DEF Kept
<1>4. Room'
  BY <1>1, RoomStep DEF Kept
<1> QED
  BY <1>1, <1>2, <1>3, <1>4 DEF Kept

LEMMA AlwaysKept == Spec => []Kept
<1>1. Init => Kept
  BY InitKept
<1>2. Kept /\ [Next]_vars => Kept'
  BY StepKept
<1> QED
  BY <1>1, <1>2, PTL DEF Spec

\* Whatever the interleaving, a request that was let through is in the deque
\* its key has until it leaves the window, unless the key was deleted.
THEOREM Counted == Spec => []AdmittedIsCounted
<1>1. Kept => AdmittedIsCounted
  BY DEF Kept
<1> QED
  BY <1>1, AlwaysKept, PTL

\* The requests of the window are entries of one deque, and Room bounds those.
LEMMA OvershootBound ==
  ASSUME Kept
  PROVE  OvershootIsOnePerCall
<1> SUFFICES ASSUME ~evicted
             PROVE  Cardinality(LiveAt(clock)) <= Limit - 1 + Larger(together, 1)
  BY DEF OvershootIsOnePerCall
<1>1. TypeOK /\ Room /\ \A c \in LiveAt(clock) : attached # NoBucket /\ c \in Entries(attached)
  BY DEF Kept, AdmittedIsCounted
<1>2. together \in Nat /\ Limit \in Nat \ {0}
  BY <1>1, Types, ConstantsAssumption
<1>3. /\ Larger(together, 1) \in Nat
      /\ Larger(together, 1) >= together /\ Larger(together, 1) >= 1
  BY <1>2 DEF Larger
<1>4. CASE attached = NoBucket
  <2>1. LiveAt(clock) = {}
    BY <1>1, <1>4
  <2>2. Cardinality(LiveAt(clock)) = 0
    BY <2>1, FS_EmptySet
  <2> QED
    BY <1>2, <1>3, <2>2
<1>5. CASE attached # NoBucket
  <2>1. deque[attached] \in Seq(Calls) /\ Len(deque[attached]) \in Nat
    BY <1>1, <1>5, Types DEF TypeOK
  <2>2. LiveAt(clock) \subseteq Entries(attached) /\ Entries(attached) \subseteq Calls
    BY <1>1, <2>1 DEF Entries, ToSet
  <2>3. IsFiniteSet(Entries(attached))
    BY <2>2, ConstantsAssumption, FS_Subset
  <2>4. IsFiniteSet(LiveAt(clock)) /\ Cardinality(LiveAt(clock)) <= Cardinality(Entries(attached))
    BY <2>2, <2>3, FS_Subset
  <2>5. Cardinality(Entries(attached)) <= Len(deque[attached])
    BY <2>1, EntriesBound DEF Entries
  <2>6. Len(deque[attached]) + Cardinality(At({"passed"})) <= Limit - 1 + together
    BY <1>1, <1>5 DEF Room
  <2>7. Cardinality(At({"passed"})) \in Nat
    BY Countable
  <2>8. Cardinality(LiveAt(clock)) \in Nat /\ Cardinality(Entries(attached)) \in Nat
    BY <2>3, <2>4, FS_CardinalityType
  <2> QED
    BY <1>2, <1>3, <2>1, <2>4, <2>5, <2>6, <2>7, <2>8
<1> QED
  BY <1>4, <1>5

\* The limit is exceeded by at most one request for each further call that was
\* under way at the same time, for any number of threads.
THEOREM Overshoot == Spec => []OvershootIsOnePerCall
<1>1. Kept => OvershootIsOnePerCall
  BY OvershootBound
<1> QED
  BY <1>1, AlwaysKept, PTL

-----------------------------------------------------------------------------
(* Calls that do not overlap.                                              *)

\* Nothing is appended or dropped, no time is read, and nobody who was let
\* through or is gone comes back.
LEMMA OrderedAside ==
  ASSUME TypeOK, Ordered, deque' = deque, \A d \in Calls : call'[d].now = call[d].now,
         Admitted \subseteq Admitted', At(UnderWay)' \subseteq At(UnderWay)
  PROVE  Ordered'
<1>1. ASSUME NEW b \in Calls, NEW i \in DOMAIN deque[b]
      PROVE  deque[b][i] \in Calls
  BY <1>1, Types
<1>2. At(UnderWay) \subseteq Calls
  BY DEF At
<1> QED
  BY <1>1, <1>2 DEF Ordered

\* A call alone that ends, or moves on without touching the deque.
LEMMA OrderedMoves ==
  ASSUME TypeOK, Ordered, NEW c \in Calls,
         Lookup(c) \/ Count(c) \/ KeepKey(c) \/ EvictKey(c)
  PROVE  Ordered'
<1>1. deque' = deque
  BY DEF Lookup, Count, KeepKey, EvictKey
<1>2. c \in At(UnderWay)
  BY DEF Lookup, Count, KeepKey, EvictKey, At, UnderWay
<1>3. CASE Lookup(c) \/ Count(c)
  <2>1. \E l, b : Becomes(c, l, call[c].now, b)
    BY <1>3, LookupMoves, CountMoves
  <2>2. c \notin Admitted
    BY <1>3 DEF Lookup, Count, Admitted, At
  <2>3. Admitted \subseteq Admitted' /\ At(UnderWay)' \subseteq At(UnderWay)
    BY <1>2, <2>1, <2>2 DEF Becomes, Admitted, At
  <2> QED
    BY <1>1, <2>1, <2>3, OrderedAside DEF Becomes
<1>4. CASE KeepKey(c) \/ EvictKey(c)
  <2>1. \E l \in {"admitted", "failed"} : Becomes(c, l, call[c].now, call[c].bucket)
    BY <1>4, EndMoves
  <2>2. Admitted \subseteq Admitted' /\ At(UnderWay)' \subseteq At(UnderWay)
    BY <1>2, <2>1 DEF Becomes, Admitted, At
  <2> QED
    BY <1>1, <2>1, <2>2, OrderedAside DEF Becomes
<1> QED
  BY <1>3, <1>4

\* A call that starts alone reads a time no entry is later than.
LEMMA OrderedStart ==
  ASSUME TypeOK, NotAhead, Ordered, NEW c \in Calls, ReadTime(c), together' <= 1
  PROVE  Ordered'
<1>1. At(UnderWay) = {}
  <2>1. together' = Larger(together, Cardinality(At(UnderWay)) + 1)
    BY DEF ReadTime
  <2>2. IsFiniteSet(At(UnderWay)) /\ Cardinality(At(UnderWay)) \in Nat /\ together \in Nat
    BY Countable, Types
  <2>3. Cardinality(At(UnderWay)) = 0
    BY <2>1, <2>2 DEF Larger
  <2> QED
    BY <2>2, <2>3, FS_EmptySet
<1>2. Becomes(c, "timed", clock, call[c].bucket)
  BY ReadTimeMoves
<1>3. deque' = deque /\ c \notin Admitted
  BY DEF ReadTime, Admitted, At
<1>4. Admitted \subseteq Admitted'
  BY <1>2, <1>3 DEF Becomes, Admitted, At
<1>5. \A d \in At(UnderWay)' : d = c
  BY <1>1, <1>2 DEF Becomes, At
<1>6. ASSUME NEW b \in Calls, NEW i \in DOMAIN deque[b]
      PROVE  /\ deque[b][i] \in Calls \cap Admitted' /\ call'[deque[b][i]] = call[deque[b][i]]
             /\ call[deque[b][i]].now <= clock
  <2>1. deque[b][i] \in Calls /\ deque[b][i] \in Admitted
    BY <1>6, Types DEF Ordered
  <2> QED
    BY <1>2, <1>3, <1>4, <2>1 DEF Becomes, NotAhead
<1> QED
  BY <1>2, <1>3, <1>5, <1>6 DEF Ordered, Becomes

LEMMA OrderedPop ==
  ASSUME TypeOK, Ordered, NEW c \in Calls, PopExpired(c)
  PROVE  Ordered'
<1>0. call[c].bucket \in Calls
  BY Types DEF PopExpired, At
<1>1. PICK b \in Calls : b = call[c].bucket
  BY <1>0
<1>2. deque[b] \in Seq(Calls) /\ deque[b] # <<>> /\ deque' = [deque EXCEPT ![b] = Tail(deque[b])]
  BY <1>1, Types DEF PopExpired
<1>3. call' = call
  BY DEF PopExpired
<1>4. Admitted' = Admitted /\ At(UnderWay)' = At(UnderWay)
  BY <1>3 DEF Admitted, At
<1>5. deque'[b] = Tail(deque[b]) /\ \A a \in Calls \ {b} : deque'[a] = deque[a]
  BY <1>2 DEF TypeOK
<1>6. \A i \in DOMAIN Tail(deque[b]) :
        i + 1 \in DOMAIN deque[b] /\ Tail(deque[b])[i] = deque[b][i + 1] /\ i \in Int
  BY <1>2
<1>7. ASSUME NEW i \in DOMAIN deque'[b]
      PROVE  /\ deque'[b][i] \in Admitted
             /\ \A d \in At(UnderWay) : call[deque'[b][i]].now <= call[d].now
             /\ \A j \in DOMAIN deque'[b] : i < j =>
                  deque'[b][i] # deque'[b][j] /\ call[deque'[b][i]].now <= call[deque'[b][j]].now
  <2>1. ASSUME NEW j \in DOMAIN deque'[b], i < j
        PROVE  deque'[b][i] # deque'[b][j] /\ call[deque'[b][i]].now <= call[deque'[b][j]].now
    <3>1. i + 1 \in DOMAIN deque[b] /\ j + 1 \in DOMAIN deque[b] /\ i + 1 < j + 1
      BY <1>5, <1>6, <1>7, <2>1
    <3>2. deque'[b][i] = deque[b][i + 1] /\ deque'[b][j] = deque[b][j + 1]
      BY <1>5, <1>6, <1>7, <2>1
    <3> QED
      BY <3>1, <3>2 DEF Ordered
  <2> QED
    BY <1>5, <1>6, <1>7, <2>1 DEF Ordered
<1>8. ASSUME NEW a \in Calls, NEW i \in DOMAIN deque'[a]
      PROVE  /\ deque'[a][i] \in Admitted
             /\ \A d \in At(UnderWay) : call[deque'[a][i]].now <= call[d].now
             /\ \A j \in DOMAIN deque'[a] : i < j =>
                  deque'[a][i] # deque'[a][j] /\ call[deque'[a][i]].now <= call[deque'[a][j]].now
  <2>1. CASE a = b
    BY <1>7, <1>8, <2>1
  <2>2. CASE a # b
    <3>1. deque'[a] = deque[a]
      BY <1>5, <2>2
    <3> QED
      BY <1>8, <3>1 DEF Ordered
  <2> QED
    BY <2>1, <2>2
<1> QED
  BY <1>3, <1>4, <1>8 DEF Ordered

\* A call alone appends itself behind entries that are not later.
LEMMA OrderedAppend ==
  ASSUME TypeOK, Overlap, together <= 1, Ordered, NEW c \in Calls, AppendTime(c)
  PROVE  Ordered'
<1>0. call[c].bucket \in Calls /\ c \in At(UnderWay) /\ c \notin Admitted
  BY Types DEF AppendTime, At, UnderWay, Admitted
<1>1. PICK b \in Calls : b = call[c].bucket
  BY <1>0
<1>2. deque[b] \in Seq(Calls) /\ deque' = [deque EXCEPT ![b] = Append(deque[b], c)]
  BY <1>1, Types DEF AppendTime
<1>3. Becomes(c, "appended", call[c].now, call[c].bucket)
  BY AppendMoves
<1>4. \A d \in Calls : call'[d].now = call[d].now
  BY <1>3 DEF Becomes
<1>5. Admitted \cup {c} \subseteq Admitted'
  BY <1>0, <1>3 DEF Becomes, Admitted, At
<1>6. At(UnderWay)' \subseteq At(UnderWay)
  BY <1>0, <1>3 DEF Becomes, At
<1>7. \A d \in At(UnderWay) : d = c
  BY <1>0, AloneIsAlone
<1>8. deque'[b] = Append(deque[b], c) /\ \A a \in Calls \ {b} : deque'[a] = deque[a]
  BY <1>2 DEF TypeOK
<1>9. /\ Len(deque[b]) \in Nat /\ DOMAIN deque[b] = 1..Len(deque[b])
      /\ DOMAIN Append(deque[b], c) = 1..(Len(deque[b]) + 1)
      /\ Append(deque[b], c)[Len(deque[b]) + 1] = c
      /\ \A i \in DOMAIN deque[b] : Append(deque[b], c)[i] = deque[b][i]
  BY <1>2
<1>10. \A a \in Calls : \A i \in DOMAIN deque[a] :
         /\ deque[a][i] \in Calls /\ deque[a][i] \in Admitted /\ deque[a][i] # c
         /\ call[deque[a][i]].now <= call[c].now
  BY <1>0, Types DEF Ordered
<1>11. ASSUME NEW a \in Calls, a # b, NEW i \in DOMAIN deque'[a]
       PROVE  /\ deque'[a][i] \in Admitted'
              /\ \A d \in At(UnderWay)' : call'[deque'[a][i]].now <= call'[d].now
              /\ \A j \in DOMAIN deque'[a] : i < j =>
                   deque'[a][i] # deque'[a][j] /\ call'[deque'[a][i]].now <= call'[deque'[a][j]].now
  <2>1. deque'[a] = deque[a]
    BY <1>8, <1>11
  <2>2. \A j \in DOMAIN deque[a] : i < j =>
          deque[a][i] # deque[a][j] /\ call[deque[a][i]].now <= call[deque[a][j]].now
    BY <1>11, <2>1 DEF Ordered
  <2> QED
    BY <1>0, <1>4, <1>5, <1>6, <1>7, <1>10, <1>11, <2>1, <2>2
<1>12. ASSUME NEW i \in DOMAIN deque'[b]
       PROVE  /\ deque'[b][i] \in Admitted'
              /\ \A d \in At(UnderWay)' : call'[deque'[b][i]].now <= call'[d].now
              /\ \A j \in DOMAIN deque'[b] : i < j =>
                   deque'[b][i] # deque'[b][j] /\ call'[deque'[b][i]].now <= call'[deque'[b][j]].now
  <2>1. CASE i \in DOMAIN deque[b]
    <3>1. deque'[b][i] = deque[b][i]
      BY <1>8, <1>9, <2>1
    <3>2. ASSUME NEW j \in DOMAIN deque'[b], i < j
          PROVE  deque'[b][i] # deque'[b][j] /\ call'[deque'[b][i]].now <= call'[deque'[b][j]].now
      <4>1. CASE j \in DOMAIN deque[b]
        <5>1. deque'[b][j] = deque[b][j]
          BY <1>8, <1>9, <4>1
        <5>2. deque[b][i] # deque[b][j] /\ call[deque[b][i]].now <= call[deque[b][j]].now
          BY <2>1, <3>2, <4>1 DEF Ordered
        <5> QED
          BY <1>4, <1>10, <2>1, <3>1, <4>1, <5>1, <5>2
      <4>2. CASE j = Len(deque[b]) + 1
        <5>1. deque'[b][j] = c
          BY <1>8, <1>9, <4>2
        <5> QED
          BY <1>4, <1>10, <2>1, <3>1, <5>1
      <4> QED
        BY <1>8, <1>9, <3>2, <4>1, <4>2
    <3> QED
      BY <1>4, <1>5, <1>6, <1>7, <1>10, <2>1, <3>1, <3>2
  <2>2. CASE i = Len(deque[b]) + 1
    <3>1. deque'[b][i] = c /\ \A j \in DOMAIN deque'[b] : ~(i < j)
      BY <1>8, <1>9, <2>2
    <3>2. call[c].now \in Nat
      BY Types
    <3>3. \A d \in At(UnderWay)' : call'[c].now <= call'[d].now
      <4>1. \A d \in At(UnderWay)' : d = c
        BY <1>6, <1>7
      <4>2. call'[c].now \in Nat
        BY <1>0, <1>4, <3>2 DEF At
      <4> QED
        BY <4>1, <4>2
    <3>4. c \in Admitted'
      BY <1>5
    <3> QED
      BY <3>1, <3>3, <3>4
  <2> QED
    BY <1>8, <1>9, <1>12, <2>1, <2>2
<1> QED
  BY <1>11, <1>12 DEF Ordered

\* The most calls at once only grow.
LEMMA TogetherGrows ==
  ASSUME TypeOK, [Next]_vars
  PROVE  together' >= together
<1>1. CASE UNCHANGED together
  BY <1>1, Types
<1>2. ASSUME NEW c \in Calls, ReadTime(c) PROVE together' >= together
  BY <1>2, Countable, Types DEF ReadTime, Larger
<1> QED
  BY <1>1, <1>2 DEF Next, Step, vars, Tick, Lookup, PopExpired, Count, AppendTime, KeepKey, EvictKey

LEMMA InOrderStep ==
  ASSUME TypeOK, NotAhead, Overlap, AloneInOrder, [Next]_vars
  PROVE  AloneInOrder'
<1> SUFFICES ASSUME together' <= 1 PROVE Ordered'
  BY DEF AloneInOrder
<1>1. together <= 1 /\ Ordered
  <2>1. together' >= together /\ together \in Nat /\ together' \in Nat
    BY TogetherGrows, TypeStep, Types DEF TypeOK
  <2> QED
    BY <2>1 DEF AloneInOrder
<1>2. CASE UNCHANGED <<call, deque>>
  BY <1>1, <1>2 DEF Ordered, Admitted, At
<1>3. ASSUME NEW c \in Calls, Step(c) PROVE Ordered'
  BY <1>1, <1>3, OrderedMoves, OrderedStart, OrderedPop, OrderedAppend DEF Step
<1> QED
  BY <1>2, <1>3 DEF Next, Tick, vars

\* A call alone that is refused finds as many distinct calls of its window in
\* the deque as the deque is long.
LEMMA RefusedFinds ==
  ASSUME TypeOK, Ordered, NEW c \in Calls, Count(c), Len(deque[call[c].bucket]) >= Limit
  PROVE  Cardinality(LiveAt(call[c].now)) >= Limit
<1>0. call[c].bucket \in Calls /\ c \in At(UnderWay)
  BY Types DEF Count, At, UnderWay
<1>1. PICK s : s = deque[call[c].bucket]
  OBVIOUS
<1>2. s \in Seq(Calls) /\ Len(s) \in Nat /\ DOMAIN s = 1..Len(s) /\ Len(s) >= Limit
  BY <1>0, <1>1, Types
<1>3. Limit \in Nat \ {0} /\ Window \in Nat
  BY ConstantsAssumption
<1>4. s # <<>> /\ Head(s) = s[1] /\ 1 \in DOMAIN s
  BY <1>2, <1>3
<1>5. \A d \in Calls : call[d].now \in Nat
  BY Types
<1>6. s[1] \in Calls /\ call[s[1]].now >= call[c].now - Window
  <2>1. s[1] \in Calls
    BY <1>2, <1>4
  <2>2. ~ (call[s[1]].now < call[c].now - Window)
    BY <1>1, <1>4 DEF Count, Expired
  <2> QED
    BY <1>3, <1>5, <2>1, <2>2
<1>7. ASSUME NEW i \in 1..Len(s) PROVE s[i] \in LiveAt(call[c].now)
  <2>1. s[i] \in Calls /\ s[i] \in Admitted /\ call[s[i]].now <= call[c].now
    BY <1>0, <1>1, <1>2 DEF Ordered
  <2>2. call[s[i]].now >= call[s[1]].now
    <3>1. CASE i = 1
      BY <1>5, <1>6, <3>1
    <3>2. CASE i # 1
      <4>1. 1 < i
        BY <3>2
      <4> QED
        BY <1>0, <1>1, <1>2, <1>4, <4>1, <1>5, <1>6, <2>1 DEF Ordered
    <3> QED
      BY <3>1, <3>2
  <2>3. call[s[i]].now \in (call[c].now - Window)..call[c].now
    BY <1>3, <1>5, <1>6, <2>1, <2>2
  <2> QED
    BY <2>1, <2>3 DEF LiveAt
<1>8. \A i, j \in 1..Len(s) : s[i] = s[j] => i = j
  <2>1. ASSUME NEW i \in 1..Len(s), NEW j \in 1..Len(s), i < j PROVE s[i] # s[j]
    BY <1>0, <1>1, <1>2, <2>1 DEF Ordered
  <2>2. ASSUME NEW i \in 1..Len(s), NEW j \in 1..Len(s), i # j PROVE i < j \/ j < i
    BY <2>2
  <2> QED
    BY <2>1, <2>2
<1>9. s \in Injection(1..Len(s), LiveAt(call[c].now))
  BY <1>2, <1>7, <1>8 DEF Injection, IsInjective
<1>10. IsFiniteSet(LiveAt(call[c].now)) /\ Cardinality(LiveAt(call[c].now)) \in Nat
  BY ConstantsAssumption, FS_Subset, FS_CardinalityType DEF LiveAt, Admitted, At
<1>11. Cardinality(1..Len(s)) <= Cardinality(LiveAt(call[c].now))
  BY <1>9, <1>10, FS_Injection
<1>12. Cardinality(1..Len(s)) = Len(s)
  <2>1. Len(s) \in Nat
    BY <1>2
  <2> QED
    BY ONLY <2>1, FS_Interval
<1> QED
  BY <1>2, <1>3, <1>10, <1>11, <1>12

\* What was refused stays so, and so do those it found.
AloneRefused ==
  together <= 1 => \A c \in At({"refused"}) : Cardinality(LiveAt(call[c].now)) >= Limit

LEMMA RefusedStep ==
  ASSUME TypeOK, AloneInOrder, AloneRefused, [Next]_vars
  PROVE  AloneRefused'
<1> SUFFICES ASSUME together' <= 1, NEW d \in At({"refused"})'
             PROVE  Cardinality(LiveAt(call[d].now)') >= Limit
  BY DEF AloneRefused
<1>1. together <= 1
  <2>1. together' >= together /\ together \in Nat /\ together' \in Nat
    BY TogetherGrows, TypeStep, Types DEF TypeOK
  <2> QED
    BY <2>1
<1>2. CASE UNCHANGED call
  <2>1. LiveAt(call[d].now)' = LiveAt(call[d].now) /\ d \in At({"refused"})
    BY <1>2 DEF LiveAt, Admitted, At
  <2> QED
    BY <1>1, <2>1 DEF AloneRefused
<1>3. ASSUME NEW c \in Calls, Step(c), ~ PopExpired(c)
      PROVE  Cardinality(LiveAt(call[d].now)') >= Limit
  <2>0. d \in Calls /\ call'[d].pc = "refused"
    BY DEF At
  \* Who was let through keeps place and time.
  <2>1. \A a \in Admitted : a \in Admitted' /\ call'[a].now = call[a].now
    <3>1. CASE ReadTime(c) \/ Lookup(c) \/ Count(c) \/ AppendTime(c)
      <4>1. c \notin Admitted
        BY <3>1 DEF ReadTime, Lookup, Count, AppendTime, Admitted, At
      <4>2. \E l, t, b : Becomes(c, l, t, b)
        BY <3>1, ReadTimeMoves, LookupMoves, CountMoves, AppendMoves
      <4> QED
        BY <4>1, <4>2 DEF Becomes, Admitted, At
    <3>2. CASE KeepKey(c) \/ EvictKey(c)
      <4>1. \E l \in {"admitted", "failed"} : Becomes(c, l, call[c].now, call[c].bucket)
        BY <3>2, EndMoves
      <4> QED
        BY <4>1 DEF Becomes, Admitted, At
    <3> QED
      BY <1>3, <3>1, <3>2 DEF Step
  <2>2. ASSUME call'[d].now = call[d].now, Cardinality(LiveAt(call[d].now)) >= Limit
        PROVE  Cardinality(LiveAt(call[d].now)') >= Limit
    <3>1. LiveAt(call[d].now) \subseteq LiveAt(call[d].now)'
      BY <2>1, <2>2 DEF LiveAt
    <3>2. IsFiniteSet(LiveAt(call[d].now)')
      <4>1. LiveAt(call[d].now)' \subseteq Calls
        BY DEF LiveAt, Admitted, At
      <4> QED
        BY <4>1, ConstantsAssumption, FS_Subset
    <3>3. /\ Cardinality(LiveAt(call[d].now)) <= Cardinality(LiveAt(call[d].now)')
          /\ Cardinality(LiveAt(call[d].now)) \in Nat /\ Cardinality(LiveAt(call[d].now)') \in Nat
      BY <3>1, <3>2, FS_Subset, FS_CardinalityType
    <3> QED
      BY <2>2, <3>3, ConstantsAssumption
  <2>3. CASE call[d].pc = "refused"
    <3>1. d # c
      BY <1>3, <2>3 DEF Step, ReadTime, Lookup, PopExpired, Count, AppendTime, KeepKey, EvictKey
    <3>2. \E l, t, b : Becomes(c, l, t, b)
      BY <1>3, ReadTimeMoves, LookupMoves, CountMoves, AppendMoves, EndMoves DEF Step
    <3>3. call'[d] = call[d]
      BY <2>0, <3>1, <3>2 DEF Becomes
    <3>4. Cardinality(LiveAt(call[d].now)) >= Limit
      BY <1>1, <2>0, <2>3 DEF AloneRefused, At
    <3> QED
      BY <2>2, <3>3, <3>4
  <2>4. CASE call[d].pc # "refused"
    <3>1. d = c
      <4>1. \E l, t, b : Becomes(c, l, t, b)
        BY <1>3, ReadTimeMoves, LookupMoves, CountMoves, AppendMoves, EndMoves DEF Step
      <4> QED
        BY <2>0, <2>4, <4>1 DEF Becomes
    <3>2. Count(c)
      <4>1. ASSUME ~Count(c) PROVE call'[c].pc # "refused"
        BY <1>3, <4>1, ReadTimeMoves, LookupMoves, AppendMoves, EndMoves DEF Step, Becomes
      <4> QED
        BY <2>0, <3>1, <4>1
    <3>3. Len(deque[call[c].bucket]) >= Limit /\ call'[c].now = call[c].now
      BY <2>0, <3>1, <3>2, CountMoves DEF Becomes
    <3>4. Cardinality(LiveAt(call[c].now)) >= Limit
      BY <1>1, <3>2, <3>3, RefusedFinds DEF AloneInOrder
    <3> QED
      BY <2>2, <3>1, <3>3, <3>4
  <2> QED
    BY <2>3, <2>4
<1>4. ASSUME NEW c \in Calls, PopExpired(c) PROVE UNCHANGED call
  BY <1>4 DEF PopExpired
<1> QED
  BY <1>2, <1>3, <1>4 DEF Next, Tick, vars

\* While calls do not overlap, a refused one found Limit requests in its window.
THEOREM RefusedAtLimit == Spec => []RefusedOnlyAtLimit
<1>1. Init => AloneInOrder /\ AloneRefused
  <2>1. Init => \A b \in Calls : DOMAIN deque[b] = {}
    BY DEF Init
  <2>2. Init => At({"refused"}) = {}
    BY DEF Init, At
  <2> QED
    BY <2>1, <2>2 DEF AloneInOrder, Ordered, AloneRefused
<1>2. Kept /\ AloneInOrder /\ [Next]_vars => AloneInOrder'
  BY InOrderStep DEF Kept
<1>3. Kept /\ AloneInOrder /\ AloneRefused /\ [Next]_vars => AloneRefused'
  BY RefusedStep DEF Kept
<1>4. AloneRefused => RefusedOnlyAtLimit
  BY DEF AloneRefused, RefusedOnlyAtLimit
<1> QED
  BY <1>1, <1>2, <1>3, <1>4, AlwaysKept, PTL DEF Spec
=============================================================================
