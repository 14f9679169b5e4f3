---------------------------- MODULE RelayProofs -----------------------------
(***************************************************************************)
(* Safety of the relay's request path for any threads, requests, keys,     *)
(* upstreams, fallbacks and limits.                                        *)
(*                                                                         *)
(* TypeOK is not inductive: that no more slots can be lost than there are  *)
(* needs SlotsExact, and that a breaker exists for every report needs      *)
(* Calls, which also makes every report one to the right breaker.          *)
(***************************************************************************)
EXTENDS Relay, FiniteSetTheorems, TLAPS

\* The threads that hold a slot.
Held == {r \in Requests : at[r] \in Holding}

\* A thread reports to the breaker of the alias it calls, and turns only to a fallback
\* that there is.
Calls ==
    \A r \in Requests :
        /\ at[r] \notin {"idle", "admitted"} =>
               alias[r] \in Aliases /\ circuit[r] = CircuitOf[alias[r]]
        /\ at[r] \in {"falling", "retelling"} => Fallback(r, alias[r]) # NoAlias

IInv == TypeOK /\ Calls /\ SlotsExact

-----------------------------------------------------------------------------
(* The gate *)

\* The count of the threads that hold a slot is a number.
LEMMA HeldCount ==
    /\ IsFiniteSet(Held) /\ Cardinality(Held) \in Nat
    /\ IsFiniteSet(Held)' /\ Cardinality(Held') \in Nat
<1>1. Held \subseteq Requests /\ Held' \subseteq Requests
  BY DEF Held
<1>2. IsFiniteSet(Held) /\ IsFiniteSet(Held')
  BY <1>1, FS_Subset, RelayAssumption
<1>3. QED
  BY <1>2, FS_CardinalityType

\* A thread that holds a slot is counted, and its slot is not yet lost.
LEMMA SlotInUse ==
    ASSUME TypeOK, SlotsExact, NEW r \in Requests, at[r] \in Holding
    PROVE  active > 0 /\ lost < MaxConcurrency
<1>1. Held # {}
  BY DEF Held
<1>2. Cardinality(Held) # 0
  BY <1>1, HeldCount, FS_EmptySet
<1>3. active = Cardinality(Held) + lost
  BY DEF SlotsExact, Held
<1>4. active \in 0..MaxConcurrency /\ lost \in 0..MaxConcurrency /\ MaxConcurrency \in Nat
  BY RelayAssumption DEF TypeOK
<1>5. QED
  BY <1>2, <1>3, <1>4, HeldCount

\* A step that neither takes nor gives a slot.
LEMMA SameSlots ==
    ASSUME TypeOK, SlotsExact, NEW r \in Requests, NEW s,
           at' = [at EXCEPT ![r] = s], at[r] \in Holding <=> s \in Holding,
           active' = active, lost' = lost
    PROVE  SlotsExact'
<1>1. Held' = Held
  BY DEF Held, TypeOK
<1>2. QED
  BY <1>1 DEF SlotsExact, Held

LEMMA TakesSlot ==
    ASSUME TypeOK, SlotsExact, NEW r \in Requests, NEW s,
           at' = [at EXCEPT ![r] = s], at[r] \notin Holding, s \in Holding,
           active' = active + 1, lost' = lost
    PROVE  SlotsExact'
<1>1. Held' = Held \cup {r} /\ r \notin Held
  BY DEF Held, TypeOK
<1>2. Cardinality(Held') = Cardinality(Held) + 1
  BY <1>1, HeldCount, FS_AddElement
<1>3. QED
  BY <1>2, HeldCount DEF SlotsExact, Held, TypeOK

\* Without a slot, there is one less that is held.
LEMMA LetsGo ==
    ASSUME TypeOK, NEW r \in Requests, NEW s,
           at' = [at EXCEPT ![r] = s], at[r] \in Holding, s \notin Holding
    PROVE  Cardinality(Held') = Cardinality(Held) - 1
<1>1. Held' = Held \ {r} /\ r \in Held
  BY DEF Held, TypeOK
<1>2. QED
  BY <1>1, HeldCount, FS_RemoveElement

LEMMA GivesSlot ==
    ASSUME TypeOK, SlotsExact, NEW r \in Requests, NEW s,
           at' = [at EXCEPT ![r] = s], at[r] \in Holding, s \notin Holding,
           Release, lost' = lost
    PROVE  SlotsExact'
<1>1. active' = active - 1
  BY SlotInUse DEF Release, TypeOK
<1>2. Cardinality(Held') = Cardinality(Held) - 1
  BY LetsGo
<1>3. active = Cardinality(Held) + lost
  BY DEF SlotsExact, Held
<1>4. active' = Cardinality(Held') + lost'
  BY <1>1, <1>2, <1>3, HeldCount DEF TypeOK
<1>5. QED
  BY <1>4 DEF SlotsExact, Held

LEMMA LosesSlot ==
    ASSUME TypeOK, SlotsExact, NEW r \in Requests, NEW s,
           at' = [at EXCEPT ![r] = s], at[r] \in Holding, s \notin Holding,
           active' = active, lost' = lost + 1
    PROVE  SlotsExact'
<1>1. Cardinality(Held') = Cardinality(Held) - 1
  BY LetsGo
<1>2. active = Cardinality(Held) + lost
  BY DEF SlotsExact, Held
<1>3. active' = Cardinality(Held') + lost'
  BY <1>1, <1>2, HeldCount DEF TypeOK
<1>4. QED
  BY <1>3 DEF SlotsExact, Held

-----------------------------------------------------------------------------
(* Types *)

ThreadsOK ==
    /\ at \in [Requests -> Stages]
    /\ shape \in [Requests -> Shapes \cup {NoShape}]
    /\ \A r \in Requests : at[r] # "idle" => shape[r] \in Shapes
    /\ alias \in [Requests -> Aliases \cup {NoAlias}]
    /\ circuit \in [Requests -> Circuits \cup {NoAlias}]
    /\ tries \in [Requests -> 0..(Retries + 1)]

BreakersOK == breaker \in [Circuits -> [failures : 0..Threshold, cooling : BOOLEAN]]

CountsOK ==
    /\ active \in 0..MaxConcurrency /\ lost \in 0..MaxConcurrency
    /\ spent \in [Keys -> Nat] /\ cached \subseteq Keys \X Aliases

LEMMA TypeParts == /\ TypeOK <=> ThreadsOK /\ BreakersOK /\ CountsOK
                   /\ TypeOK' <=> ThreadsOK' /\ BreakersOK' /\ CountsOK'
  BY DEF TypeOK, ThreadsOK, BreakersOK, CountsOK

\* A shape of a request is one of the constants' shapes.
LEMMA ShapeKnown ==
    ASSUME ThreadsOK, NEW r \in Requests, at[r] # "idle"
    PROVE  /\ shape[r].alias \in Aliases /\ shape[r].key \in Keys
           /\ shape[r].metered \in BOOLEAN /\ shape[r].kind \in Kinds
           /\ CircuitOf[shape[r].alias] \in Circuits
  BY RelayAssumption DEF ThreadsOK, Shape

\* A thread past the limits reports to a breaker.
LEMMA CircuitKnown ==
    ASSUME Calls, NEW r \in Requests, at[r] \notin {"idle", "admitted"}
    PROVE  alias[r] \in Aliases /\ circuit[r] \in Circuits
  BY RelayAssumption DEF Calls

\* A fallback is an alias.
LEMMA FallbackKnown ==
    ASSUME NEW r \in Requests, NEW a \in Aliases, Fallback(r, a) # NoAlias
    PROVE  /\ Fallback(r, a) \in Aliases /\ Fallback(r, a) = FallbackOf[a]
           /\ CircuitOf[Fallback(r, a)] \in Circuits
  BY RelayAssumption DEF Fallback

LEMMA EndTypes ==
    ASSUME ThreadsOK, NEW r \in Requests, End(r)
    PROVE  ThreadsOK'
  BY RelayAssumption DEF ThreadsOK, End, Stages, Holding

LEMMA GotoTypes ==
    ASSUME ThreadsOK, NEW r \in Requests, NEW s \in Stages, at[r] # "idle", Goto(r, s)
    PROVE  ThreadsOK'
  BY DEF ThreadsOK, Goto

LEMMA NoteTypes ==
    ASSUME BreakersOK, NEW c \in Circuits, NoteFailure(c) \/ NoteSuccess(c)
    PROVE  BreakersOK'
<1>1. Threshold \in Nat \ {0}
  BY RelayAssumption
<1>2. CASE NoteFailure(c)
  BY <1>1, <1>2 DEF BreakersOK, NoteFailure
<1>3. CASE NoteSuccess(c)
  BY <1>1, <1>3 DEF BreakersOK, NoteSuccess, Closed
<1>4. QED
  BY <1>2, <1>3

LEMMA ReleaseTypes ==
    ASSUME CountsOK, Release
    PROVE  active' \in 0..MaxConcurrency
  BY RelayAssumption DEF CountsOK, Release

\* What a thread does keeps the types of the threads.
LEMMA StepThreads ==
    ASSUME TypeOK, Calls, NEW r \in Requests, Step(r)
    PROVE  ThreadsOK'
<1>1. ThreadsOK /\ Retries \in Nat
  BY TypeParts, RelayAssumption
<1>2. CASE End(r)
  BY <1>1, <1>2, EndTypes
<1>3. CASE Queue(r)
  BY <1>1, <1>3, ShapeKnown DEF Queue, ThreadsOK, Stages
<1>4. CASE Acquire(r)
  BY <1>1, <1>4 DEF Acquire, Attempts, ThreadsOK, Stages, Holding
<1>5. ASSUME NEW a \in Aliases, at[r] # "idle", Connected(r, a)
      PROVE  ThreadsOK'
  <2>1. CircuitOf[a] \in Circuits
    BY RelayAssumption
  <2>2. QED
    BY <1>1, <1>5, <2>1 DEF Connected, AnsweringCircuit, ThreadsOK, Stages, Holding
<1>6. CASE Connect(r)
  BY <1>5, <1>6, CircuitKnown DEF Connect
<1>7. CASE Retry(r)
  BY <1>1, <1>7 DEF Retry, ThreadsOK
<1>8. CASE ConnectFails(r)
  <2>1. CASE Fallback(r, alias[r]) # NoAlias
    BY <1>1, <1>8, <2>1 DEF ConnectFails, ThreadsOK, Stages, Holding
  <2>2. QED
    BY <1>2, <1>8, <2>1 DEF ConnectFails
<1>9. CASE FallbackConnects(r)
  <2>1. at[r] = "falling" /\ Fallback(r, alias[r]) # NoAlias
    BY <1>9 DEF FallbackConnects, Calls
  <2>2. Fallback(r, alias[r]) \in Aliases
    BY <2>1, CircuitKnown, FallbackKnown
  <2>3. QED
    BY <1>5, <1>9, <2>1, <2>2 DEF FallbackConnects
<1>10. CASE ProbeAnswers(r)
  BY <1>1, <1>10, GotoTypes DEF ProbeAnswers, Stages, Holding
<1>11. CASE FallbackAnswers(r)
  <2>1. at[r] = "retelling" /\ Fallback(r, alias[r]) # NoAlias
    BY <1>11 DEF FallbackAnswers, Calls
  <2>2. /\ Fallback(r, alias[r]) \in Aliases
        /\ CircuitOf[Fallback(r, alias[r])] \in Circuits
    BY <2>1, CircuitKnown, FallbackKnown
  <2>3. QED
    BY <1>1, <1>11, <2>2 DEF FallbackAnswers, AnsweringCircuit, ThreadsOK, Stages, Holding
<1>12. ASSUME GivesUp(r), at[r] # "idle"
       PROVE  ThreadsOK'
  BY <1>1, <1>2, <1>12, GotoTypes DEF GivesUp, Stages, Holding
<1>13. ASSUME NEW capacity \in BOOLEAN, ProbeFails(r, capacity)
       PROVE  ThreadsOK'
  BY <1>1, <1>12, <1>13, GotoTypes DEF ProbeFails, Stages, Holding
<1>14. ASSUME NEW capacity \in BOOLEAN, FallbackSilent(r, capacity)
       PROVE  ThreadsOK'
  BY <1>12, <1>14 DEF FallbackSilent
<1>15. QED
  <2>1. Refuse(r) \/ TurnAway(r) \/ GateTimeout(r) \/ Unprepared(r) \/ FallbackFails(r)
            \/ BodyLost(r) \/ SupportFails(r) => End(r)
    BY DEF Refuse, TurnAway, GateTimeout, Unprepared, FallbackFails, BodyLost, SupportFails
  <2>2. /\ \A n \in Usages, full \in {"none", "shared", "model"} : Answer(r, n, full) => End(r)
        /\ \A how \in Endings : StreamEnds(r, how) => End(r)
        /\ \A n \in Usages : Support(r, n) => End(r)
    BY DEF Answer, StreamEnds, Support
  <2>3. QED
    BY <1>2, <1>3, <1>4, <1>6, <1>7, <1>8, <1>9, <1>10, <1>11, <1>13, <1>14,
       <2>1, <2>2 DEF Step

-----------------------------------------------------------------------------
(* Breakers and counts *)

\* A thread notes only the breakers of its alias and of its fallback.
LEMMA StepBreakers ==
    ASSUME TypeOK, Calls, NEW r \in Requests, Step(r)
    PROVE  BreakersOK'
<1>1. BreakersOK
  BY TypeParts
<1>2. CASE UNCHANGED breaker
  BY <1>1, <1>2 DEF BreakersOK
<1>3. CASE ConnectFails(r)
  <2>1. circuit[r] \in Circuits
    BY <1>3, CircuitKnown DEF ConnectFails
  <2>2. QED
    BY <1>1, <1>2, <1>3, <2>1, NoteTypes DEF ConnectFails
<1>4. CASE FallbackFails(r)
  BY <1>1, <1>4, CircuitKnown, NoteTypes DEF FallbackFails
<1>5. ASSUME NEW n \in Usages, NEW full \in {"none", "shared", "model"}, Answer(r, n, full)
      PROVE  BreakersOK'
  BY <1>1, <1>5, CircuitKnown, NoteTypes DEF Answer
<1>6. ASSUME NEW capacity \in BOOLEAN, ProbeFails(r, capacity)
      PROVE  BreakersOK'
  <2>1. circuit[r] \in Circuits
    BY <1>6, CircuitKnown DEF ProbeFails
  <2>2. QED
    BY <1>1, <1>2, <1>6, <2>1, NoteTypes DEF ProbeFails, NoteUnless
<1>7. ASSUME NEW capacity \in BOOLEAN, FallbackSilent(r, capacity)
      PROVE  BreakersOK'
  <2>1. at[r] = "retelling" /\ Fallback(r, alias[r]) # NoAlias
    BY <1>7 DEF FallbackSilent, Calls
  <2>2. CircuitOf[Fallback(r, alias[r])] \in Circuits
    BY <2>1, CircuitKnown, FallbackKnown
  <2>3. QED
    BY <1>1, <1>2, <1>7, <2>2, NoteTypes DEF FallbackSilent, NoteUnless
<1>8. ASSUME NEW how \in Endings, StreamEnds(r, how)
      PROVE  BreakersOK'
  <2>1. circuit[r] \in Circuits
    BY <1>8, CircuitKnown DEF StreamEnds
  <2>2. NoteSuccess(circuit[r]) \/ NoteFailure(circuit[r]) \/ UNCHANGED breaker
    BY <1>8 DEF StreamEnds
  <2>3. QED
    BY <1>1, <1>2, <2>1, <2>2, NoteTypes
<1>9. QED
  <2>1. \/ Refuse(r) \/ TurnAway(r) \/ Queue(r) \/ Acquire(r) \/ GateTimeout(r)
        \/ Connect(r) \/ Unprepared(r) \/ Retry(r) \/ FallbackConnects(r) \/ BodyLost(r)
        \/ ProbeAnswers(r) \/ FallbackAnswers(r) \/ SupportFails(r)
        => UNCHANGED breaker
    BY DEF Refuse, TurnAway, Queue, Acquire, GateTimeout, Connect, Connected, Unprepared,
           Retry, FallbackConnects, BodyLost, ProbeAnswers, FallbackAnswers, SupportFails
  <2>2. \A n \in Usages : Support(r, n) => UNCHANGED breaker
    BY DEF Support
  <2>3. QED
    BY <1>2, <1>3, <1>4, <1>5, <1>6, <1>7, <1>8, <2>1, <2>2 DEF Step

\* The gate's count and the history stay in range, and so do the budgets and the cache.
LEMMA StepCounts ==
    ASSUME TypeOK, Calls, SlotsExact, NEW r \in Requests, Step(r)
    PROVE  CountsOK'
<1>1. CountsOK /\ ThreadsOK /\ MaxConcurrency \in Nat /\ Usages \subseteq Nat
  BY TypeParts, RelayAssumption
<1>2. ASSUME active' = active \/ Release, UNCHANGED <<lost, spent, cached>>
      PROVE  CountsOK'
  BY <1>1, <1>2, ReleaseTypes DEF CountsOK
<1>3. CASE Acquire(r)
  BY <1>1, <1>3 DEF Acquire, HasSlot, CountsOK
<1>4. ASSUME NEW n \in Usages, NEW full \in {"none", "shared", "model"}, Answer(r, n, full)
      PROVE  CountsOK'
  <2>1. n \in Nat /\ shape[r].key \in Keys /\ CacheKey(r) \in Keys \X Aliases
    BY <1>1, <1>4, ShapeKnown DEF Answer, CacheKey
  <2>2. spent' \in [Keys -> Nat]
    BY <1>1, <1>4, <2>1 DEF Answer, CountsOK
  <2>3. cached' \subseteq Keys \X Aliases
    BY <1>1, <1>4, <2>1 DEF Answer, CountsOK
  <2>4. QED
    BY <1>1, <1>4, <2>2, <2>3 DEF Answer, CountsOK
<1>5. ASSUME NEW n \in Usages, Support(r, n)
      PROVE  CountsOK'
  <2>1. n \in Nat /\ shape[r].key \in Keys
    BY <1>1, <1>5, ShapeKnown DEF Support
  <2>2. spent' \in [Keys -> Nat]
    BY <1>1, <1>5, <2>1 DEF Support, CountsOK
  <2>3. QED
    BY <1>1, <1>5, <2>2, ReleaseTypes DEF Support, CountsOK
<1>6. ASSUME GivesUp(r), at[r] \in Holding, UNCHANGED <<spent, cached>>
      PROVE  CountsOK'
  <2>1. lost < MaxConcurrency
    BY <1>6, SlotInUse
  <2>2. lost' \in 0..MaxConcurrency /\ (active' = active \/ Release)
    BY <1>1, <1>6, <2>1 DEF GivesUp, CountsOK
  <2>3. QED
    BY <1>1, <1>6, <2>2, ReleaseTypes DEF CountsOK
<1>7. ASSUME NEW capacity \in BOOLEAN, ProbeFails(r, capacity) \/ FallbackSilent(r, capacity)
      PROVE  CountsOK'
  <2>1. at[r] \in Holding /\ UNCHANGED <<spent, cached>>
    BY <1>7 DEF ProbeFails, FallbackSilent, Holding
  <2>2. GivesUp(r) \/ UNCHANGED <<active, lost>>
    BY <1>7 DEF ProbeFails, FallbackSilent
  <2>3. QED
    BY <1>2, <1>6, <2>1, <2>2
<1>8. QED
  <2>1. Refuse(r) \/ TurnAway(r) \/ Queue(r) \/ GateTimeout(r) \/ Connect(r) \/ Unprepared(r)
            \/ Retry(r) \/ ConnectFails(r) \/ FallbackConnects(r) \/ FallbackFails(r)
            \/ BodyLost(r) \/ ProbeAnswers(r) \/ FallbackAnswers(r) \/ SupportFails(r)
        => (active' = active \/ Release) /\ UNCHANGED <<lost, spent, cached>>
    BY DEF Refuse, TurnAway, Queue, GateTimeout, Connect, Connected, SlotAfterConnect,
           Unprepared, Retry, ConnectFails, FallbackConnects, FallbackFails, BodyLost,
           ProbeAnswers, FallbackAnswers, SupportFails
  <2>2. \A how \in Endings :
            StreamEnds(r, how) => Release /\ UNCHANGED <<lost, spent, cached>>
    BY DEF StreamEnds
  <2>3. QED
    BY <1>2, <1>3, <1>4, <1>5, <1>7, <2>1, <2>2 DEF Step

-----------------------------------------------------------------------------
(* Calls and slots *)

LEMMA EndCalls ==
    ASSUME ThreadsOK, Calls, NEW r \in Requests, End(r)
    PROVE  Calls'
  BY DEF ThreadsOK, Calls, End, Fallback

LEMMA GotoCalls ==
    ASSUME ThreadsOK, Calls, NEW r \in Requests, NEW s, Goto(r, s),
           at[r] \notin {"idle", "admitted"},
           s \in {"falling", "retelling"} => Fallback(r, alias[r]) # NoAlias
    PROVE  Calls'
  BY DEF ThreadsOK, Calls, Goto, Fallback

\* A thread that turns to an alias reports to that alias's breaker.
LEMMA ConnectedCalls ==
    ASSUME ThreadsOK, Calls, NEW r \in Requests, NEW a \in Aliases, Connected(r, a)
    PROVE  Calls'
  BY DEF ThreadsOK, Calls, Connected, AnsweringCircuit, Fallback

LEMMA StepCalls ==
    ASSUME TypeOK, Calls, NEW r \in Requests, Step(r)
    PROVE  Calls'
<1>1. ThreadsOK
  BY TypeParts
<1>2. CASE End(r)
  BY <1>1, <1>2, EndCalls
<1>3. CASE Queue(r)
  <2>1. shape[r].alias \in Aliases
    BY <1>1, <1>3, ShapeKnown DEF Queue
  <2>2. QED
    BY <1>1, <1>3, <2>1 DEF Queue, ThreadsOK, Calls, Fallback
<1>4. CASE Acquire(r)
  BY <1>1, <1>4 DEF Acquire, ThreadsOK, Calls, Fallback
<1>5. CASE Connect(r)
  BY <1>1, <1>5, ConnectedCalls, CircuitKnown DEF Connect
<1>6. CASE Retry(r)
  BY <1>6 DEF Retry, Calls, Fallback
<1>7. CASE ConnectFails(r)
  <2>1. CASE Fallback(r, alias[r]) # NoAlias
    BY <1>1, <1>7, <2>1 DEF ConnectFails, ThreadsOK, Calls, Fallback
  <2>2. QED
    BY <1>2, <1>7, <2>1 DEF ConnectFails
<1>8. CASE FallbackConnects(r)
  <2>1. at[r] = "falling" /\ Fallback(r, alias[r]) # NoAlias
    BY <1>8 DEF FallbackConnects, Calls
  <2>2. Fallback(r, alias[r]) \in Aliases
    BY <2>1, CircuitKnown, FallbackKnown
  <2>3. QED
    BY <1>1, <1>8, <2>2, ConnectedCalls DEF FallbackConnects
<1>9. CASE ProbeAnswers(r)
  BY <1>1, <1>9, GotoCalls DEF ProbeAnswers
<1>10. CASE FallbackAnswers(r)
  <2>1. at[r] = "retelling" /\ Fallback(r, alias[r]) # NoAlias
    BY <1>10 DEF FallbackAnswers, Calls
  <2>2. Fallback(r, alias[r]) \in Aliases
    BY <2>1, CircuitKnown, FallbackKnown
  <2>3. QED
    BY <1>1, <1>10, <2>2 DEF FallbackAnswers, AnsweringCircuit, ThreadsOK, Calls, Fallback
<1>11. ASSUME NEW capacity \in BOOLEAN, ProbeFails(r, capacity)
       PROVE  Calls'
  BY <1>1, <1>2, <1>11, GotoCalls DEF ProbeFails, GivesUp
<1>12. ASSUME NEW capacity \in BOOLEAN, FallbackSilent(r, capacity)
       PROVE  Calls'
  BY <1>1, <1>2, <1>12, GotoCalls DEF FallbackSilent, GivesUp
<1>13. QED
  <2>1. Refuse(r) \/ TurnAway(r) \/ GateTimeout(r) \/ Unprepared(r) \/ FallbackFails(r)
            \/ BodyLost(r) \/ SupportFails(r) => End(r)
    BY DEF Refuse, TurnAway, GateTimeout, Unprepared, FallbackFails, BodyLost, SupportFails
  <2>2. /\ \A n \in Usages, full \in {"none", "shared", "model"} : Answer(r, n, full) => End(r)
        /\ \A how \in Endings : StreamEnds(r, how) => End(r)
        /\ \A n \in Usages : Support(r, n) => End(r)
    BY DEF Answer, StreamEnds, Support
  <2>3. QED
    BY <1>2, <1>3, <1>4, <1>5, <1>6, <1>7, <1>8, <1>9, <1>10, <1>11, <1>12,
       <2>1, <2>2 DEF Step

\* The slot of a thread is given back when it leaves the stages that hold one, or is lost.
LEMMA StepSlots ==
    ASSUME TypeOK, Calls, SlotsExact, NEW r \in Requests, Step(r)
    PROVE  SlotsExact'
<1>1. CASE Refuse(r) \/ TurnAway(r) \/ GateTimeout(r) \/ BodyLost(r)
  BY <1>1, SameSlots DEF Refuse, TurnAway, GateTimeout, BodyLost, End, Holding
<1>2. ASSUME NEW n \in Usages, NEW full \in {"none", "shared", "model"}, Answer(r, n, full)
      PROVE  SlotsExact'
  BY <1>2, SameSlots DEF Answer, End, Holding
<1>3. CASE Queue(r)
  BY <1>3, SameSlots DEF Queue, Holding
<1>4. CASE Acquire(r)
  BY <1>4, TakesSlot DEF Acquire, Holding
<1>5. CASE Unprepared(r) \/ FallbackFails(r) \/ SupportFails(r)
  BY <1>5, GivesSlot DEF Unprepared, FallbackFails, SupportFails, End, Holding
<1>6. ASSUME NEW how \in Endings, StreamEnds(r, how)
      PROVE  SlotsExact'
  BY <1>6, GivesSlot DEF StreamEnds, End, Holding
<1>7. ASSUME NEW n \in Usages, Support(r, n)
      PROVE  SlotsExact'
  BY <1>7, GivesSlot DEF Support, End, Holding
<1>8. ASSUME NEW a, at[r] \in {"calling", "falling"}, Connected(r, a)
      PROVE  SlotsExact'
  <2>1. CASE shape[r].kind = "stream"
    BY <1>8, <2>1, SameSlots DEF Connected, SlotAfterConnect, Holding
  <2>2. CASE shape[r].kind # "stream"
    BY <1>8, <2>2, GivesSlot DEF Connected, SlotAfterConnect, Holding
  <2>3. QED
    BY <2>1, <2>2
<1>9. CASE Connect(r) \/ FallbackConnects(r)
  BY <1>8, <1>9 DEF Connect, FallbackConnects
<1>10. CASE Retry(r)
  BY <1>10 DEF Retry, SlotsExact
<1>11. CASE ConnectFails(r)
  <2>1. CASE Fallback(r, alias[r]) # NoAlias
    BY <1>11, <2>1, SameSlots DEF ConnectFails, Holding
  <2>2. CASE Fallback(r, alias[r]) = NoAlias
    BY <1>11, <2>2, GivesSlot DEF ConnectFails, End, Holding
  <2>3. QED
    BY <2>1, <2>2
<1>12. CASE ProbeAnswers(r)
  BY <1>12, SameSlots DEF ProbeAnswers, Goto, Holding
<1>13. CASE FallbackAnswers(r)
  BY <1>13, SameSlots DEF FallbackAnswers, Holding
<1>14. ASSUME GivesUp(r), at[r] \in {"probing", "retelling"}
       PROVE  SlotsExact'
  <2>1. CASE End(r) /\ Release /\ UNCHANGED lost
    BY <1>14, <2>1, GivesSlot DEF End, Holding
  <2>2. CASE Goto(r, "streaming") /\ UNCHANGED <<active, lost>>
    BY <1>14, <2>2, SameSlots DEF Goto, Holding
  <2>3. CASE End(r) /\ lost' = lost + 1 /\ UNCHANGED active
    BY <1>14, <2>3, LosesSlot DEF End, Holding
  <2>4. QED
    BY <1>14, <2>1, <2>2, <2>3 DEF GivesUp
<1>15. ASSUME NEW capacity \in BOOLEAN, ProbeFails(r, capacity)
       PROVE  SlotsExact'
  <2>1. CASE Goto(r, "retelling") /\ UNCHANGED <<active, lost>>
    BY <1>15, <2>1, SameSlots DEF ProbeFails, Goto, Holding
  <2>2. QED
    BY <1>14, <1>15, <2>1 DEF ProbeFails
<1>16. ASSUME NEW capacity \in BOOLEAN, FallbackSilent(r, capacity)
       PROVE  SlotsExact'
  BY <1>14, <1>16 DEF FallbackSilent
<1>17. QED
  BY <1>1, <1>2, <1>3, <1>4, <1>5, <1>6, <1>7, <1>9, <1>10, <1>11, <1>12, <1>13, <1>15,
     <1>16 DEF Step

-----------------------------------------------------------------------------
(* The invariant *)

\* What happens to the shared state beside the threads.
Others ==
    \/ \E c \in Circuits : Cooldown(c)
    \/ \E e \in cached : Evict(e)
    \/ ClearCache
    \/ NewDay

LEMMA NextParts ==
    Next <=> \/ \E r \in Requests : Step(r) \/ \E s \in Shapes : Admit(r, s)
             \/ Others
  BY DEF Next, Others

LEMMA OthersKeep ==
    ASSUME IInv, Others
    PROVE  IInv' /\ UNCHANGED thread
<1>1. UNCHANGED <<thread, active, lost>>
  BY DEF Others, Cooldown, Evict, ClearCache, NewDay
<1>2. BreakersOK'
  BY TypeParts DEF IInv, BreakersOK, Others, Cooldown, Evict, ClearCache, NewDay
<1>3. CountsOK'
  BY <1>1, TypeParts DEF IInv, CountsOK, Others, Cooldown, Evict, ClearCache, NewDay
<1>4. ThreadsOK' /\ Calls' /\ SlotsExact'
  BY <1>1, TypeParts DEF IInv, thread, ThreadsOK, Calls, Fallback, SlotsExact
<1>5. QED
  BY <1>1, <1>2, <1>3, <1>4, TypeParts DEF IInv

LEMMA AdmitKeeps ==
    ASSUME IInv, NEW r \in Requests, NEW s \in Shapes, Admit(r, s)
    PROVE  IInv'
<1>1. ThreadsOK'
  BY TypeParts DEF IInv, Admit, ThreadsOK, Stages
<1>2. BreakersOK' /\ CountsOK'
  BY TypeParts DEF IInv, Admit, BreakersOK, CountsOK
<1>3. Calls'
  BY TypeParts DEF IInv, Admit, ThreadsOK, Calls, Fallback
<1>4. SlotsExact'
  BY SameSlots DEF IInv, Admit, Holding
<1>5. QED
  BY <1>1, <1>2, <1>3, <1>4, TypeParts DEF IInv

LEMMA InitInv == Init => IInv
<1>1. SUFFICES ASSUME Init PROVE IInv
  OBVIOUS
<1>2. ThreadsOK
  BY <1>1, RelayAssumption DEF Init, ThreadsOK, Stages
<1>3. BreakersOK /\ CountsOK
  BY <1>1, RelayAssumption DEF Init, BreakersOK, CountsOK, Closed
<1>4. Calls
  BY <1>1 DEF Init, Calls
<1>5. SlotsExact
  <2>1. Held = {}
    BY <1>1 DEF Init, Held, Holding
  <2>2. Cardinality(Held) = 0
    BY <2>1, FS_EmptySet
  <2>3. active = Cardinality(Held) + lost
    BY <1>1, <2>2 DEF Init
  <2>4. QED
    BY <2>3 DEF SlotsExact, Held
<1>6. QED
  BY <1>2, <1>3, <1>4, <1>5, TypeParts DEF IInv

LEMMA StepInv == IInv /\ [Next]_vars => IInv'
<1>1. SUFFICES ASSUME IInv, [Next]_vars PROVE IInv'
  OBVIOUS
<1>2. ASSUME NEW r \in Requests, Step(r)
      PROVE  IInv'
  BY <1>1, <1>2, StepThreads, StepBreakers, StepCounts, StepCalls, StepSlots, TypeParts DEF IInv
<1>3. CASE UNCHANGED vars
  BY <1>1, <1>3 DEF IInv, vars, thread, TypeOK, Calls, Fallback, SlotsExact
<1>4. QED
  BY <1>1, <1>2, <1>3, NextParts, AdmitKeeps, OthersKeep

\* The invariant of the request path.
THEOREM Invariant == Spec => []IInv
<1>1. QED
  BY InitInv, StepInv, PTL DEF Spec

\* The relay's state keeps its types; no more slots are lost than there are.
THEOREM TypeCorrect == Spec => []TypeOK
<1>1. IInv => TypeOK
  BY DEF IInv
<1>2. QED
  BY <1>1, Invariant, PTL

\* The gate counts exactly the threads that hold a slot and the slots that were lost
\* with a thread (acquire and release in chat.py and support.py).
THEOREM SlotsCounted == Spec => []SlotsExact
<1>1. IInv => SlotsExact
  BY DEF IInv
<1>2. QED
  BY <1>1, Invariant, PTL

-----------------------------------------------------------------------------
(* Breakers judge their own upstream *)

Clears(c) == breaker'[c].failures < breaker[c].failures
Adds(c) == breaker'[c].failures > breaker[c].failures

\* Who may clear the breaker c, and who may add a failure to it.
MayClear(c) ==
    \E r \in Requests : /\ at[r] \in {"reading", "streaming"} /\ at'[r] = "idle"
                        /\ CircuitOf[alias[r]] = c
MayAdd(c) ==
    \E r \in Requests : /\ at[r] \in Holding /\ at'[r] # at[r]
                        /\ \/ CircuitOf[alias[r]] = c
                           \/ at[r] = "retelling" /\ CircuitOf[FallbackOf[alias[r]]] = c

OwnOnly == \A c \in Circuits : (Clears(c) => MayClear(c)) /\ (Adds(c) => MayAdd(c))

LEMMA FailuresAreNumbers ==
    ASSUME TypeOK, NEW c \in Circuits
    PROVE  breaker[c].failures \in 0..Threshold /\ Threshold \in Nat
  BY RelayAssumption DEF TypeOK

LEMMA NoteSuccessOnly ==
    ASSUME TypeOK, NEW d \in Circuits, NoteSuccess(d), NEW c \in Circuits
    PROVE  ~Adds(c) /\ (Clears(c) => c = d)
  BY FailuresAreNumbers DEF TypeOK, NoteSuccess, Closed, Adds, Clears

LEMMA NoteFailureOnly ==
    ASSUME TypeOK, NEW d \in Circuits, NoteFailure(d), NEW c \in Circuits
    PROVE  ~Clears(c) /\ (Adds(c) => c = d)
  BY FailuresAreNumbers DEF TypeOK, NoteFailure, Adds, Clears

\* An answer clears its upstream's breaker.
LEMMA AnsweredJudges ==
    ASSUME IInv, NEW r \in Requests, at[r] \in {"reading", "streaming"}, End(r),
           NoteSuccess(circuit[r])
    PROVE  OwnOnly
<1>1. circuit[r] \in Circuits /\ circuit[r] = CircuitOf[alias[r]]
  BY CircuitKnown DEF IInv, Calls
<1>2. at'[r] = "idle"
  BY DEF IInv, TypeOK, End
<1>3. QED
  BY <1>1, <1>2, NoteSuccessOnly DEF IInv, OwnOnly, MayClear

\* A failure counts against the upstream that was called.
LEMMA FailedJudges ==
    ASSUME IInv, NEW r \in Requests, at[r] \in Holding, at'[r] # at[r],
           NEW d \in Circuits, NoteFailure(d),
           d = circuit[r] \/ (at[r] = "retelling" /\ d = CircuitOf[FallbackOf[alias[r]]])
    PROVE  OwnOnly
<1>1. circuit[r] = CircuitOf[alias[r]]
  BY DEF IInv, Calls, Holding
<1>2. QED
  BY <1>1, NoteFailureOnly DEF IInv, OwnOnly, MayAdd

LEMMA EndMoves ==
    ASSUME TypeOK, NEW r \in Requests, at[r] # "idle", End(r)
    PROVE  at'[r] # at[r]
  BY DEF TypeOK, End

LEMMA GotoMoves ==
    ASSUME TypeOK, NEW r \in Requests, NEW s, at[r] # s, Goto(r, s)
    PROVE  at'[r] # at[r]
  BY DEF TypeOK, Goto

LEMMA GivesUpMoves ==
    ASSUME TypeOK, NEW r \in Requests, at[r] \in {"probing", "retelling"}, GivesUp(r)
    PROVE  at'[r] # at[r]
  BY EndMoves, GotoMoves DEF GivesUp

LEMMA StepJudges ==
    ASSUME IInv, NEW r \in Requests, Step(r)
    PROVE  OwnOnly
<1>1. TypeOK /\ Calls
  BY DEF IInv
<1>2. CASE UNCHANGED breaker
  BY <1>1, <1>2, FailuresAreNumbers DEF OwnOnly, Clears, Adds
<1>3. CASE ConnectFails(r)
  <2>1. at[r] = "calling" /\ circuit[r] \in Circuits
    BY <1>1, <1>3, CircuitKnown DEF ConnectFails
  <2>2. CASE End(r) /\ NoteFailure(circuit[r])
    BY <1>1, <2>1, <2>2, EndMoves, FailedJudges DEF Holding
  <2>3. QED
    BY <1>2, <1>3, <2>2 DEF ConnectFails
<1>4. CASE FallbackFails(r)
  <2>1. at[r] = "falling" /\ circuit[r] \in Circuits
    BY <1>1, <1>4, CircuitKnown DEF FallbackFails
  <2>2. QED
    BY <1>1, <1>4, <2>1, EndMoves, FailedJudges DEF FallbackFails, Holding
<1>5. ASSUME NEW n \in Usages, NEW full \in {"none", "shared", "model"}, Answer(r, n, full)
      PROVE  OwnOnly
  BY <1>5, AnsweredJudges DEF Answer
<1>6. ASSUME NEW capacity \in BOOLEAN, ProbeFails(r, capacity)
      PROVE  OwnOnly
  <2>1. at[r] = "probing" /\ circuit[r] \in Circuits
    BY <1>1, <1>6, CircuitKnown DEF ProbeFails
  <2>2. at'[r] # at[r]
    BY <1>1, <1>6, <2>1, GotoMoves, GivesUpMoves DEF ProbeFails
  <2>3. QED
    BY <1>2, <1>6, <2>1, <2>2, FailedJudges DEF ProbeFails, NoteUnless, Holding
<1>7. ASSUME NEW capacity \in BOOLEAN, FallbackSilent(r, capacity)
      PROVE  OwnOnly
  <2>1. at[r] = "retelling" /\ Fallback(r, alias[r]) # NoAlias
    BY <1>1, <1>7 DEF FallbackSilent, Calls
  <2>2. /\ CircuitOf[Fallback(r, alias[r])] \in Circuits
        /\ Fallback(r, alias[r]) = FallbackOf[alias[r]]
    BY <1>1, <2>1, CircuitKnown, FallbackKnown
  <2>3. at'[r] # at[r]
    BY <1>1, <1>7, <2>1, GivesUpMoves DEF FallbackSilent
  <2>4. QED
    BY <1>2, <1>7, <2>1, <2>2, <2>3, FailedJudges DEF FallbackSilent, NoteUnless, Holding
<1>8. ASSUME NEW how \in Endings, StreamEnds(r, how)
      PROVE  OwnOnly
  <2>1. at[r] = "streaming" /\ End(r) /\ circuit[r] \in Circuits
    BY <1>1, <1>8, CircuitKnown DEF StreamEnds
  <2>2. CASE NoteSuccess(circuit[r])
    BY <2>1, <2>2, AnsweredJudges
  <2>3. CASE NoteFailure(circuit[r])
    BY <1>1, <2>1, <2>3, EndMoves, FailedJudges DEF Holding
  <2>4. QED
    BY <1>2, <1>8, <2>2, <2>3 DEF StreamEnds
<1>9. QED
  <2>1. \/ Refuse(r) \/ TurnAway(r) \/ Queue(r) \/ Acquire(r) \/ GateTimeout(r)
        \/ Connect(r) \/ Unprepared(r) \/ Retry(r) \/ FallbackConnects(r) \/ BodyLost(r)
        \/ ProbeAnswers(r) \/ FallbackAnswers(r) \/ SupportFails(r)
        => UNCHANGED breaker
    BY DEF Refuse, TurnAway, Queue, Acquire, GateTimeout, Connect, Connected, Unprepared,
           Retry, FallbackConnects, BodyLost, ProbeAnswers, FallbackAnswers, SupportFails
  <2>2. \A n \in Usages : Support(r, n) => UNCHANGED breaker
    BY DEF Support
  <2>3. QED
    BY <1>2, <1>3, <1>4, <1>5, <1>6, <1>7, <1>8, <2>1, <2>2 DEF Step

\* A breaker is cleared only by an answer of its own upstream, and only a request that
\* called that upstream in vain adds to its failures.
THEOREM BreakersJudgeTheirOwn == Spec => BreakerJudgesItsOwn
<1>1. IInv /\ [Next]_vars => [OwnOnly]_vars
  <2>1. SUFFICES ASSUME IInv, Next PROVE OwnOnly
    OBVIOUS
  <2>2. TypeOK
    BY <2>1 DEF IInv
  <2>3. ASSUME NEW r \in Requests, NEW s \in Shapes, Admit(r, s)
        PROVE  OwnOnly
    BY <2>2, <2>3, FailuresAreNumbers DEF Admit, OwnOnly, Clears, Adds
  <2>4. ASSUME Others
        PROVE  OwnOnly
    <3>1. \A c \in Circuits : breaker'[c].failures = breaker[c].failures
      BY <2>2, <2>4 DEF TypeOK, Others, Cooldown, Evict, ClearCache, NewDay
    <3>2. QED
      BY <2>2, <3>1, FailuresAreNumbers DEF OwnOnly, Clears, Adds
  <2>5. QED
    BY <2>1, <2>3, <2>4, NextParts, StepJudges
<1>2. OwnOnly =>
        \A c \in Circuits :
        /\ breaker'[c].failures < breaker[c].failures =>
               \E r \in Requests :
                   /\ at[r] \in {"reading", "streaming"} /\ at'[r] = "idle"
                   /\ CircuitOf[alias[r]] = c
        /\ breaker'[c].failures > breaker[c].failures =>
               \E r \in Requests :
                   /\ at[r] \in Holding /\ at'[r] # at[r]
                   /\ \/ CircuitOf[alias[r]] = c
                      \/ at[r] = "retelling" /\ CircuitOf[FallbackOf[alias[r]]] = c
  BY DEF OwnOnly, Clears, Adds, MayClear, MayAdd
<1>3. QED
  BY <1>1, <1>2, Invariant, PTL DEF Spec, BreakerJudgesItsOwn, OwnOnly, Clears, Adds, MayClear, MayAdd

-----------------------------------------------------------------------------
(* The daily budget *)

\* The requests that were let in on the key and are not answered yet.
InFlight(k) == {r \in Requests : at[r] # "idle" /\ shape[r].key = k}

\* What a key has spent and what its requests in flight may still cost, at most `most`
\* each, stays below the limit and the cost of every thread.
Headroom ==
    \A k \in Keys : \A most \in Usages :
        (\A n \in Usages : n <= most) =>
            spent[k] + most * Cardinality(InFlight(k))
                < DayLimit + most * Cardinality(Requests)

LEMMA Products ==
    /\ \A a, b, c \in Nat : b <= c => a * b <= a * c
    /\ \A a, b \in Nat : b > 0 => a * (b - 1) + a = a * b
    /\ \A a, b \in Nat : a * b \in Nat
<1>1. \A a, b, c \in Nat : b <= c => a * b <= a * c
  <2>1. SUFFICES ASSUME NEW a \in Nat, NEW b \in Nat, NEW c \in Nat, b <= c
                 PROVE  a * b <= a * c
    OBVIOUS
  <2>2. c - b \in Nat /\ a * (c - b) = a * c - a * b
    BY <2>1
  <2>3. a * (c - b) >= 0
    BY <2>2
  <2>4. QED
    BY <2>2, <2>3
<1>2. \A a, b \in Nat : b > 0 => a * (b - 1) + a = a * b
  OBVIOUS
<1>3. \A a, b \in Nat : a * b \in Nat
  OBVIOUS
<1>4. QED
  BY <1>1, <1>2, <1>3

LEMMA InFlightCount ==
    ASSUME NEW k
    PROVE  /\ IsFiniteSet(InFlight(k)) /\ Cardinality(InFlight(k)) \in Nat
           /\ Cardinality(InFlight(k)) <= Cardinality(Requests)
           /\ IsFiniteSet(InFlight(k)') /\ Cardinality(InFlight(k)') \in Nat
           /\ Cardinality(InFlight(k)') <= Cardinality(Requests)
           /\ Cardinality(Requests) \in Nat
<1>1. InFlight(k) \in SUBSET Requests /\ InFlight(k)' \in SUBSET Requests
  BY DEF InFlight
<1>2. /\ IsFiniteSet(InFlight(k)) /\ Cardinality(InFlight(k)) <= Cardinality(Requests)
      /\ IsFiniteSet(InFlight(k)') /\ Cardinality(InFlight(k)') <= Cardinality(Requests)
  BY <1>1, FS_Subset, RelayAssumption
<1>3. QED
  BY <1>2, FS_CardinalityType, RelayAssumption

\* Requests that are answered make room, the others none.
LEMMA LoadDrops ==
    ASSUME NEW k, NEW most \in Nat, InFlight(k)' \subseteq InFlight(k)
    PROVE  most * Cardinality(InFlight(k)') <= most * Cardinality(InFlight(k))
<1>1. Cardinality(InFlight(k)') <= Cardinality(InFlight(k))
  BY InFlightCount, FS_Subset
<1>2. QED
  BY <1>1, InFlightCount, Products

LEMMA LoadOfOne ==
    ASSUME NEW k, NEW most \in Nat, NEW r \in InFlight(k), InFlight(k)' = InFlight(k) \ {r}
    PROVE  most * Cardinality(InFlight(k)') + most = most * Cardinality(InFlight(k))
<1>1. Cardinality(InFlight(k)') = Cardinality(InFlight(k)) - 1
  BY InFlightCount, FS_RemoveElement
<1>2. Cardinality(InFlight(k)) > 0
  BY InFlightCount, FS_EmptySet
<1>3. QED
  BY <1>1, <1>2, InFlightCount, Products

\* A step of a thread ends its request, or leaves what it asks for alone.
LEMMA StepOwnRequest ==
    ASSUME TypeOK, NEW r \in Requests, Step(r)
    PROVE  /\ at[r] # "idle" /\ \A q \in Requests \ {r} : at'[q] = at[q]
           /\ End(r) \/ UNCHANGED shape
<1>1. CASE Refuse(r) \/ TurnAway(r) \/ GateTimeout(r) \/ BodyLost(r) \/ Unprepared(r)
           \/ FallbackFails(r) \/ SupportFails(r)
  BY <1>1 DEF Refuse, TurnAway, GateTimeout, BodyLost, Unprepared, FallbackFails,
              SupportFails, End, TypeOK
<1>2. CASE Queue(r) \/ Acquire(r) \/ Connect(r) \/ Retry(r) \/ FallbackConnects(r)
           \/ ProbeAnswers(r) \/ FallbackAnswers(r)
  BY <1>2 DEF Queue, Acquire, Connect, Connected, Retry, FallbackConnects, ProbeAnswers,
              FallbackAnswers, Goto, TypeOK
<1>3. CASE ConnectFails(r)
  BY <1>3 DEF ConnectFails, End, TypeOK
<1>4. ASSUME NEW capacity \in BOOLEAN, ProbeFails(r, capacity) \/ FallbackSilent(r, capacity)
      PROVE  /\ at[r] # "idle" /\ \A q \in Requests \ {r} : at'[q] = at[q]
             /\ End(r) \/ UNCHANGED shape
  BY <1>4 DEF ProbeFails, FallbackSilent, GivesUp, Goto, End, TypeOK
<1>5. ASSUME NEW n \in Usages, Support(r, n)
      PROVE  at[r] # "idle" /\ End(r)
  BY <1>5 DEF Support
<1>6. ASSUME NEW n \in Usages, NEW full \in {"none", "shared", "model"}, Answer(r, n, full)
      PROVE  at[r] # "idle" /\ End(r)
  BY <1>6 DEF Answer
<1>7. ASSUME NEW how \in Endings, StreamEnds(r, how)
      PROVE  at[r] # "idle" /\ End(r)
  BY <1>7 DEF StreamEnds
<1>8. End(r) => \A q \in Requests \ {r} : at'[q] = at[q]
  BY DEF End, TypeOK
<1>9. QED
  BY <1>1, <1>2, <1>3, <1>4, <1>5, <1>6, <1>7, <1>8 DEF Step

\* No step of a thread puts a request in flight.
LEMMA NoneAdded ==
    ASSUME TypeOK, NEW r \in Requests, Step(r), NEW k
    PROVE  InFlight(k)' \subseteq InFlight(k)
<1>1. /\ at[r] # "idle" /\ \A q \in Requests \ {r} : at'[q] = at[q]
      /\ End(r) \/ UNCHANGED shape
  BY StepOwnRequest
<1>2. ASSUME NEW q \in Requests, at'[q] # "idle", shape'[q].key = k
      PROVE  at[q] # "idle" /\ shape[q].key = k
  BY <1>1, <1>2 DEF End, TypeOK
<1>3. QED
  BY <1>2 DEF InFlight

\* An answer of n tokens is paid from what its request had reserved.
LEMMA Paid ==
    ASSUME TypeOK, Headroom, NEW r \in Requests, at[r] # "idle", End(r), NEW n \in Usages,
           spent' = spent \/ spent' = [spent EXCEPT ![shape[r].key] = @ + n],
           \A k \in Keys : InFlight(k)' \subseteq InFlight(k)
    PROVE  Headroom'
<1>1. SUFFICES ASSUME NEW k \in Keys, NEW most \in Usages, \A i \in Usages : i <= most
               PROVE  spent'[k] + most * Cardinality(InFlight(k)')
                          < DayLimit + most * Cardinality(Requests)
  BY DEF Headroom, InFlight
<1>2. /\ most \in Nat /\ n \in Nat /\ n <= most /\ DayLimit \in Nat
      /\ spent[k] \in Nat
      /\ spent[k] + most * Cardinality(InFlight(k)) < DayLimit + most * Cardinality(Requests)
  BY <1>1, RelayAssumption DEF Headroom, TypeOK
<1>3. /\ most * Cardinality(InFlight(k)) \in Nat /\ most * Cardinality(InFlight(k)') \in Nat
      /\ most * Cardinality(Requests) \in Nat
  BY <1>2, InFlightCount, Products
<1>4. CASE spent'[k] = spent[k]
  <2>1. most * Cardinality(InFlight(k)') <= most * Cardinality(InFlight(k))
    BY <1>2, LoadDrops
  <2>2. QED
    BY <1>2, <1>3, <1>4, <2>1
<1>5. CASE shape[r].key = k /\ spent'[k] = spent[k] + n
  <2>1. r \in InFlight(k) /\ shape[r] \in Shapes
    BY <1>5 DEF InFlight, TypeOK
  <2>2. InFlight(k)' = InFlight(k) \ {r}
    BY DEF InFlight, End, TypeOK
  <2>3. most * Cardinality(InFlight(k)') + most = most * Cardinality(InFlight(k))
    BY <1>2, <2>1, <2>2, LoadOfOne
  <2>4. QED
    BY <1>2, <1>3, <1>5, <2>3
<1>6. QED
  BY <1>4, <1>5 DEF TypeOK

\* Nothing is spent and no request is let in.
LEMMA NothingSpent ==
    ASSUME TypeOK, Headroom, spent' = spent, \A k \in Keys : InFlight(k)' \subseteq InFlight(k)
    PROVE  Headroom'
<1>1. SUFFICES ASSUME NEW k \in Keys, NEW most \in Usages, \A i \in Usages : i <= most
               PROVE  spent'[k] + most * Cardinality(InFlight(k)')
                          < DayLimit + most * Cardinality(Requests)
  BY DEF Headroom, InFlight
<1>2. /\ most \in Nat /\ DayLimit \in Nat /\ spent[k] \in Nat
      /\ spent[k] + most * Cardinality(InFlight(k)) < DayLimit + most * Cardinality(Requests)
  BY <1>1, RelayAssumption DEF Headroom, TypeOK
<1>3. /\ most * Cardinality(InFlight(k)) \in Nat /\ most * Cardinality(InFlight(k)') \in Nat
      /\ most * Cardinality(Requests) \in Nat
      /\ most * Cardinality(InFlight(k)') <= most * Cardinality(InFlight(k))
  BY <1>2, InFlightCount, Products, LoadDrops
<1>4. QED
  BY <1>2, <1>3

\* A key that has budget left has room for every thread.
LEMMA Affordable ==
    ASSUME NEW k, NEW most \in Nat, NEW total \in Nat, total < DayLimit
    PROVE  total + most * Cardinality(InFlight(k)') < DayLimit + most * Cardinality(Requests)
<1>1. /\ most * Cardinality(InFlight(k)') <= most * Cardinality(Requests)
      /\ most * Cardinality(InFlight(k)') \in Nat /\ most * Cardinality(Requests) \in Nat
      /\ DayLimit \in Nat
  BY InFlightCount, Products, RelayAssumption
<1>2. QED
  BY <1>1

LEMMA StepHeadroom ==
    ASSUME TypeOK, Headroom, NEW r \in Requests, Step(r)
    PROVE  Headroom'
<1>1. at[r] # "idle" /\ \A k \in Keys : InFlight(k)' \subseteq InFlight(k)
  BY StepOwnRequest, NoneAdded
<1>2. CASE spent' = spent
  BY <1>1, <1>2, NothingSpent
<1>3. ASSUME NEW n \in Usages, NEW full \in {"none", "shared", "model"}, Answer(r, n, full)
      PROVE  Headroom'
  <2>1. spent' = spent \/ spent' = [spent EXCEPT ![shape[r].key] = @ + n]
    BY <1>3 DEF Answer
  <2>2. QED
    BY <1>1, <1>3, <2>1, Paid DEF Answer
<1>4. ASSUME NEW n \in Usages, Support(r, n)
      PROVE  Headroom'
  BY <1>1, <1>4, Paid DEF Support
<1>5. QED
  <2>1. \/ Refuse(r) \/ TurnAway(r) \/ Queue(r) \/ Acquire(r) \/ GateTimeout(r) \/ Connect(r)
        \/ Unprepared(r) \/ Retry(r) \/ ConnectFails(r) \/ FallbackConnects(r)
        \/ FallbackFails(r) \/ BodyLost(r) \/ ProbeAnswers(r) \/ FallbackAnswers(r)
        \/ SupportFails(r)
        => spent' = spent
    BY DEF Refuse, TurnAway, Queue, Acquire, GateTimeout, Connect, Connected, Unprepared,
           Retry, ConnectFails, FallbackConnects, FallbackFails, BodyLost, ProbeAnswers,
           FallbackAnswers, SupportFails
  <2>2. /\ \A capacity \in BOOLEAN :
               ProbeFails(r, capacity) \/ FallbackSilent(r, capacity) => spent' = spent
        /\ \A how \in Endings : StreamEnds(r, how) => spent' = spent
    BY DEF ProbeFails, FallbackSilent, StreamEnds
  <2>3. QED
    BY <1>2, <1>3, <1>4, <2>1, <2>2 DEF Step

LEMMA AdmitHeadroom ==
    ASSUME TypeOK, Headroom, NEW r \in Requests, NEW s \in Shapes, Admit(r, s)
    PROVE  Headroom'
<1>1. SUFFICES ASSUME NEW k \in Keys, NEW most \in Usages, \A i \in Usages : i <= most
               PROVE  spent'[k] + most * Cardinality(InFlight(k)')
                          < DayLimit + most * Cardinality(Requests)
  BY DEF Headroom, InFlight
<1>2. most \in Nat /\ DayLimit \in Nat /\ spent[k] \in Nat /\ spent' = spent
  BY RelayAssumption DEF TypeOK, Admit
<1>3. CASE s.key = k
  BY <1>2, <1>3, Affordable DEF Admit, BudgetLeft
<1>4. CASE s.key # k
  <2>1. InFlight(k)' \subseteq InFlight(k)
    BY <1>4 DEF InFlight, Admit, TypeOK
  <2>2. /\ most * Cardinality(InFlight(k)) \in Nat /\ most * Cardinality(InFlight(k)') \in Nat
        /\ most * Cardinality(Requests) \in Nat
        /\ most * Cardinality(InFlight(k)') <= most * Cardinality(InFlight(k))
    BY <1>2, <2>1, InFlightCount, Products, LoadDrops
  <2>3. spent[k] + most * Cardinality(InFlight(k)) < DayLimit + most * Cardinality(Requests)
    BY <1>1 DEF Headroom
  <2>4. QED
    BY <1>2, <2>2, <2>3
<1>5. QED
  BY <1>3, <1>4

\* A day that begins, or any other change of the shared state.
LEMMA OthersHeadroom ==
    ASSUME TypeOK, Headroom, Others, UNCHANGED thread
    PROVE  Headroom'
<1>1. \A k \in Keys : InFlight(k)' = InFlight(k)
  BY DEF InFlight, thread
<1>2. CASE NewDay
  <2>1. SUFFICES ASSUME NEW k \in Keys, NEW most \in Usages
                 PROVE  spent'[k] + most * Cardinality(InFlight(k)')
                            < DayLimit + most * Cardinality(Requests)
    BY DEF Headroom, InFlight
  <2>2. spent'[k] = 0 /\ 0 < DayLimit /\ most \in Nat
    BY <1>2, RelayAssumption DEF NewDay
  <2>3. QED
    BY <2>2, Affordable
<1>3. CASE spent' = spent
  BY <1>1, <1>3, NothingSpent
<1>4. QED
  BY <1>2, <1>3 DEF Others, Cooldown, Evict, ClearCache

LEMMA InitHeadroom == Init => Headroom
<1>1. SUFFICES ASSUME Init, NEW k \in Keys, NEW most \in Usages
               PROVE  spent[k] + most * Cardinality(InFlight(k))
                          < DayLimit + most * Cardinality(Requests)
  BY DEF Headroom
<1>2. InFlight(k) = {}
  BY <1>1 DEF Init, InFlight
<1>3. Cardinality(InFlight(k)) = 0 /\ spent[k] = 0
  BY <1>1, <1>2, FS_EmptySet DEF Init
<1>4. /\ most \in Nat /\ most * Cardinality(Requests) \in Nat /\ DayLimit \in Nat
      /\ 0 < DayLimit /\ most * 0 = 0
  BY InFlightCount, Products, RelayAssumption
<1>5. QED
  BY <1>3, <1>4

\* What a budget counts goes over it by less than what the requests in flight may cost:
\* it is checked before a request and counted after it (chat.py, support.py).  Streams are
\* not counted, so this bounds no key that streams.
THEOREM OvershootIsBounded == Spec => []OvershootBounded
<1>1. IInv /\ Headroom /\ [Next]_vars => Headroom'
  <2>1. SUFFICES ASSUME IInv, Headroom, [Next]_vars PROVE Headroom'
    OBVIOUS
  <2>2. TypeOK
    BY <2>1 DEF IInv
  <2>3. CASE UNCHANGED vars
    <3>1. spent' = spent /\ \A k \in Keys : InFlight(k)' = InFlight(k)
      BY <2>3 DEF vars, thread, InFlight
    <3>2. QED
      BY <2>1, <2>2, <3>1, NothingSpent
  <2>4. QED
    BY <2>1, <2>2, <2>3, NextParts, StepHeadroom, AdmitHeadroom, OthersKeep, OthersHeadroom
<1>2. IInv /\ Headroom => OvershootBounded
  <2>1. SUFFICES ASSUME IInv, Headroom, NEW k \in Keys, NEW most \in Usages,
                        \A n \in Usages : n <= most
                 PROVE  spent[k] < DayLimit + most * Cardinality(Requests)
    BY DEF OvershootBounded
  <2>2. spent[k] + most * Cardinality(InFlight(k)) < DayLimit + most * Cardinality(Requests)
    BY <2>1 DEF Headroom
  <2>3. /\ most * Cardinality(InFlight(k)) \in Nat /\ most * Cardinality(Requests) \in Nat
        /\ DayLimit \in Nat /\ spent[k] \in Nat
    BY <2>1, InFlightCount, Products, RelayAssumption DEF IInv, TypeOK
  <2>4. QED
    BY <2>2, <2>3
<1>3. QED
  BY <1>1, <1>2, Invariant, InitHeadroom, PTL DEF Spec

=============================================================================
