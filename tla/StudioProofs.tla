---------------------------- MODULE StudioProofs -----------------------------
(***************************************************************************)
(* Safety of one run of a Links crew, for any roster, concurrency and      *)
(* limits, and of the queue of messages a user sends to the runs, for any  *)
(* messages, capacity and number of runs and faults.                       *)
(***************************************************************************)
EXTENDS Team, TeamQueue, FiniteSetTheorems, SequenceTheorems, TLAPS

\* A member is never absent or done, the helper never idle; a member that waits for a
\* job has a turn left for it or the user's handoff, and every handoff has a turn.
StagesFit ==
    /\ \A m \in Members :
          /\ stage[m] \in AtWork \cup {"new", "mail", "idle", "settled"}
          /\ stage[m] = "new" => TurnsLeft(m)
          /\ stage[m] = "mail" => TurnsLeft(m) \/ mail[m] = "handoff"
          /\ mail[m] = "handoff" => turns[m] < MaxTurns + guided
    /\ stage[Helper] \in AtWork \cup {"queued", "again", "completed", "done", "absent"}

Typed == TypeOK /\ StagesFit

\* Whoever is cut off was stopped, superseded or paused.
CutOff ==
    \A a \in Agents :
        /\ aborted[a] => stage[a] = "running"
        /\ aborted[a] \/ outcome[a] = "stopped" => stopped \/ a \in superseded \/ interrupted[a]

\* Only stop() resolves a deferred.
ResolvedIsStopped == \A s \in {"team", "net"} : signal[s] = "resolved" => stopped

\* Where the scheduler is, and what can no longer be at work then.
QuietPhases == sched \in {"quiet", "drain", "close", "settle", "ended"} => Active = {}

Settled == {"absent", "completed", "done"}

ClosePhase == sched = "close" /\ ~Terminal => stage[Helper] \in Settled

LatePhases ==
    sched \in {"synth", "settle", "ended"} =>
        /\ ~accepting
        /\ \A m \in Members : /\ result[m] # "none" \/ broken = "run"
                             /\ stage[m] \notin {"new", "mail"}

SynthPhase ==
    sched = "synth" =>
        /\ stage[Helper] \in Settled \cup {"again"}
        /\ \E w \in Members : \A m \in Members : m # w => stage[m] = "idle"

EndPhase == sched = "ended" /\ ~stopped => ~HelperActive

\* Only a helper that is queued at the close of a completed run breaks it.
BreakPhase == broken = "run" => declared

Phases == QuietPhases /\ ClosePhase /\ LatePhases /\ SynthPhase /\ EndPhase /\ BreakPhase

\* The answer that completed the run is not taken back: nobody is woken any more.
CompletionKept ==
    declared /\ broken = "nothing" =>
        \E m \in Members : result[m] = "ok" /\ stage[m] \in {"settled", "idle"}

-----------------------------------------------------------------------------
(* Type correctness *)

\* A deferred that is asked for exists then.
LEMMA OpenedType ==
    ASSUME TypeOK, NEW s \in {"team", "net"}
    PROVE  Opened(s) \in [{"team", "net"} -> {"none", "open", "resolved"}]
  BY DEF TypeOK, Opened

\* The agents' deferreds are the two there are.
LEMMA SignalOfType == \A a : SignalOf(a) \in {"team", "net"}
  BY DEF SignalOf

\* A finished job leaves a result.
LEMMA ResultOfType ==
    ASSUME NEW m
    PROVE  ResultOf(m) \in {"ok", "waiting", "stalled", "stopped", "skipped"}
  BY DEF ResultOf

\* A finished job settles its member; one that declares removes a queued helper.
LEMMA FinishMoves ==
    ASSUME TypeOK, NEW a \in Agents, Finish(a)
    PROVE  /\ stage' \in [Agents -> AtWork \cup Waiting \cup Done]
           /\ IF a = Helper THEN stage'[a] \in {"completed", "done"} ELSE stage'[a] = "settled"
           /\ a # Helper => stage'[Helper] = IF Declares(a) /\ HelperQueued
                                            THEN "done" ELSE stage[Helper]
           /\ \A m \in Members : m # a => stage'[m] = stage[m]
  <1>1. Helper \in Agents /\ \A m \in Members : m \in Agents /\ m # Helper
    BY TeamAssumption DEF Agents
  <1> QED  BY <1>1 DEF TypeOK, Finish, Done

\* Jobs keep the types.
LEMMA TypeFinish ==
    ASSUME Typed, NEW a \in Agents, Finish(a)
    PROVE  Typed'
  <1> USE DEF Typed
  <1>1. result' \in [Members -> {"none", "ok", "waiting", "stalled", "stopped", "skipped"}]
    <2>1. CASE a = Helper
      BY <2>1 DEF TypeOK, Finish
    <2>2. CASE a # Helper
      <3>1. a \in Members
        BY <2>2 DEF Agents
      <3> QED  BY <2>2, <3>1, ResultOfType DEF TypeOK, Finish
    <2> QED  BY <2>1, <2>2
  <1>2. stage' \in [Agents -> AtWork \cup Waiting \cup Done]
    BY FinishMoves
  <1>3. /\ outcome' \in [Agents -> Replies \cup {"none", "accepted", "refused"}]
        /\ cycles' \in [Agents -> 0..MaxCycles]
        /\ interrupted' \in [Agents -> BOOLEAN]
    BY TeamAssumption DEF TypeOK, Finish, Rested
  <1>4. /\ declared' \in BOOLEAN /\ accepting' \in BOOLEAN /\ teamPaused' \in BOOLEAN
    BY DEF TypeOK, Finish, Declares, Answered, AllPaused
  <1>5. timer' \in {"none", "set", "fired"}
        /\ sched' \in {"scan", "wait", "quiet", "drain", "close", "synth", "settle", "ended"}
    BY DEF TypeOK, Finish, Signalled
  <1>6. TypeOK'
    BY <1>1, <1>2, <1>3, <1>4, <1>5 DEF TypeOK, Finish
  <1>7. UNCHANGED <<turns, mail, guided>>
    BY DEF Finish
  <1>8. StagesFit'
    <2>1. ASSUME NEW m \in Members
          PROVE  stage'[m] \in {stage[m], "settled"}
      <3>1. m # Helper
        BY TeamAssumption
      <3> QED  BY <3>1, FinishMoves
    <2>2. stage'[Helper] \in {stage[Helper], "completed", "done"}
      BY FinishMoves
    <2> QED  BY <1>7, <2>1, <2>2 DEF StagesFit, TurnsLeft
  <1> QED  BY <1>6, <1>8

LEMMA TypeJob ==
    ASSUME Typed, NEW a \in Agents, JobStep(a)
    PROVE  Typed'
  <1> USE DEF Typed
  <1>0. Helper \notin Members /\ Helper \in Agents /\ \A m \in Members : m \in Agents
    BY TeamAssumption DEF Agents
  <1>1. ASSUME NEW to \in AtWork \cup {"settled"}, a # Helper \/ to # "settled",
               stage' = [stage EXCEPT ![a] = to], UNCHANGED <<turns, guided>>,
               \A m \in Members : mail'[m] = mail[m] \/ (m = a /\ mail'[m] # "handoff")
        PROVE  StagesFit'
    BY <1>0, <1>1 DEF StagesFit, TurnsLeft, TypeOK, AtWork, Gates
  <1> USE DEF AtWork, Gates, Waiting, Done, Replies
  <1>2. CASE a # Helper /\ Wake(a)
    <2>1. a \in Members
      BY <1>2 DEF Agents
    <2>2. TypeOK'
      BY <1>2, <2>1 DEF TypeOK, Wake, flags
    <2>3. \A m \in Members : mail'[m] = mail[m] \/ (m = a /\ mail'[m] # "handoff")
      BY <1>2, <2>1 DEF TypeOK, Wake
    <2> QED  BY <1>1, <1>2, <2>2, <2>3 DEF Wake
  <1>3. CASE Begin(a)
    <2>1. TypeOK'
      BY <1>3 DEF TypeOK, Begin, roster, flags
    <2> QED  BY <1>1, <1>3, <2>1 DEF Begin, roster
  <1>4. CASE Continue(a)
    <2>1. TypeOK'
      BY <1>4 DEF TypeOK, Continue, roster, flags
    <2> QED  BY <1>1, <1>4, <2>1 DEF Continue, roster
  <1>5. CASE Await(a)
    <2>1. signal' \in [{"team", "net"} -> {"none", "open", "resolved"}]
      BY <1>5, OpenedType, SignalOfType DEF Await
    <2>2. cycles' \in [Agents -> 0..MaxCycles]
      BY <1>5, TeamAssumption DEF TypeOK, Await
    <2>3. TypeOK'
      BY <1>5, <2>1, <2>2 DEF TypeOK, Await, roster
    <2> QED  BY <1>1, <1>5, <2>3 DEF Await, roster
  <1>6. CASE Reviewed(a)
    <2>1. TypeOK'
      BY <1>6 DEF TypeOK, Reviewed, roster, flags
    <2> QED  BY <1>1, <1>6, <2>1 DEF Reviewed, roster
  <1>7. CASE Unwind(a) \/ Return(a)
    BY <1>7, TypeFinish DEF Unwind, Return
  <1> QED  BY <1>2, <1>3, <1>4, <1>5, <1>6, <1>7 DEF JobStep

\* What a pulse does: members with mail or the Nurse's advice are woken, and some of
\* those that wait are admitted.
LEMMA PulseIs ==
    ASSUME Pulse
    PROVE  \E waking \in SUBSET Wakeable, admitted \in SUBSET Agents :
              admitted \in SUBSET Queue(waking) /\ Admit(waking, admitted)
  BY DEF Pulse, Queue, Wakeable, Agents

\* The agents an admission moves, and where to.
LEMMA AdmitMoves ==
    ASSUME NEW waking, NEW admitted, Admit(waking, admitted), NEW a \in Agents
    PROVE  /\ a \in admitted => stage'[a] \in {"wakeGate", "gate"}
           /\ a \in waking \ admitted => stage'[a] = "mail"
           /\ a \notin waking \cup admitted => stage'[a] = stage[a]
  BY DEF Admit

\* It opens at most the crew's deferred.
LEMMA AdmitSignals ==
    ASSUME NEW waking, NEW admitted, Admit(waking, admitted)
    PROVE  signal' \in {signal, Opened("team")}
  BY DEF Admit

\* So does the scheduler.
LEMMA TypePulse ==
    ASSUME Typed, sched \in {"scan", "quiet"}, Pulse
    PROVE  Typed'
  <1> USE DEF Typed, AtWork, Gates, Waiting, Done
  <1>1. PICK waking \in SUBSET Wakeable, admitted \in SUBSET Agents : 
             admitted \in SUBSET Queue(waking) /\ Admit(waking, admitted)
    BY PulseIs
  <1>2. ASSUME NEW m \in Members
        PROVE  /\ m \in admitted => turns[m] < MaxTurns + guided
               /\ m \in waking => TurnsLeft(m) \/ mail[m] = "handoff"
    <2>1. /\ MaxTurns \in Nat /\ guided \in Nat /\ turns[m] \in Nat
          /\ mail[m] = "handoff" => turns[m] < MaxTurns + guided
      BY TeamAssumption DEF TypeOK, StagesFit
    <2>2. m \in waking => TurnsLeft(m) \/ mail[m] = "handoff"
      BY <1>1 DEF Wakeable
    <2>3. m \in admitted => TurnsLeft(m) \/ mail[m] = "handoff"
      <3>1. m # Helper /\ (m \in admitted => m \in waking \/ stage[m] \in Waiting)
        BY <1>1, TeamAssumption DEF Queue
      <3> QED  BY <2>2, <3>1 DEF StagesFit
    <2> QED  BY <2>1, <2>2, <2>3 DEF TurnsLeft
  <1>3. /\ turns' \in [Members -> Nat]
        /\ \A m \in Members : turns'[m] <= MaxTurns + guided
    BY <1>1, <1>2, TeamAssumption DEF Admit, TypeOK
  <1>4. stage' \in [Agents -> AtWork \cup Waiting \cup Done]
    BY <1>1 DEF Admit, TypeOK
  <1>5. signal' \in [{"team", "net"} -> {"none", "open", "resolved"}]
    BY <1>1, OpenedType DEF Admit, TypeOK
  <1>6. /\ sched' \in {"scan", "wait", "quiet", "close"}
        /\ mail' \in [Members -> {"none", "mail", "handoff"}]
    BY <1>1 DEF Admit, After, TypeOK
  <1>7. TypeOK'
    BY <1>3, <1>4, <1>5, <1>6 DEF TypeOK, Pulse
  <1>8. ASSUME NEW m \in Members
        PROVE  /\ stage'[m] \in AtWork \cup {"new", "mail", "idle", "settled"}
               /\ stage'[m] = "new" => TurnsLeft(m)'
               /\ stage'[m] = "mail" => TurnsLeft(m)' \/ mail'[m] = "handoff"
               /\ mail'[m] = "handoff" => turns'[m] < MaxTurns + guided'
    <2>1. m \in Agents /\ guided' = guided
      BY DEF Agents, Pulse
    <2>2. CASE m \in admitted
      <3>1. mail'[m] = "none"
        BY <1>1, <2>2 DEF Admit
      <3> QED  BY <1>1, <2>1, <2>2, <3>1, AdmitMoves
    <2>3. CASE m \notin admitted
      <3>1. /\ turns'[m] = turns[m]
            /\ mail'[m] = mail[m] \/ (m \in waking /\ mail'[m] = "mail" /\ mail[m] = "none")
        BY <1>1, <2>3 DEF Admit
      <3>2. CASE m \in waking
        BY <1>1, <1>2, <2>1, <2>3, <3>1, <3>2, AdmitMoves DEF TurnsLeft, StagesFit
      <3>3. CASE m \notin waking
        BY <1>1, <2>1, <2>3, <3>1, <3>3, AdmitMoves DEF TurnsLeft, StagesFit
      <3> QED  BY <3>2, <3>3
    <2> QED  BY <2>2, <2>3
  <1>9. stage'[Helper] \in AtWork \cup {"queued", "again", "completed", "done", "absent"}
    <2>1. Helper \in Agents /\ Helper \notin waking
      BY TeamAssumption DEF Agents, Wakeable
    <2> QED  BY <1>1, <2>1, AdmitMoves DEF StagesFit
  <1> QED  BY <1>7, <1>8, <1>9 DEF StagesFit

LEMMA TypeClose ==
    ASSUME Typed, Close
    PROVE  Typed'
  <1> USE DEF Typed
  <1> DEFINE rest == [a \in Agents |-> IF stage[a] \in {"new", "mail"} THEN "idle" ELSE stage[a]]
  <1>0. Helper \notin Members /\ Helper \in Agents /\ \A m \in Members : m \in Agents
    BY TeamAssumption DEF Agents
  <1>1. \/ stage' = rest /\ UNCHANGED <<paused, signal>> /\ sched' \in {"ended", "settle"}
        \/ \E m \in Members : /\ stage' = [rest EXCEPT ![m] = "wakeGate"]
                              /\ paused' = [paused EXCEPT ![m] = @ \/ userPaused]
                              /\ signal' \in {signal, Opened("team")}
                              /\ sched' = "synth"
    BY DEF Close
  <1>2. /\ stage' \in [Agents -> AtWork \cup Waiting \cup Done]
        /\ \A m \in Members : stage'[m] \in AtWork \cup {"idle", "settled"}
        /\ stage'[Helper] = stage[Helper]
    <2>1. /\ rest \in [Agents -> AtWork \cup Waiting \cup Done]
          /\ \A m \in Members : rest[m] \in AtWork \cup {"idle", "settled"}
          /\ rest[Helper] = stage[Helper]
      BY <1>0 DEF TypeOK, StagesFit, AtWork, Gates, Waiting, Done
    <2> HIDE DEF rest
    <2> QED  BY <1>0, <1>1, <2>1 DEF AtWork, Gates
  <1>3. paused' \in [Agents -> BOOLEAN]
    BY <1>0, <1>1 DEF TypeOK
  <1>4. /\ signal' \in [{"team", "net"} -> {"none", "open", "resolved"}]
        /\ sched' \in {"ended", "settle", "synth"}
    BY <1>1, OpenedType DEF TypeOK
  <1>5. result' \in [Members -> {"none", "ok", "waiting", "stalled", "stopped", "skipped"}]
    BY DEF Close, TypeOK
  <1>6. accepting' = FALSE
    BY DEF Close
  <1>7. TypeOK'
    BY <1>2, <1>3, <1>4, <1>5, <1>6 DEF TypeOK, Close
  <1>8. StagesFit'
    <2>1. UNCHANGED <<turns, mail, guided>>
      BY DEF Close
    <2> QED  BY <1>2, <2>1 DEF StagesFit, AtWork, Gates
  <1> QED  BY <1>7, <1>8

\* At the close, what never started is idle, and a helper that is queued is removed.
LEMMA CloseFailsMoves ==
    ASSUME Typed, CloseFails
    PROVE  /\ stage' \in [Agents -> AtWork \cup Waiting \cup Done]
           /\ \A m \in Members : stage'[m] = IF stage[m] \in {"new", "mail"} THEN "idle"
                                            ELSE stage[m]
           /\ stage'[Helper] = "done"
           /\ \A m \in Members : result'[m] = "none"
           /\ sched' \in {"ended", "settle"} /\ (sched' = "ended" => stopped)
  <1>1. Helper \notin Members /\ Helper \in Agents /\ \A m \in Members : m \in Agents
    BY TeamAssumption DEF Agents
  <1>2. /\ stage' = [a \in Agents |-> IF a = Helper THEN "done"
                                     ELSE IF stage[a] \in {"new", "mail"} THEN "idle" ELSE stage[a]]
        /\ result' = [m \in Members |-> "none"]
        /\ sched' = IF stopped THEN "ended" ELSE "settle"
    BY DEF CloseFails
  <1> QED  BY <1>1, <1>2 DEF Typed, TypeOK, Done

LEMMA TypeCloseFails ==
    ASSUME Typed, CloseFails
    PROVE  Typed'
  <1>1. TypeOK'
    <2>1. stage' \in [Agents -> AtWork \cup Waiting \cup Done] /\ sched' \in {"ended", "settle"}
      BY CloseFailsMoves
    <2>2. /\ result' = [m \in Members |-> "none"] /\ broken' = "run" /\ accepting' = FALSE
          /\ UNCHANGED <<paused, interrupted, aborted, outcome, cycles, turns, mail, superseded,
                         sends, guided, userPaused, teamPaused, stopped, declared, timer, signal>>
      BY DEF CloseFails
    <2> QED  BY <2>1, <2>2 DEF Typed, TypeOK
  <1>2. StagesFit'
    <2>1. UNCHANGED <<turns, mail, guided>>
      BY DEF CloseFails
    <2> QED  BY <2>1, CloseFailsMoves DEF Typed, StagesFit, TurnsLeft
  <1> QED  BY <1>1, <1>2 DEF Typed

\* A member's answer is taken; after the synthesis a helper that is queued is removed.
LEMMA CollectMoves ==
    ASSUME Typed, NEW m \in Members, Collect(m) \/ Synthesized(m)
    PROVE  /\ stage' \in [Agents -> AtWork \cup Waiting \cup Done]
           /\ stage'[m] = "idle" /\ \A b \in Members : b # m => stage'[b] = stage[b]
           /\ stage'[Helper] = IF sched = "synth" /\ HelperQueued THEN "done" ELSE stage[Helper]
  <1>1. Helper \notin Members /\ Helper \in Agents /\ \A b \in Members : b \in Agents
    BY TeamAssumption DEF Agents
  <1>2. CASE Collect(m)
    BY <1>1, <1>2 DEF Collect, Typed, TypeOK, Done
  <1>3. CASE Synthesized(m)
    BY <1>1, <1>3 DEF Synthesized, Typed, TypeOK, Done
  <1> QED  BY <1>2, <1>3

LEMMA TypeScheduler ==
    ASSUME Typed, SchedulerStep
    PROVE  Typed'
  <1> USE DEF Typed
  <1>0. Helper \notin Members /\ Helper \in Agents /\ \A m \in Members : m \in Agents
    BY TeamAssumption DEF Agents
  <1>1. ASSUME NEW m \in Members, Collect(m) \/ Synthesized(m)  PROVE Typed'
    <2>1. /\ stage' \in [Agents -> AtWork \cup Waiting \cup Done]
          /\ \A b \in Members : stage'[b] \in {stage[b], "idle"}
          /\ stage'[Helper] \in {stage[Helper], "done"}
      BY <1>1, CollectMoves
    <2>2. /\ sched' \in {"scan", "ended", "settle"}
          /\ UNCHANGED <<paused, interrupted, aborted, outcome, cycles, roster, flags>>
      BY <1>1 DEF Collect, Synthesized
    <2>3. TypeOK'
      BY <2>1, <2>2 DEF TypeOK, roster, flags
    <2>4. StagesFit'
      BY <2>1, <2>2 DEF StagesFit, roster, TurnsLeft
    <2> QED  BY <2>3, <2>4
  <1>2. ASSUME NEW place \in {"close", "wait", "drain", "quiet", "ended"}, Goto(place)
        PROVE  Typed'
    BY <1>2 DEF Goto, TypeOK, StagesFit, jobs, roster, flags, TurnsLeft
  <1>3. CASE Scan
    BY <1>2, <1>3, TypePulse DEF Scan
  <1>4. CASE Quiet
    BY <1>2, <1>4, TypePulse DEF Quiet
  <1>5. CASE Drained \/ Settle
    BY <1>2, <1>5 DEF Drained, Settle
  <1> QED  BY <1>1, <1>3, <1>4, <1>5, TypeClose, TypeCloseFails DEF SchedulerStep

\* What a message to b moves: a helper that had completed is queued again.
LEMMA DeliverMoves ==
    ASSUME Typed, NEW b \in Agents, Deliver(b, "mail")
    PROVE  /\ stage' \in [Agents -> AtWork \cup Waiting \cup Done]
           /\ \A m \in Members : /\ stage'[m] = stage[m]
                                 /\ mail'[m] = mail[m]
                                    \/ (mail[m] # "handoff" /\ mail'[m] = "mail")
           /\ \/ stage' = stage
              \/ stage[Helper] = "completed" /\ stage'[Helper] = "again"
           /\ mail' \in [Members -> {"none", "mail", "handoff"}]
           /\ sched' \in {sched, Signalled}
           /\ UNCHANGED <<paused, interrupted, aborted, outcome, cycles, turns, result, superseded,
                          broken, flags>>
  <1>1. Helper \notin Members /\ Helper \in Agents /\ \A m \in Members : m \in Agents
    BY TeamAssumption DEF Agents
  <1>2. stage' = IF b = Helper /\ stage[b] = "completed" THEN [stage EXCEPT ![b] = "again"] ELSE stage
    BY DEF Deliver, Typed, TypeOK
  <1>3. /\ mail' = [m \in Members |-> IF m = b /\ mail[m] # "handoff" THEN "mail" ELSE mail[m]]
        /\ sched' \in {sched, Signalled}
        /\ UNCHANGED <<paused, interrupted, aborted, outcome, cycles, turns, result, superseded,
                       broken, flags>>
    BY DEF Deliver
  <1> QED  BY <1>1, <1>2, <1>3 DEF Typed, TypeOK, Waiting

\* Messages of agents and of the user keep the types.
LEMMA TypeDeliver ==
    ASSUME Typed, \E a \in Agents : Tell(a) \/ \E b \in Agents : Send(a, b)
    PROVE  Typed'
  <1>1. PICK b \in Agents : Deliver(b, "mail")
    BY DEF Tell, Send
  <1>2. sends' \in 0..Handoffs /\ guided' \in 0..Guidance /\ guided <= guided'
    BY TeamAssumption DEF Tell, Send, Typed, TypeOK
  <1>3. \A m \in Members : turns[m] <= MaxTurns + guided'
    BY <1>2, TeamAssumption DEF Typed, TypeOK
  <1>4. sched' \in {"scan", "wait", "quiet", "drain", "close", "synth", "settle", "ended"}
    BY <1>1, DeliverMoves DEF Typed, TypeOK, Signalled
  <1>5. TypeOK'
    BY <1>1, <1>2, <1>3, <1>4, DeliverMoves DEF Typed, TypeOK, flags
  <1>6. ASSUME NEW m \in Members
        PROVE  /\ stage'[m] = stage[m] /\ turns'[m] = turns[m]
               /\ mail'[m] = "handoff" <=> mail[m] = "handoff"
               /\ turns[m] < MaxTurns + guided => turns[m] < MaxTurns + guided'
    BY <1>1, <1>2, TeamAssumption, DeliverMoves DEF Typed, TypeOK
  <1>7. stage'[Helper] \in {stage[Helper], "again"}
    BY <1>1, DeliverMoves
  <1>8. StagesFit'
    BY <1>6, <1>7 DEF Typed, StagesFit, TurnsLeft
  <1> QED  BY <1>5, <1>8 DEF Typed

\* So do providers, timers, reviews and messages.
LEMMA TypeEvents ==
    ASSUME Typed, Answers \/ GraceOver \/ Mailing
    PROVE  Typed'
  <1> USE DEF Typed
  <1>0. Helper \notin Members /\ Helper \in Agents /\ \A m \in Members : m \in Agents
    BY TeamAssumption DEF Agents
  <1>1. ASSUME NEW a \in Agents, NEW gate \in Gates, ArriveAt(a, gate),
               UNCHANGED <<turns, mail, guided>>
        PROVE  /\ stage' \in [Agents -> AtWork \cup Waiting \cup Done]
               /\ signal' \in [{"team", "net"} -> {"none", "open", "resolved"}]
               /\ StagesFit'
    <2>1. signal' \in [{"team", "net"} -> {"none", "open", "resolved"}]
      BY <1>1, OpenedType, SignalOfType DEF ArriveAt, TypeOK
    <2>2. stage' \in [Agents -> AtWork \cup Waiting \cup Done]
      BY <1>1 DEF ArriveAt, TypeOK, AtWork
    <2>3. StagesFit'
      BY <1>0, <1>1 DEF ArriveAt, TypeOK, StagesFit, TurnsLeft, AtWork, Gates
    <2> QED  BY <2>1, <2>2, <2>3
  <1>2. ASSUME NEW a \in Agents, NEW how \in Replies, Reply(a, how)  PROVE Typed'
    BY <1>1, <1>2 DEF Reply, Gates, TypeOK, roster
  <1>3. ASSUME NEW a \in Agents, NEW verdict \in {"accepted", "refused"}, Verdict(a, verdict)
        PROVE  Typed'
    BY <1>1, <1>3 DEF Verdict, Gates, TypeOK, roster
  <1>4. CASE Grace
    BY <1>4 DEF Grace, TypeOK, StagesFit, TurnsLeft
  <1>5. CASE \E a \in Agents : Tell(a) \/ \E b \in Agents : Send(a, b)
    BY <1>5, TypeDeliver
  <1>6. ASSUME NEW m \in Members, Receive(m)  PROVE Typed'
    <2>1. /\ mail' \in [Members -> {"none", "mail", "handoff"}]
          /\ \A b \in Members : mail'[b] = mail[b] \/ (stage[b] = "running" /\ mail'[b] = "none")
          /\ UNCHANGED <<jobs, turns, result, superseded, sends, guided, broken, flags, sched>>
      BY <1>6 DEF Receive, TypeOK
    <2> QED  BY <2>1 DEF TypeOK, StagesFit, TurnsLeft, jobs, flags
  <1> QED  BY <1>2, <1>3, <1>4, <1>5, <1>6 DEF Answers, Provider, Review, GraceOver, Mailing

\* And the user.
LEMMA TypeUser ==
    ASSUME Typed, User
    PROVE  Typed'
  <1> USE DEF Typed
  <1>0. Helper \notin Members /\ Helper \in Agents /\ \A m \in Members : m \in Agents
    BY TeamAssumption DEF Agents
  <1>1. CASE AddHelper
    BY <1>0, <1>1 DEF AddHelper, TypeOK, StagesFit, TurnsLeft, roster, flags, Signalled, Waiting
  <1>2. ASSUME NEW them, PauseControls(them)
        PROVE  /\ paused' \in [Agents -> BOOLEAN] /\ interrupted' \in [Agents -> BOOLEAN]
               /\ aborted' \in [Agents -> BOOLEAN]
    BY <1>2 DEF PauseControls, TypeOK
  <1>3. CASE Pause
    BY <1>2, <1>3 DEF Pause, TypeOK, StagesFit, TurnsLeft, roster
  <1>4. CASE Resume
    BY <1>4 DEF Resume, TypeOK, StagesFit, TurnsLeft, roster, Signalled, KeptOnStart, Finished
  <1>5. CASE Stop
    <2>1. stage' \in [Agents -> AtWork \cup Waiting \cup Done]
      BY <1>5 DEF Stop, TypeOK, Done
    <2>2. TypeOK'
      BY <1>5, <2>1 DEF Stop, TypeOK, roster, Signalled
    <2>3. StagesFit'
      BY <1>0, <1>5 DEF Stop, TypeOK, StagesFit, TurnsLeft, roster
    <2> QED  BY <2>2, <2>3
  <1>6. ASSUME NEW a \in Agents, PauseOne(a)  PROVE Typed'
    <2>1. teamPaused' \in BOOLEAN
      BY <1>6 DEF PauseOne, AllPaused
    <2> QED  BY <1>2, <1>6, <2>1 DEF PauseOne, TypeOK, StagesFit, TurnsLeft, roster
  <1>7. ASSUME NEW a \in Agents, StartOne(a)  PROVE Typed'
    <2>1. teamPaused' \in BOOLEAN
      BY <1>7 DEF StartOne, AllPaused
    <2> QED  BY <1>7, <2>1 DEF StartOne, TypeOK, StagesFit, TurnsLeft, roster, KeptOnStart
  <1>8. ASSUME NEW m \in Members, RequestWake(m)  PROVE Typed'
    <2>1. /\ mail' \in [Members -> {"none", "mail", "handoff"}]
          /\ \A b \in Members : mail'[b] = "handoff" <=> mail[b] = "handoff"
      BY <1>8 DEF RequestWake, TypeOK
    <2> QED  BY <1>8, <2>1 DEF RequestWake, TypeOK, StagesFit, TurnsLeft, jobs, flags, Signalled
  <1>9. ASSUME NEW m \in Members, Handoff(m)  PROVE Typed'
    <2>1. /\ guided' = guided + 1 /\ guided' \in 0..Guidance /\ MaxTurns \in Nat
          /\ \A b \in Members : turns[b] \in Nat
      BY <1>9, TeamAssumption DEF Handoff, TypeOK
    <2>2. /\ mail' \in [Members -> {"none", "mail", "handoff"}]
          /\ \A b \in Members : mail'[b] = mail[b] \/ mail'[b] = "handoff"
      BY <1>9 DEF Handoff, TypeOK
    <2>3. \A b \in Members : turns[b] < MaxTurns + guided' /\ turns[b] <= MaxTurns + guided'
      BY <2>1 DEF TypeOK
    <2>4. TypeOK'
      BY <1>9, <2>1, <2>2, <2>3 DEF Handoff, TypeOK, jobs, flags, Signalled
    <2>5. StagesFit'
      BY <1>9, <2>2, <2>3 DEF Handoff, StagesFit, TurnsLeft, jobs
    <2> QED  BY <2>4, <2>5
  <1> QED  BY <1>1, <1>3, <1>4, <1>5, <1>6, <1>7, <1>8, <1>9 DEF User

LEMMA TypeInit == Init => Typed
  <1> SUFFICES ASSUME Init  PROVE Typed
    OBVIOUS
  <1>0. Helper \notin Members /\ Helper \in Agents /\ \A m \in Members : m \in Agents
    BY TeamAssumption DEF Agents
  <1>1. TypeOK
    <2>1. stage \in [Agents -> AtWork \cup Waiting \cup Done]
      BY DEF Init, Waiting, Done
    <2>2. /\ cycles \in [Agents -> 0..MaxCycles] /\ turns \in [Members -> Nat]
          /\ \A m \in Members : turns[m] <= MaxTurns + guided
          /\ sends \in 0..Handoffs /\ guided \in 0..Guidance
      BY TeamAssumption DEF Init
    <2> QED  BY <2>1, <2>2 DEF Init, TypeOK
  <1>2. StagesFit
    BY <1>0, TeamAssumption DEF Init, StagesFit, TurnsLeft
  <1> QED  BY <1>1, <1>2 DEF Typed

LEMMA TypeNext ==
    ASSUME Typed, [Next]_vars
    PROVE  Typed'
  <1>1. CASE UNCHANGED vars
    BY <1>1 DEF Typed, TypeOK, StagesFit, TurnsLeft, vars, jobs, roster, flags
  <1> QED  BY <1>1, TypeJob, TypeScheduler, TypeEvents, TypeUser DEF Next, MicroStep

\* A run of a crew keeps the types of its state, whatever the user, the providers
\* and the timers do in which order.
THEOREM TypeCorrect == Spec => []TypeOK
  <1>1. Typed /\ [Next]_vars => Typed'
    BY TypeNext
  <1>2. Typed => TypeOK
    BY DEF Typed
  <1> QED  BY TypeInit, <1>1, <1>2, PTL DEF Spec

-----------------------------------------------------------------------------
(* Stops, pauses and interrupted turns *)

\* Only stop() resolves a deferred, and a stopped run stays stopped.
LEMMA ResolvedNext ==
    ASSUME Typed, ResolvedIsStopped, [Next]_vars
    PROVE  ResolvedIsStopped' /\ (stopped => stopped')
  <1> DEFINE Kept == stopped' = stopped /\ signal' \in {signal, Opened("team"), Opened("net")}
  <1>1. ASSUME Kept  PROVE ResolvedIsStopped' /\ (stopped => stopped')
    BY <1>1 DEF ResolvedIsStopped, Opened, Typed, TypeOK
  <1> HIDE DEF Kept
  <1>2. CASE Stop
    BY <1>2 DEF Stop, ResolvedIsStopped
  <1>3. CASE UNCHANGED vars
    BY <1>3 DEF Kept, vars, flags, ResolvedIsStopped
  <1>4. ASSUME NEW a \in Agents, JobStep(a)  PROVE Kept
    <2>1. CASE Await(a)
      BY <2>1, SignalOfType DEF Kept, Await
    <2>2. CASE a # Helper /\ Wake(a)
      BY <2>2 DEF Kept, Wake, flags
    <2>3. CASE Finish(a)
      BY <2>3 DEF Kept, Finish
    <2>4. CASE Begin(a) \/ Continue(a) \/ Reviewed(a)
      BY <2>4 DEF Kept, Begin, Continue, Reviewed, flags
    <2> QED  BY <1>4, <2>1, <2>2, <2>3, <2>4 DEF JobStep, Unwind, Return
  <1>5. ASSUME SchedulerStep  PROVE Kept
    <2>1. ASSUME Pulse  PROVE Kept
      <3>1. PICK waking, admitted : Admit(waking, admitted)
        BY <2>1, PulseIs
      <3>2. signal' \in {signal, Opened("team")} /\ stopped' = stopped
        BY <2>1, <3>1, AdmitSignals DEF Pulse
      <3> QED  BY <3>2 DEF Kept
    <2>2. CASE Close \/ CloseFails
      <3>1. signal' \in {signal, Opened("team")} /\ stopped' = stopped
        BY <2>2 DEF Close, CloseFails
      <3> QED  BY <3>1 DEF Kept
    <2>3. CASE \E m \in Members : Collect(m) \/ Synthesized(m)
      BY <2>3 DEF Kept, Collect, Synthesized, flags
    <2>4. ASSUME NEW place, Goto(place)  PROVE Kept
      BY <2>4 DEF Kept, Goto, flags
    <2> QED  BY <1>5, <2>1, <2>2, <2>3, <2>4 DEF SchedulerStep, Scan, Quiet, Drained, Settle
  <1>6. ASSUME Answers  PROVE Kept
    <2>1. ASSUME NEW a \in Agents, NEW gate, ArriveAt(a, gate), stopped' = stopped  PROVE Kept
      BY <2>1, SignalOfType DEF Kept, ArriveAt
    <2>2. ASSUME NEW a \in Agents, NEW how, Reply(a, how)  PROVE Kept
      BY <2>1, <2>2 DEF Kept, Reply
    <2>3. ASSUME NEW a \in Agents, NEW verdict, Verdict(a, verdict)  PROVE Kept
      BY <2>1, <2>3 DEF Kept, Verdict
    <2> QED  BY <1>6, <2>2, <2>3 DEF Answers, Provider, Review
  <1>7. ASSUME GraceOver \/ Mailing  PROVE Kept
    <2>1. stopped' = stopped /\ signal' = signal
      BY <1>7 DEF GraceOver, Grace, Mailing, Send, Tell, Deliver, Receive, flags
    <2> QED  BY <2>1 DEF Kept
  <1>8. ASSUME User, ~Stop  PROVE Kept
    <2>1. stopped' = stopped /\ signal' = signal
      BY <1>8 DEF User, AddHelper, Pause, Resume, PauseOne, StartOne, RequestWake, Handoff, flags
    <2> QED  BY <2>1 DEF Kept
  <1> QED  BY <1>1, <1>2, <1>3, <1>4, <1>5, <1>6, <1>7, <1>8 DEF Next, MicroStep

\* No turn, so no paid request, begins while its agent is paused, for any roster.
THEOREM PausesHold == Spec => PauseHolds
  <1>1. Typed /\ ResolvedIsStopped /\ [Next]_vars
          => [\A a \in Agents : stage'[a] = "running" /\ stage[a] # "running" => ~paused[a]]_vars
    <2> SUFFICES ASSUME Typed, ResolvedIsStopped, Next, NEW a \in Agents,
                        stage'[a] = "running", stage[a] # "running"
                 PROVE  ~paused[a]
      OBVIOUS
    <2> USE DEF Typed
    <2>1. ASSUME NEW b \in Agents, Begin(b)  PROVE ~paused[a]
      <3>1. a = b
        BY <2>1 DEF Begin, TypeOK
      <3>2. SignalOf(a) \in {"team", "net"}
        BY SignalOfType
      <3> QED  BY <2>1, <3>1, <3>2 DEF Begin, Passes, ResolvedIsStopped
    <2>2. ASSUME NEW b \in Agents, NEW to, to # "running", stage' = [stage EXCEPT ![b] = to]
          PROVE  FALSE
      BY <2>2 DEF TypeOK
    <2>3. ASSUME stage' = stage  PROVE FALSE
      BY <2>3
    <2>4. ASSUME NEW b \in Agents, Finish(b)  PROVE FALSE
      BY <2>4, FinishMoves, TeamAssumption DEF Agents
    <2>5. ASSUME NEW b \in Agents, JobStep(b)  PROVE ~paused[a]
      BY <2>1, <2>2, <2>3, <2>4, <2>5 DEF JobStep, Wake, Unwind, Continue, Await, Reviewed, Return
    <2>6. ASSUME Pulse  PROVE FALSE
      <3>1. PICK waking \in SUBSET Wakeable, admitted \in SUBSET Agents :
                 admitted \in SUBSET Queue(waking) /\ Admit(waking, admitted)
        BY <2>6, PulseIs
      <3> QED  BY <3>1, AdmitMoves
    <2>7. CASE SchedulerStep
      <3>1. ASSUME Close  PROVE FALSE
        BY <3>1, ZenonT(40) DEF Close, TypeOK, Agents
      <3>2. ASSUME NEW m \in Members, Collect(m) \/ Synthesized(m)  PROVE FALSE
        BY <3>2, CollectMoves DEF Agents
      <3>3. ASSUME CloseFails  PROVE FALSE
        BY <3>3, CloseFailsMoves DEF Agents
      <3> QED  BY <2>3, <2>6, <2>7, <3>1, <3>2, <3>3 DEF SchedulerStep, Scan, Quiet, Drained,
                  Settle, Goto, jobs
    <2>8. CASE Answers
      BY <2>2, <2>8 DEF Answers, Provider, Review, Reply, Verdict, ArriveAt
    <2>9. CASE GraceOver \/ Mailing
      <3>1. ASSUME NEW b \in Agents, Deliver(b, "mail")  PROVE FALSE
        BY <3>1, DeliverMoves DEF Agents
      <3> QED  BY <2>3, <2>9, <3>1 DEF GraceOver, Grace, Mailing, Send, Tell, Receive, jobs
    <2>10. CASE User
      <3>1. ASSUME AddHelper  PROVE FALSE
        BY <2>2, <3>1 DEF AddHelper, Agents
      <3>2. ASSUME Stop  PROVE FALSE
        BY <3>2 DEF Stop, TypeOK
      <3> QED  BY <2>3, <2>10, <3>1, <3>2 DEF User, Pause, Resume, PauseOne, StartOne,
                  RequestWake, Handoff, jobs
    <2> QED  BY <2>5, <2>7, <2>8, <2>9, <2>10 DEF Next, MicroStep
  <1>2. Init => ResolvedIsStopped
    BY DEF Init, ResolvedIsStopped
  <1>3. Typed /\ [Next]_vars => Typed'
    BY TypeNext
  <1>4. Typed /\ ResolvedIsStopped /\ [Next]_vars => ResolvedIsStopped'
    BY ResolvedNext
  <1> QED  BY <1>1, <1>2, <1>3, <1>4, TypeInit, PTL DEF Spec, PauseHolds

-----------------------------------------------------------------------------
(* What jobs, providers, timers and the user may change *)

\* Only the scheduler starts a job: everything else moves the jobs that are at work,
\* and at most tells the scheduler to go round again.
Outside ==
    /\ \A m \in Members :
          /\ stage[m] \notin AtWork => stage'[m] = stage[m] /\ result'[m] = result[m]
          /\ stage[m] \in AtWork => stage'[m] \in AtWork \cup {"settled"}
          /\ result[m] # "none" => result'[m] # "none"
    /\ stage'[Helper] \in AtWork => stage[Helper] \in AtWork
    /\ stage[Helper] \in Settled /\ sched = "close" => stage'[Helper] \in Settled
    /\ stage[Helper] \in Settled \cup {"again"} /\ ~accepting
          => stage'[Helper] \in Settled \cup {"again"}
    /\ (accepting' => accepting) /\ (stopped => stopped') /\ (declared => declared')
    /\ sched' \in {sched, Signalled}
    /\ broken' = broken \/ (broken' = "job" /\ ~declared /\ declared')
    /\ declared' /\ ~declared /\ broken' = "nothing"
          => \E m \in Members : result'[m] = "ok" /\ stage'[m] = "settled"

LEMMA OutsideFinish ==
    ASSUME Typed, NEW a \in Agents, stage[a] \in AtWork, Finish(a)
    PROVE  Outside
  <1> USE DEF Typed
  <1>0. Helper \notin Members /\ Helper \in Agents /\ \A m \in Members : m \in Agents
    BY TeamAssumption DEF Agents
  <1>1. /\ IF a = Helper THEN stage'[a] \in {"completed", "done"} ELSE stage'[a] = "settled"
        /\ a # Helper => stage'[Helper] = IF Declares(a) /\ HelperQueued
                                         THEN "done" ELSE stage[Helper]
        /\ \A m \in Members : m # a => stage'[m] = stage[m]
    BY FinishMoves
  <1>2. \A m \in Members : result'[m] = IF m = a THEN ResultOf(m) ELSE result[m]
    BY <1>0 DEF Finish, TypeOK
  <1>3. \A m \in Members : ResultOf(m) # "none"
    BY ResultOfType
  <1>4. \A m \in Members : /\ stage[m] \notin AtWork => stage'[m] = stage[m] /\ result'[m] = result[m]
                           /\ stage[m] \in AtWork => stage'[m] \in AtWork \cup {"settled"}
                           /\ result[m] # "none" => result'[m] # "none"
    BY <1>0, <1>1, <1>2, <1>3
  <1>5. /\ stage'[Helper] \in AtWork => stage[Helper] \in AtWork
        /\ stage[Helper] \in Settled => stage'[Helper] \in Settled
        /\ stage[Helper] \in Settled \cup {"again"} => stage'[Helper] \in Settled \cup {"again"}
    BY <1>0, <1>1 DEF AtWork, Gates, Settled
  <1>6. /\ (accepting' => accepting) /\ stopped' = stopped /\ (declared => declared')
        /\ sched' \in {sched, Signalled}
        /\ broken' = broken \/ (broken' = "job" /\ ~declared /\ declared')
    BY DEF Finish, CancelFails, Declares
  <1>7. ASSUME declared', ~declared, broken' = "nothing"
        PROVE  \E m \in Members : result'[m] = "ok" /\ stage'[m] = "settled"
    <2>1. a # Helper /\ Declares(a)
      BY <1>7 DEF Finish
    <2>2. a \in Members
      BY <2>1 DEF Agents
    <2>3. ~CancelFails(a) /\ Answered(a)
      BY <1>7, <2>1 DEF Finish, Declares
    <2>4. ResultOf(a) = "ok"
      BY <2>3 DEF ResultOf
    <2> QED  BY <1>1, <1>2, <2>1, <2>2, <2>4
  <1> QED  BY <1>4, <1>5, <1>6, <1>7 DEF Outside

\* A job that only passes from one place to the next.
LEMMA OutsideMoves ==
    ASSUME Typed, NEW a \in Agents, stage[a] \in AtWork,
           NEW to \in AtWork, stage' = [stage EXCEPT ![a] = to],
           UNCHANGED <<result, broken, accepting, stopped, declared, sched>>
    PROVE  Outside
  <1>0. Helper \notin Members /\ Helper \in Agents /\ \A m \in Members : m \in Agents
    BY TeamAssumption DEF Agents
  <1>1. \A b \in Agents : b # a => stage'[b] = stage[b]
    BY DEF Typed, TypeOK
  <1>2. stage'[a] \in AtWork
    BY DEF Typed, TypeOK
  <1> QED  BY <1>0, <1>1, <1>2 DEF Outside, AtWork, Gates, Settled

\* What leaves the jobs alone.
LEMMA OutsideStill ==
    ASSUME stage' = stage, UNCHANGED <<result, broken, accepting, declared>>,
           stopped => stopped', sched' \in {sched, Signalled}
    PROVE  Outside
  BY DEF Outside

LEMMA OutsideJob ==
    ASSUME Typed, NEW a \in Agents, JobStep(a)
    PROVE  Outside
  <1> USE DEF Typed
  <1>0. Helper \notin Members /\ Helper \in Agents /\ \A m \in Members : m \in Agents
    BY TeamAssumption DEF Agents
  <1>1. CASE a # Helper /\ Wake(a)
    <2>1. a \in Members
      BY <1>1 DEF Agents
    <2>2. /\ \A m \in Members : m # a => stage'[m] = stage[m] /\ result'[m] = result[m]
          /\ stage'[Helper] = stage[Helper]
          /\ stage[a] = "wakeGate" /\ stage'[a] \in {"settled", "gate"}
          /\ result'[a] \in {result[a], "stopped"}
      BY <1>0, <1>1, <2>1 DEF Wake, TypeOK
    <2>3. UNCHANGED <<accepting, stopped, declared, sched, broken>>
      BY <1>1 DEF Wake, flags
    <2> QED  BY <2>1, <2>2, <2>3 DEF Outside, AtWork, Gates
  <1>2. CASE Begin(a)
    <2>1. stage[a] \in AtWork /\ "running" \in AtWork
      BY <1>2 DEF Begin, AtWork, Gates
    <2> QED  BY <1>2, <2>1, OutsideMoves DEF Begin, roster, flags
  <1>3. CASE Continue(a) \/ Reviewed(a)
    <2>1. stage[a] \in AtWork /\ "gate" \in AtWork
      BY <1>3 DEF Continue, Reviewed, AtWork, Gates
    <2> QED  BY <1>3, <2>1, OutsideMoves DEF Continue, Reviewed, roster, flags
  <1>4. CASE Await(a)
    <2>1. stage[a] \in AtWork /\ "review" \in AtWork
      BY <1>4 DEF Await, AtWork, Gates
    <2> QED  BY <1>4, <2>1, OutsideMoves DEF Await, roster
  <1>5. CASE Unwind(a) \/ Return(a)
    <2>1. stage[a] \in AtWork /\ Finish(a)
      BY <1>5 DEF Unwind, Return, AtWork, Gates
    <2> QED  BY <2>1, OutsideFinish
  <1> QED  BY <1>1, <1>2, <1>3, <1>4, <1>5 DEF JobStep

LEMMA OutsideAnswers ==
    ASSUME Typed, Answers
    PROVE  Outside
  <1>1. ASSUME NEW a \in Agents, NEW how, Reply(a, how)  PROVE Outside
    <2>1. stage[a] \in AtWork /\ "turned" \in AtWork
      BY <1>1 DEF Reply, AtWork, Gates
    <2> QED  BY <1>1, <2>1, OutsideMoves DEF Reply, ArriveAt, roster
  <1>2. ASSUME NEW a \in Agents, NEW verdict, Verdict(a, verdict)  PROVE Outside
    <2>1. stage[a] \in AtWork /\ "reviewed" \in AtWork
      BY <1>2 DEF Verdict, AtWork, Gates
    <2> QED  BY <1>2, <2>1, OutsideMoves DEF Verdict, ArriveAt, roster
  <1> QED  BY <1>1, <1>2 DEF Answers, Provider, Review

LEMMA OutsideUser ==
    ASSUME Typed, User
    PROVE  Outside
  <1>0. Helper \notin Members /\ Helper \in Agents /\ \A m \in Members : m \in Agents
    BY TeamAssumption DEF Agents
  <1>1. CASE AddHelper
    <2>1. ~(sched = "close")
      BY DEF User, Pending
    <2>2. /\ \A m \in Members : stage'[m] = stage[m]
          /\ stage'[Helper] = "queued" /\ stage[Helper] = "absent" /\ accepting
      BY <1>0, <1>1 DEF AddHelper, Typed, TypeOK
    <2>3. UNCHANGED <<result, broken, accepting, stopped, declared>> /\ sched' = Signalled
      BY <1>1 DEF AddHelper, roster, flags
    <2> QED  BY <2>1, <2>2, <2>3 DEF Outside, AtWork, Gates
  <1>2. CASE Stop
    <2>1. /\ \A m \in Members : stage'[m] = stage[m]
          /\ stage'[Helper] = IF HelperQueued THEN "done" ELSE stage[Helper]
      BY <1>0, <1>2 DEF Stop, Typed, TypeOK
    <2>2. UNCHANGED <<result, broken, accepting, declared>> /\ sched' = Signalled /\ stopped'
      BY <1>2 DEF Stop, roster
    <2> QED  BY <2>1, <2>2 DEF Outside, AtWork, Gates, HelperQueued, Settled
  <1>3. ASSUME User, ~AddHelper, ~Stop
        PROVE  /\ stage' = stage /\ UNCHANGED <<result, broken, accepting, declared, stopped>>
               /\ sched' \in {sched, Signalled}
    BY <1>3 DEF User, Pause, Resume, PauseOne, StartOne, RequestWake, Handoff, jobs, roster, flags
  <1> QED  BY <1>1, <1>2, <1>3, OutsideStill

\* Everything but the scheduler.
LEMMA OutsideNext ==
    ASSUME Typed, [Next]_vars, ~SchedulerStep
    PROVE  Outside
  <1>1. CASE UNCHANGED vars
    BY <1>1, OutsideStill DEF vars, jobs, roster, flags
  <1>2. CASE GraceOver \/ Mailing
    <2>1. ASSUME NEW b \in Agents, Deliver(b, "mail"), ~Pending  PROVE Outside
      <3>1. sched # "close"
        BY <2>1 DEF Pending
      <3>2. UNCHANGED <<result, broken, accepting, declared, stopped>>
        BY <2>1, DeliverMoves DEF flags
      <3> QED  BY <2>1, <3>1, <3>2, DeliverMoves DEF Outside, AtWork, Gates, Settled
    <2>2. ASSUME Grace \/ \E m \in Members : Receive(m)  PROVE Outside
      <3>1. /\ stage' = stage /\ UNCHANGED <<result, broken, accepting, declared, stopped>>
            /\ sched' = sched
        BY <2>2 DEF Grace, Receive, jobs, flags
      <3> QED  BY <3>1, OutsideStill
    <2> QED  BY <1>2, <2>1, <2>2 DEF GraceOver, Mailing, Send, Tell
  <1> QED  BY <1>1, <1>2, OutsideJob, OutsideAnswers, OutsideUser DEF Next, MicroStep

-----------------------------------------------------------------------------
(* Where the scheduler is *)

\* The scheduler's places keep what they promise while it waits.
LEMMA PhasesOutside ==
    ASSUME Typed, Phases, Outside
    PROVE  Phases'
  <1>1. ASSUME NEW m \in Members, m \in Active'  PROVE m \in Active
    BY <1>1 DEF Active, Outside
  <1>2. sched' = sched \/ (sched = "wait" /\ sched' = "scan")
    BY DEF Outside, Signalled
  <1>3. ASSUME Active = {}  PROVE Active' = {}
    BY <1>1, <1>3 DEF Active
  <1>4. QuietPhases'
    BY <1>2, <1>3 DEF Phases, QuietPhases
  <1>5. ClosePhase'
    BY <1>2 DEF Phases, ClosePhase, Outside, Terminal
  <1>6. ASSUME sched' \in {"synth", "settle", "ended"}, NEW m \in Members
        PROVE  /\ ~accepting' /\ stage'[m] \notin {"new", "mail"}
               /\ result'[m] # "none" \/ broken' = "run"
    <2>1. /\ ~accepting /\ stage[m] \notin {"new", "mail"}
          /\ result[m] # "none" \/ broken = "run"
      BY <1>2, <1>6 DEF Phases, LatePhases
    <2>2. stage'[m] \notin {"new", "mail"} /\ ~accepting'
      BY <2>1 DEF Outside, AtWork, Gates
    <2>3. result[m] # "none" => result'[m] # "none"
      BY DEF Outside
    <2>4. broken = "run" => broken' = "run"
      BY DEF Outside, Phases, BreakPhase
    <2> QED  BY <2>1, <2>2, <2>3, <2>4
  <1>7. SynthPhase'
    <2> SUFFICES ASSUME sched' = "synth"  PROVE SynthPhase'
      BY DEF SynthPhase
    <2>1. ~accepting /\ sched = "synth"
      BY <1>2 DEF Phases, LatePhases
    <2>2. stage'[Helper] \in Settled \cup {"again"}
      BY <2>1 DEF Phases, SynthPhase, Outside
    <2> QED  BY <2>1, <2>2 DEF Phases, SynthPhase, Outside, AtWork, Gates
  <1>8. EndPhase'
    BY <1>2 DEF Phases, EndPhase, Outside, HelperActive
  <1>9. BreakPhase'
    BY DEF Phases, BreakPhase, Outside
  <1>10. LatePhases'
    BY <1>6, TeamAssumption DEF LatePhases
  <1> QED  BY <1>4, <1>5, <1>7, <1>8, <1>9, <1>10 DEF Phases

\* Where a pulse leads.
LEMMA AdmitLeads ==
    ASSUME sched \in {"scan", "quiet"},
           NEW waking, NEW admitted, Admit(waking, admitted)
    PROVE  \/ sched' \in {"scan", "wait"}
           \/ /\ sched' = "quiet" /\ Active \cup (admitted \cap Members) = {}
           \/ /\ sched = "quiet" /\ sched' = "close" /\ Queue(waking) = {} /\ ~HelperActive
              /\ Active \cup (admitted \cap Members) = {}
  <1>1. sched' = After(admitted, Queue(waking))
    BY DEF Admit
  <1> QED  BY <1>1 DEF After

LEMMA PhasesPulse ==
    ASSUME Typed, Phases, sched \in {"scan", "quiet"}, Pulse
    PROVE  Phases'
  <1>1. PICK waking \in SUBSET Wakeable, admitted \in SUBSET Agents :
             admitted \in SUBSET Queue(waking) /\ Admit(waking, admitted)
    BY PulseIs
  <1>2. ASSUME Active \cup (admitted \cap Members) = {}  PROVE Active' = {}
    <2>1. ASSUME NEW m \in Members  PROVE m \notin Active'
      <3>1. m \in Agents /\ m \notin admitted /\ m \notin Active
        BY <1>2, <2>1 DEF Agents
      <3>2. stage'[m] \in {"mail", stage[m]}
        BY <1>1, <3>1, AdmitMoves
      <3> QED  BY <3>1, <3>2, <2>1 DEF Active, AtWork, Gates
    <2> QED  BY <2>1 DEF Active
  <1>3. ASSUME sched' = "close", Queue(waking) = {}, ~HelperActive
        PROVE  stage'[Helper] \in Settled
    <2>1. Helper \in Agents /\ Helper \notin admitted /\ Helper \notin waking
      BY <1>1, <1>3 DEF Agents, Queue
    <2>2. stage[Helper] \notin Waiting
      BY <1>3, <2>1 DEF Queue
    <2>3. stage'[Helper] = stage[Helper]
      BY <1>1, <2>1, AdmitMoves
    <2> QED  BY <1>3, <2>2, <2>3 DEF Typed, StagesFit, HelperActive, Waiting, Settled
  <1>4. sched' \in {"scan", "wait", "quiet", "close"}
    BY <1>1, AdmitLeads
  <1>5. QuietPhases'
    BY <1>1, <1>2, <1>4, AdmitLeads DEF QuietPhases
  <1>6. ClosePhase'
    BY <1>1, <1>3, <1>4, AdmitLeads DEF ClosePhase
  <1>7. LatePhases' /\ SynthPhase' /\ EndPhase' /\ BreakPhase'
    BY <1>4 DEF Phases, LatePhases, SynthPhase, EndPhase, BreakPhase, Pulse
  <1> QED  BY <1>5, <1>6, <1>7 DEF Phases

LEMMA PhasesClose ==
    ASSUME Typed, Phases, Close
    PROVE  Phases'
  <1> USE DEF Typed
  <1> DEFINE rest == [a \in Agents |-> IF stage[a] \in {"new", "mail"} THEN "idle" ELSE stage[a]]
  <1>0. Helper \notin Members /\ Helper \in Agents /\ \A m \in Members : m \in Agents
    BY TeamAssumption DEF Agents
  <1>1. Active = {} /\ sched = "close"
    BY DEF Close, Phases, QuietPhases
  <1>2. /\ \A m \in Members : rest[m] = "idle"
        /\ rest[Helper] = stage[Helper]
        /\ rest \in [Agents -> AtWork \cup Waiting \cup Done]
    <2>1. \A m \in Members : stage[m] \in {"new", "mail", "idle"}
      BY <1>1 DEF Active, StagesFit
    <2> QED  BY <1>0, <2>1 DEF TypeOK, StagesFit, AtWork, Gates, Waiting, Done
  <1>3. \/ stage' = rest /\ sched' \in {"ended", "settle"} /\ (sched' = "ended" => stopped)
        \/ /\ ~Terminal /\ sched' = "synth"
           /\ \E w \in Members : stage' = [rest EXCEPT ![w] = "wakeGate"]
    BY DEF Close
  <1>4. stopped' = stopped /\ declared' = declared /\ accepting' = FALSE /\ broken' = broken
    BY DEF Close
  <1>5. \A m \in Members : result'[m] # "none"
    BY DEF Close
  <1> HIDE DEF rest
  <1>6. CASE stage' = rest /\ sched' \in {"ended", "settle"} /\ (sched' = "ended" => stopped)
    <2>1. Active' = {}
      BY <1>2, <1>6 DEF Active, AtWork, Gates
    <2> QED  BY <1>2, <1>4, <1>5, <1>6, <2>1
             DEF Phases, QuietPhases, ClosePhase, LatePhases, SynthPhase, EndPhase, BreakPhase
  <1>7. ASSUME ~Terminal, sched' = "synth",
               NEW w \in Members, stage' = [rest EXCEPT ![w] = "wakeGate"]
        PROVE  Phases'
    <2>1. stage[Helper] \in Settled
      BY <1>1, <1>7 DEF Phases, ClosePhase
    <2>2. /\ stage'[Helper] = stage[Helper] /\ stage'[w] = "wakeGate"
          /\ \A m \in Members : m # w => stage'[m] = "idle"
      BY <1>0, <1>2, <1>7
    <2>3. SynthPhase'
      BY <2>1, <2>2 DEF SynthPhase
    <2>4. LatePhases'
      BY <1>4, <1>5, <2>2 DEF LatePhases
    <2>5. BreakPhase'
      BY <1>4 DEF Phases, BreakPhase
    <2> QED  BY <1>7, <2>3, <2>4, <2>5 DEF Phases, QuietPhases, ClosePhase, EndPhase
  <1> QED  BY <1>3, <1>6, <1>7

\* Nothing runs on after a stop, so nobody queues the helper again.
StopCuts ==
    stopped => /\ ~HelperQueued
               /\ \A a \in Agents : stage[a] = "running" => aborted[a]

LEMMA PhasesCloseFails ==
    ASSUME Typed, Phases, StopCuts, CloseFails
    PROVE  Phases'
  <1>1. Active = {} /\ sched = "close" /\ HelperQueued
    BY DEF CloseFails, Phases, QuietPhases
  <1>2. declared /\ ~stopped
    BY <1>1 DEF StopCuts, Phases, ClosePhase, Terminal, HelperQueued, Settled
  <1>3. /\ stopped' = stopped /\ declared' = declared /\ accepting' = FALSE /\ broken' = "run"
    BY DEF CloseFails
  <1>4. sched' = "settle"
    BY <1>2, CloseFailsMoves
  <1>5. \A m \in Members : stage'[m] = "idle"
    <2>1. \A m \in Members : stage[m] \in {"new", "mail", "idle"}
      BY <1>1 DEF Active, Typed, StagesFit
    <2> QED  BY <2>1, CloseFailsMoves
  <1>6. QuietPhases'
    BY <1>5 DEF QuietPhases, Active, AtWork, Gates
  <1>7. LatePhases'
    BY <1>3, <1>5 DEF LatePhases
  <1> QED  BY <1>2, <1>3, <1>4, <1>6, <1>7
           DEF Phases, ClosePhase, SynthPhase, EndPhase, BreakPhase

\* And when it moves on.
LEMMA PhasesScheduler ==
    ASSUME Typed, Phases, StopCuts, SchedulerStep
    PROVE  Phases'
  <1>0. Helper \notin Members /\ Helper \in Agents /\ \A m \in Members : m \in Agents
    BY TeamAssumption DEF Agents
  <1>1. ASSUME NEW m \in Members, Collect(m)  PROVE Phases'
    <2>1. sched' = "scan" /\ UNCHANGED <<broken, declared>>
      BY <1>1 DEF Collect, roster, flags
    <2> QED  BY <2>1 DEF Phases, QuietPhases, ClosePhase, LatePhases, SynthPhase, EndPhase, BreakPhase
  <1>2. ASSUME NEW w \in Members, Synthesized(w)  PROVE Phases'
    <2>1. /\ stage[w] = "settled" /\ sched = "synth"
          /\ sched' \in {"ended", "settle"} /\ (sched' = "ended" => stopped)
          /\ UNCHANGED <<result, broken, accepting, stopped, declared>>
      BY <1>2 DEF Synthesized, roster, flags
    <2>2. /\ stage'[w] = "idle"
          /\ \A m \in Members : m # w => stage'[m] = stage[m]
      BY <1>2, CollectMoves
    <2>3. \A m \in Members : m # w => stage[m] = "idle"
      BY <2>1 DEF Phases, SynthPhase
    <2>4. Active' = {}
      BY <2>2, <2>3 DEF Active, AtWork, Gates
    <2>5. LatePhases'
      BY <2>1, <2>2, <2>3 DEF Phases, LatePhases
    <2> QED  BY <2>1, <2>4, <2>5
             DEF Phases, QuietPhases, ClosePhase, SynthPhase, EndPhase, BreakPhase
  <1>3. ASSUME NEW place, Goto(place)
        PROVE  /\ sched' = place /\ Active' = Active /\ HelperActive' = HelperActive
               /\ UNCHANGED <<stage, result, broken, accepting, stopped, declared>>
               /\ Terminal' = Terminal
    BY <1>3 DEF Goto, jobs, roster, flags, Active, HelperActive, Terminal
  <1>4. ASSUME Goto("wait") \/ Goto("drain") \/ Goto("quiet") \/ (Terminal /\ Goto("close")),
               Active = {} \/ sched' = "wait"
        PROVE  Phases'
    BY <1>3, <1>4
       DEF Phases, QuietPhases, ClosePhase, LatePhases, SynthPhase, EndPhase, BreakPhase
  <1>5. CASE Scan
    BY <1>3, <1>4, <1>5, PhasesPulse DEF Scan
  <1>6. CASE Quiet
    <2>1. Active = {}
      BY <1>6 DEF Quiet, Phases, QuietPhases
    <2> QED  BY <1>4, <1>6, <2>1, PhasesPulse DEF Quiet
  <1>7. CASE Drained
    <2>1. Active = {}
      BY <1>7 DEF Drained, Phases, QuietPhases
    <2> QED  BY <1>4, <1>7, <2>1 DEF Drained
  <1>8. CASE Settle
    <2>1. Active = {} /\ ~HelperActive
      BY <1>8 DEF Settle, HelperIsDone, Phases, QuietPhases
    <2>2. LatePhases'
      BY <1>3, <1>8 DEF Settle, Phases, LatePhases
    <2> QED  BY <1>3, <1>8, <2>1, <2>2
             DEF Settle, Phases, QuietPhases, ClosePhase, SynthPhase, EndPhase, BreakPhase
  <1> QED  BY <1>1, <1>2, <1>5, <1>6, <1>7, <1>8, PhasesClose, PhasesCloseFails DEF SchedulerStep

\* After a stop no turn begins, and no agent writes to the helper.
LEMMA StopCutsNext ==
    ASSUME Typed, StopCuts, [Next]_vars
    PROVE  StopCuts'
  <1> USE DEF Typed
  <1>0. Helper \notin Members /\ Helper \in Agents /\ \A m \in Members : m \in Agents
    BY TeamAssumption DEF Agents
  <1>1. ASSUME stopped' => stopped, HelperQueued' => HelperQueued,
               \A b \in Agents : stage'[b] = "running" => stage[b] = "running",
               \A b \in Agents : aborted[b] => aborted'[b] \/ stage'[b] # "running"
        PROVE  StopCuts'
    BY <1>1 DEF StopCuts
  <1>2. ASSUME ~stopped'  PROVE StopCuts'
    BY <1>2 DEF StopCuts
  <1>3. ASSUME UNCHANGED <<stage, stopped>>, \A b \in Agents : aborted[b] => aborted'[b]
        PROVE  StopCuts'
    BY <1>1, <1>3 DEF HelperQueued
  <1>4. ASSUME NEW b \in Agents, NEW to, to # "running", b = Helper => to \notin {"queued", "again"},
               stage' = [stage EXCEPT ![b] = to], stopped' = stopped,
               \A c \in Agents : aborted[c] => aborted'[c] \/ stage'[c] # "running"
        PROVE  StopCuts'
    BY <1>0, <1>1, <1>4 DEF TypeOK, HelperQueued
  <1>5. ASSUME NEW b \in Agents, Finish(b)  PROVE StopCuts'
    <2>1. \A c \in Agents : stage'[c] = "running" => stage[c] = "running"
      BY <1>5, FinishMoves DEF Agents
    <2>2. HelperQueued' => HelperQueued
      BY <1>5, FinishMoves DEF HelperQueued
    <2> QED  BY <1>1, <1>5, <2>1, <2>2 DEF Finish
  <1>6. ASSUME NEW b \in Agents, JobStep(b)  PROVE StopCuts'
    <2>1. CASE Begin(b)
      BY <1>2, <2>1 DEF Begin, flags
    <2>2. CASE b # Helper /\ Wake(b)
      BY <1>4, <2>2 DEF Wake, flags
    <2>3. CASE Continue(b) \/ Await(b) \/ Reviewed(b)
      BY <1>4, <2>3 DEF Continue, Await, Reviewed, flags
    <2> QED  BY <1>5, <1>6, <2>1, <2>2, <2>3 DEF JobStep, Unwind, Return
  <1>7. ASSUME SchedulerStep  PROVE StopCuts'
    <2>1. ASSUME Pulse  PROVE StopCuts'
      <3>1. PICK waking \in SUBSET Wakeable, admitted \in SUBSET Agents :
                 admitted \in SUBSET Queue(waking) /\ Admit(waking, admitted)
        BY <2>1, PulseIs
      <3>2. \A b \in Agents : stage'[b] \in {stage[b], "mail", "wakeGate", "gate"}
        BY <3>1, AdmitMoves
      <3>3. UNCHANGED <<stopped, aborted>>
        BY <2>1 DEF Pulse
      <3> QED  BY <1>0, <1>1, <3>2, <3>3 DEF HelperQueued
    <2>2. ASSUME NEW m \in Members, Collect(m) \/ Synthesized(m)  PROVE StopCuts'
      <3>1. \A b \in Agents : stage'[b] \in {stage[b], "idle", "done"}
        BY <2>2, CollectMoves DEF Agents
      <3>2. UNCHANGED <<stopped, aborted>>
        BY <2>2 DEF Collect, Synthesized, flags
      <3> QED  BY <1>0, <1>1, <3>1, <3>2 DEF HelperQueued
    <2>3. CASE Close
      <3>1. \A b \in Agents : stage'[b] \in {stage[b], "idle", "wakeGate"}
        BY <2>3, ZenonT(40) DEF Close, TypeOK, Agents
      <3>2. UNCHANGED <<stopped, aborted>>
        BY <2>3 DEF Close
      <3> QED  BY <1>0, <1>1, <3>1, <3>2 DEF HelperQueued
    <2>4. CASE CloseFails
      <3>1. \A b \in Agents : stage'[b] \in {stage[b], "idle", "done"}
        BY <2>4, CloseFailsMoves DEF Agents
      <3>2. UNCHANGED <<stopped, aborted>>
        BY <2>4 DEF CloseFails
      <3> QED  BY <1>0, <1>1, <3>1, <3>2 DEF HelperQueued
    <2>5. ASSUME NEW place, Goto(place)  PROVE StopCuts'
      BY <1>3, <2>5 DEF Goto, jobs, flags
    <2> QED  BY <1>7, <2>1, <2>2, <2>3, <2>4, <2>5 DEF SchedulerStep, Scan, Quiet, Drained, Settle
  <1>8. ASSUME Answers  PROVE StopCuts'
    <2>1. ASSUME NEW b \in Agents, NEW how, Reply(b, how)  PROVE StopCuts'
      <3>1. /\ stage' = [stage EXCEPT ![b] = "turned"] /\ stopped' = stopped
            /\ \A c \in Agents : c # b => aborted'[c] = aborted[c]
        BY <2>1 DEF Reply, ArriveAt, TypeOK
      <3>2. stage'[b] = "turned"
        BY <3>1 DEF TypeOK
      <3> QED  BY <1>4, <3>1, <3>2
    <2>2. ASSUME NEW b \in Agents, NEW verdict, Verdict(b, verdict)  PROVE StopCuts'
      BY <1>4, <2>2 DEF Verdict, ArriveAt
    <2> QED  BY <1>8, <2>1, <2>2 DEF Answers, Provider, Review
  <1>9. CASE Mailing
    <2>1. ASSUME NEW b \in Agents, Deliver(b, "mail"), ~stopped  PROVE StopCuts'
      BY <1>2, <2>1 DEF Deliver, flags
    <2>2. ASSUME NEW a \in Agents, Tell(a) \/ \E b \in Agents : Send(a, b)  PROVE ~stopped
      BY <2>2 DEF Tell, Send, Running, StopCuts
    <2>3. ASSUME NEW m \in Members, Receive(m)  PROVE StopCuts'
      BY <1>3, <2>3 DEF Receive, jobs, flags
    <2> QED  BY <1>9, <2>1, <2>2, <2>3 DEF Mailing, Tell, Send
  <1>10. CASE GraceOver
    <2>1. UNCHANGED <<stage, stopped>> /\ \A b \in Agents : aborted[b] => aborted'[b]
      BY <1>10 DEF GraceOver, Grace
    <2> QED  BY <1>3, <2>1
  <1>11. CASE User
    <2>1. CASE Stop
      <3>1. /\ \A b \in Agents : stage'[b] = "running" => stage[b] = "running"
            /\ \A b \in Agents : stage[b] = "running" => aborted'[b]
            /\ stage'[Helper] = IF HelperQueued THEN "done" ELSE stage[Helper]
        BY <1>0, <2>1 DEF Stop, TypeOK
      <3> QED  BY <3>1 DEF StopCuts, HelperQueued
    <2>2. ASSUME User, ~Stop  PROVE ~stopped => ~stopped'
      BY <2>2 DEF User, AddHelper, Pause, Resume, PauseOne, StartOne, RequestWake, Handoff, flags
    <2>3. stopped => FALSE
      BY <1>11 DEF User, AddHelper, Pause, Resume, Stop, PauseOne, StartOne, RequestWake, Handoff,
                   Running
    <2> QED  BY <1>2, <1>11, <2>1, <2>2, <2>3
  <1>12. CASE UNCHANGED vars
    BY <1>3, <1>12 DEF vars, jobs, flags
  <1> QED  BY <1>6, <1>7, <1>8, <1>9, <1>10, <1>11, <1>12 DEF Next, MicroStep

LEMMA PhasesInit == Init => Phases /\ StopCuts
  BY DEF Init, Phases, QuietPhases, ClosePhase, LatePhases, SynthPhase, EndPhase, BreakPhase,
         StopCuts

LEMMA PhasesNext ==
    ASSUME Typed, Phases, StopCuts, [Next]_vars
    PROVE  Phases' /\ StopCuts'
  BY PhasesOutside, PhasesScheduler, OutsideNext, StopCutsNext

\* When a run reports its end, all its members are idle and its helper is not at work
\* unless the run was stopped; and every member has a result, except in a completed run
\* that broke at its close.  For any roster.
THEOREM RunsEndQuietly == Spec => []EndedIsQuiet
  <1>1. Typed /\ Phases => EndedIsQuiet
    BY DEF Typed, StagesFit, Phases, QuietPhases, LatePhases, EndPhase, BreakPhase, EndedIsQuiet,
           Active
  <1>2. Typed /\ [Next]_vars => Typed'
    BY TypeNext
  <1>3. Typed /\ Phases /\ StopCuts /\ [Next]_vars => (Phases /\ StopCuts)'
    BY PhasesNext
  <1> QED  BY <1>1, <1>2, <1>3, TypeInit, PhasesInit, PTL DEF Spec

-----------------------------------------------------------------------------
(* The slots *)

Occupied == {a \in Agents : stage[a] \in AtWork \cup {"settled"}}

\* The slots in use are those the code counts.
LEMMA OccupiedIsBusy ==
    ASSUME Typed
    PROVE  /\ IsFiniteSet(Occupied) /\ Busy = Cardinality(Occupied)
           /\ Cardinality(Occupied) \in Nat
  <1>0. Helper \notin Members /\ Agents = Members \cup {Helper} /\ IsFiniteSet(Members)
    BY TeamAssumption DEF Agents
  <1>1. IsFiniteSet(Active) /\ Helper \notin Active
    <2>1. Active \in SUBSET Members
      BY DEF Active
    <2> QED  BY <1>0, <2>1, FS_Subset
  <1>2. Cardinality(Active) \in Nat
    BY <1>1, FS_CardinalityType
  <1>3. stage[Helper] # "settled"
    BY DEF Typed, StagesFit, AtWork, Gates
  <1>4. Occupied = IF HelperActive THEN Active \cup {Helper} ELSE Active
    BY <1>0, <1>3 DEF Occupied, Active, HelperActive
  <1>5. /\ IsFiniteSet(Active \cup {Helper})
        /\ Cardinality(Active \cup {Helper}) = Cardinality(Active) + 1
    BY <1>1, FS_AddElement
  <1> QED  BY <1>1, <1>2, <1>4, <1>5 DEF Busy

\* Whatever frees slots is fine.
LEMMA SlotsFreed ==
    ASSUME Typed, SlotsRespected, Occupied' \subseteq Occupied
    PROVE  SlotsRespected'
  <1>1. Cardinality(Occupied') <= Cardinality(Occupied) /\ IsFiniteSet(Occupied')
    BY OccupiedIsBusy, FS_Subset
  <1>2. Cardinality(Occupied') \in Nat /\ Cardinality(Occupied) \in Nat
    BY <1>1, OccupiedIsBusy, FS_CardinalityType
  <1>3. Cardinality(Occupied) <= Concurrency
    BY DEF SlotsRespected, Occupied
  <1>4. Cardinality(Occupied') <= Concurrency
    BY <1>1, <1>2, <1>3, TeamAssumption
  <1> QED  BY <1>4 DEF SlotsRespected, Occupied

\* A pulse fills the room there is, no more.
LEMMA SlotsPulse ==
    ASSUME Typed, SlotsRespected, Pulse
    PROVE  SlotsRespected'
  <1>1. PICK waking \in SUBSET Wakeable, admitted \in SUBSET Agents :
             admitted \in SUBSET Queue(waking) /\ Admit(waking, admitted)
    BY PulseIs
  <1>2. admitted \subseteq Agents /\ IsFiniteSet(admitted)
    <2>1. IsFiniteSet(Agents)
      BY TeamAssumption, FS_AddElement DEF Agents
    <2>2. admitted \in SUBSET Agents
      BY <1>1 DEF Queue, Wakeable, Agents
    <2> QED  BY <2>1, <2>2, FS_Subset
  <1>3. Occupied' \subseteq Occupied \cup admitted
    <2>1. ASSUME NEW a \in Agents, a \in Occupied', a \notin admitted  PROVE a \in Occupied
      <3>1. stage'[a] \in {"mail", stage[a]}
        BY <1>1, <2>1, AdmitMoves
      <3> QED  BY <2>1, <3>1 DEF Occupied, AtWork, Gates
    <2> QED  BY <2>1 DEF Occupied
  <1>4. Cardinality(admitted) <= Room /\ Cardinality(admitted) \in Nat
    BY <1>1, <1>2, FS_CardinalityType DEF Admit
  <1>5. /\ IsFiniteSet(Occupied) /\ Cardinality(Occupied) \in Nat
        /\ Busy = Cardinality(Occupied) /\ Cardinality(Occupied) <= Concurrency
    BY OccupiedIsBusy DEF SlotsRespected, Occupied
  <1>6. Cardinality(Occupied) + Cardinality(admitted) <= Concurrency
    BY <1>4, <1>5, TeamAssumption DEF Room
  <1>7. /\ IsFiniteSet(Occupied \cup admitted)
        /\ Cardinality(Occupied \cup admitted)
             = Cardinality(Occupied) + Cardinality(admitted) - Cardinality(Occupied \cap admitted)
    BY <1>2, <1>5, FS_Union
  <1>8. Cardinality(Occupied \cap admitted) \in Nat
    <2>1. IsFiniteSet(Occupied \cap admitted)
      BY <1>5, FS_Subset, Occupied \cap admitted \in SUBSET Occupied
    <2> QED  BY <2>1, FS_CardinalityType
  <1>9. /\ IsFiniteSet(Occupied')
        /\ Cardinality(Occupied') <= Cardinality(Occupied \cup admitted)
    BY <1>3, <1>7, FS_Subset
  <1>10. Cardinality(Occupied') \in Nat
    BY <1>9, FS_CardinalityType
  <1>11. Cardinality(Occupied') <= Concurrency
    BY <1>4, <1>5, <1>6, <1>7, <1>8, <1>9, <1>10, TeamAssumption
  <1> QED  BY <1>11 DEF SlotsRespected, Occupied

\* The synthesis is alone.
LEMMA SlotsClose ==
    ASSUME Typed, Phases, SlotsRespected, Close
    PROVE  SlotsRespected'
  <1>0. Helper \notin Members /\ Helper \in Agents /\ \A m \in Members : m \in Agents
    BY TeamAssumption DEF Agents
  <1> DEFINE rest == [a \in Agents |-> IF stage[a] \in {"new", "mail"} THEN "idle" ELSE stage[a]]
  <1>1. \A a \in Agents : rest[a] \in {"idle", stage[a]}
    OBVIOUS
  <1>2. \/ stage' = rest
        \/ /\ ~Terminal
           /\ \E w \in Members : stage' = [rest EXCEPT ![w] = "wakeGate"]
    BY DEF Close
  <1>3. CASE stage' = rest
    BY <1>1, <1>3, SlotsFreed DEF Occupied, AtWork, Gates
  <1>4. ASSUME ~Terminal, NEW w \in Members, stage' = [rest EXCEPT ![w] = "wakeGate"]
        PROVE  SlotsRespected'
    <2>1. Active = {} /\ stage[Helper] \in Settled
      BY <1>4 DEF Close, Phases, QuietPhases, ClosePhase
    <2>2. \A a \in Agents : a \notin Occupied
      BY <2>1 DEF Occupied, Agents, Active, AtWork, Gates, Settled
    <2>3. \A a \in Agents : a # w => stage'[a] \in {"idle", stage[a]}
      BY <1>1, <1>4
    <2>4. Occupied' \in SUBSET {w}
      BY <2>2, <2>3 DEF Occupied, AtWork, Gates
    <2>5. Cardinality(Occupied') <= Cardinality({w}) /\ Cardinality({w}) = 1 /\ IsFiniteSet(Occupied')
      BY <2>4, FS_Singleton, FS_Subset
    <2>6. Cardinality(Occupied') \in Nat
      BY <2>5, FS_CardinalityType
    <2>7. Cardinality(Occupied') <= Concurrency
      BY <2>5, <2>6, TeamAssumption
    <2> QED  BY <2>7 DEF SlotsRespected, Occupied
  <1> QED  BY <1>2, <1>3, <1>4

LEMMA SlotsNext ==
    ASSUME Typed, Phases, SlotsRespected, [Next]_vars
    PROVE  SlotsRespected'
  <1>0. Helper \notin Members /\ Helper \in Agents /\ Agents = Members \cup {Helper}
    BY TeamAssumption DEF Agents
  <1>1. CASE ~SchedulerStep
    <2>1. Typed'
      BY TypeNext
    <2>2. stage'[Helper] # "settled" /\ Outside
      BY <1>1, <2>1, OutsideNext DEF Typed, StagesFit, AtWork, Gates
    <2>3. Occupied' \subseteq Occupied
      <3>1. ASSUME NEW m \in Members, m \in Occupied'  PROVE m \in Occupied
        BY <2>2, <3>1 DEF Outside, Occupied
      <3>2. Helper \in Occupied' => Helper \in Occupied
        BY <2>2 DEF Outside, Occupied
      <3> QED  BY <1>0, <3>1, <3>2 DEF Occupied
    <2> QED  BY <2>3, SlotsFreed
  <1>2. ASSUME NEW m \in Members, Collect(m) \/ Synthesized(m)  PROVE SlotsRespected'
    <2>1. \A a \in Agents : stage'[a] \in {"idle", "done", stage[a]}
      BY <1>0, <1>2, CollectMoves
    <2> QED  BY <2>1, SlotsFreed DEF Occupied, AtWork, Gates
  <1>3. ASSUME NEW place, Goto(place)  PROVE SlotsRespected'
    BY <1>3 DEF Goto, jobs, SlotsRespected
  <1>4. CASE CloseFails
    <2>1. \A a \in Agents : stage'[a] \in {"idle", "done", stage[a]}
      BY <1>0, <1>4, CloseFailsMoves
    <2> QED  BY <2>1, SlotsFreed DEF Occupied, AtWork, Gates
  <1> QED  BY <1>1, <1>2, <1>3, <1>4, SlotsPulse, SlotsClose
           DEF SchedulerStep, Scan, Quiet, Drained, Settle

\* The crew never runs more jobs at once than it has slots, for any roster and any
\* number of slots.
THEOREM SlotsSuffice == Spec => []SlotsRespected
  <1>1. Init => SlotsRespected
    <2> SUFFICES ASSUME Init  PROVE SlotsRespected
      OBVIOUS
    <2>1. \A a \in Agents : stage[a] \notin AtWork \cup {"settled"}
      BY DEF Init, AtWork, Gates
    <2>2. {a \in Agents : stage[a] \in AtWork \cup {"settled"}} = {}
      BY <2>1
    <2> QED  BY <2>2, FS_EmptySet, TeamAssumption DEF SlotsRespected
  <1>2. Typed /\ [Next]_vars => Typed'
    BY TypeNext
  <1>3. Typed /\ Phases /\ StopCuts /\ [Next]_vars => (Phases /\ StopCuts)'
    BY PhasesNext
  <1>4. Typed /\ Phases /\ SlotsRespected /\ [Next]_vars => SlotsRespected'
    BY SlotsNext
  <1> QED  BY <1>1, <1>2, <1>3, <1>4, TypeInit, PhasesInit, PTL DEF Spec

-----------------------------------------------------------------------------
(* The answer that completed the run *)

LEMMA CompletionOutside ==
    ASSUME Typed, CompletionKept, Outside
    PROVE  CompletionKept'
  <1>1. CASE declared /\ broken' = "nothing"
    <2>1. PICK m \in Members : result[m] = "ok" /\ stage[m] \in {"settled", "idle"}
      BY <1>1 DEF CompletionKept, Outside
    <2>2. stage[m] \notin AtWork
      BY <2>1 DEF AtWork, Gates
    <2>3. result'[m] = "ok" /\ stage'[m] \in {"settled", "idle"}
      BY <2>1, <2>2 DEF Outside
    <2> QED  BY <2>3 DEF CompletionKept
  <1>2. CASE ~declared /\ declared' /\ broken' = "nothing"
    BY <1>2 DEF CompletionKept, Outside
  <1> QED  BY <1>1, <1>2 DEF CompletionKept

LEMMA CompletionNext ==
    ASSUME Typed, CompletionKept, [Next]_vars
    PROVE  CompletionKept'
  <1>0. Helper \notin Members /\ Helper \in Agents /\ \A m \in Members : m \in Agents
    BY TeamAssumption DEF Agents
  <1>1. ASSUME \A m \in Members : stage[m] \in {"settled", "idle"} => stage'[m] \in {"settled", "idle"},
               \A m \in Members : result[m] = "ok" => result'[m] = "ok",
               UNCHANGED <<declared, broken>>
        PROVE  CompletionKept'
    BY <1>1 DEF CompletionKept
  <1>2. ASSUME NEW m \in Members, Collect(m) \/ Synthesized(m)  PROVE CompletionKept'
    <2>1. \A b \in Members : stage'[b] \in {stage[b], "idle"}
      BY <1>2, CollectMoves
    <2>2. UNCHANGED <<result, declared, broken>>
      BY <1>2 DEF Collect, Synthesized, roster, flags
    <2> QED  BY <1>1, <2>1, <2>2
  <1>3. ASSUME NEW place, Goto(place)  PROVE CompletionKept'
    BY <1>1, <1>3 DEF Goto, jobs, roster, flags
  <1>4. ASSUME Pulse, ~Terminal  PROVE CompletionKept'
    BY <1>4 DEF Pulse, Terminal, CompletionKept
  <1>5. CASE Close
    <2>1. CASE Terminal
      <3>1. /\ stage' = [a \in Agents |-> IF stage[a] \in {"new", "mail"} THEN "idle" ELSE stage[a]]
            /\ result' = [m \in Members |-> IF result[m] # "none" THEN result[m]
                                            ELSE IF stopped THEN "stopped" ELSE "skipped"]
            /\ UNCHANGED <<declared, broken>>
        BY <1>5, <2>1 DEF Close
      <3> QED  BY <1>0, <1>1, <3>1
    <2>2. CASE ~Terminal
      BY <1>5, <2>2 DEF Close, Terminal, CompletionKept
    <2> QED  BY <2>1, <2>2
  <1>6. CASE CloseFails
    BY <1>6 DEF CloseFails, CompletionKept
  <1>7. CASE ~SchedulerStep
    BY <1>7, OutsideNext, CompletionOutside
  <1> QED  BY <1>2, <1>3, <1>4, <1>5, <1>6, <1>7 DEF SchedulerStep, Scan, Quiet, Drained, Settle

\* A run that counts as completed has the answer that completed it, unless cancelling a
\* queued helper threw, at that moment or at the close.  For any roster.
THEOREM CompletionsAreAnswered == Spec => []CompletionIsAnswered
  <1>1. Init => CompletionKept
    BY DEF Init, CompletionKept
  <1>2. CompletionKept => CompletionIsAnswered
    BY DEF CompletionKept, CompletionIsAnswered
  <1>3. Typed /\ [Next]_vars => Typed'
    BY TypeNext
  <1>4. Typed /\ CompletionKept /\ [Next]_vars => CompletionKept'
    BY CompletionNext
  <1> QED  BY <1>1, <1>2, <1>3, <1>4, TypeInit, PTL DEF Spec

-----------------------------------------------------------------------------
(* Turns that were cut off *)

Resumable == CutOff /\ InterruptionIsResumed

\* Stages move, but no turn that was cut off does.
LEMMA CutOffKept ==
    ASSUME Resumable, stopped => stopped', superseded' = superseded,
           UNCHANGED <<aborted, result, interrupted>>,
           \A a \in Agents : outcome'[a] \in {outcome[a], "none"},
           \A a \in Agents : stage[a] = "running" => stage'[a] = "running"
    PROVE  Resumable'
  BY DEF Resumable, CutOff, InterruptionIsResumed

\* A job that is not running ends or goes on.
LEMMA CutOffJob ==
    ASSUME Typed, Resumable, NEW a \in Agents, JobStep(a)
    PROVE  Resumable'
  <1> USE DEF Typed
  <1>0. Helper \notin Members /\ Helper \in Agents /\ \A m \in Members : m \in Agents
    BY TeamAssumption DEF Agents
  <1>1. stopped' = stopped /\ superseded' = superseded /\ aborted' = aborted
    BY DEF JobStep, Wake, Begin, Unwind, Continue, Await, Reviewed, Return, Finish, roster, flags
  <1>2. CASE a # Helper /\ Wake(a)
    <2>1. a \in Members
      BY <1>2 DEF Agents
    <2>2. /\ \A b \in Agents : stage[b] = "running" => stage'[b] = "running"
          /\ outcome' = outcome /\ interrupted' = interrupted
          /\ \A m \in Members : result'[m] = result[m] \/ (result'[m] = "stopped" /\ stopped)
      BY <1>2, <2>1 DEF Wake, TypeOK
    <2> QED  BY <1>1, <2>2 DEF Resumable, CutOff, InterruptionIsResumed
  <1>3. CASE Begin(a) \/ Reviewed(a)
    <2>1. /\ \A b \in Agents : stage[b] = "running" => stage'[b] = "running"
          /\ \A b \in Agents : outcome'[b] \in {outcome[b], "none"}
          /\ UNCHANGED <<result, interrupted>>
      BY <1>3 DEF Begin, Reviewed, TypeOK, roster
    <2> QED  BY <1>1, <2>1, CutOffKept
  <1>4. ASSUME stage[a] # "running", outcome' = [outcome EXCEPT ![a] = "none"],
               \A b \in Agents : stage[b] = "running" => stage'[b] = "running",
               interrupted' = [interrupted EXCEPT ![a] = FALSE]
        PROVE  CutOff'
    BY <1>1, <1>4 DEF Resumable, CutOff, TypeOK
  <1>5. CASE Continue(a) \/ Await(a)
    <2>1. stage[a] # "running" /\ (\A b \in Agents : stage[b] = "running" => stage'[b] = "running")
      BY <1>5 DEF Continue, Await, TypeOK
    <2>2. CutOff'
      BY <1>4, <1>5, <2>1 DEF Continue, Await
    <2>3. result' = result
      BY <1>5 DEF Continue, Await, roster
    <2> QED  BY <1>1, <2>2, <2>3 DEF Resumable, InterruptionIsResumed
  <1>6. CASE Unwind(a) \/ Return(a)
    <2>1. /\ stage[a] # "running" /\ Finish(a)
          /\ stopped \/ outcome[a] # "stopped" \/ ~interrupted[a]
      BY <1>6 DEF Unwind, Return
    <2>2. ASSUME NEW b \in Agents, stage[b] = "running"  PROVE stage'[b] = "running"
      <3>1. CASE b = Helper
        BY <2>1, <2>2, <3>1, FinishMoves DEF HelperQueued
      <3>2. CASE b # Helper
        BY <2>1, <2>2, <3>2, FinishMoves DEF Agents
      <3> QED  BY <3>1, <3>2
    <2>3. CutOff'
      BY <1>4, <2>1, <2>2 DEF Finish, Rested
    <2>4. ASSUME NEW m \in Members, result'[m] = "stopped", m # a  PROVE stopped
      <3>1. result[m] = "stopped"
        BY <2>1, <2>4 DEF Finish, TypeOK
      <3> QED  BY <3>1 DEF Resumable, InterruptionIsResumed
    <2>5. ASSUME a \in Members, result'[a] = "stopped"  PROVE stopped
      <3>1. ResultOf(a) = "stopped"
        BY <1>0, <2>1, <2>5 DEF Finish, TypeOK
      <3>2. a \notin superseded /\ (stopped \/ outcome[a] = "stopped")
        BY <3>1 DEF ResultOf
      <3> QED  BY <2>1, <3>2 DEF Resumable, CutOff
    <2> QED  BY <1>1, <2>3, <2>4, <2>5 DEF Resumable, InterruptionIsResumed
  <1> QED  BY <1>2, <1>3, <1>5, <1>6 DEF JobStep

LEMMA CutOffScheduler ==
    ASSUME Typed, Phases, Resumable, SchedulerStep
    PROVE  Resumable'
  <1> USE DEF Typed
  <1>0. Helper \notin Members /\ Helper \in Agents /\ \A m \in Members : m \in Agents
    BY TeamAssumption DEF Agents
  <1>1. ASSUME NEW m \in Members, Collect(m) \/ Synthesized(m)  PROVE Resumable'
    <2>1. ASSUME NEW a \in Agents, stage[a] = "running"  PROVE stage'[a] = "running"
      <3>1. a = Helper \/ a \in Members
        BY DEF Agents
      <3>2. stage[m] # "running"
        BY <1>1 DEF Collect, Synthesized
      <3> QED  BY <1>1, <2>1, <3>1, <3>2, CollectMoves DEF HelperQueued
    <2>2. UNCHANGED <<stopped, superseded, aborted, result, interrupted, outcome>>
      BY <1>1 DEF Collect, Synthesized, roster, flags
    <2> QED  BY <2>1, <2>2, CutOffKept
  <1>2. ASSUME NEW place, Goto(place)  PROVE Resumable'
    BY <1>2, CutOffKept DEF Goto, jobs, roster, flags
  <1>3. ASSUME Pulse  PROVE Resumable'
    <2>1. PICK waking \in SUBSET Wakeable, admitted \in SUBSET Agents :
               admitted \in SUBSET Queue(waking) /\ Admit(waking, admitted)
      BY <1>3, PulseIs
    <2>2. ASSUME NEW a \in Agents, stage[a] = "running"  PROVE stage'[a] = "running"
      <3>1. a \notin waking /\ a \notin admitted
        BY <2>1, <2>2 DEF Queue, Wakeable, Waiting
      <3> QED  BY <2>1, <2>2, <3>1, AdmitMoves
    <2> QED  BY <1>3, <2>2, CutOffKept DEF Pulse
  <1>4. CASE Close
    <2>1. \A m \in Members : stage[m] # "running"
      BY <1>4 DEF Close, Phases, QuietPhases, Active, AtWork
    <2>2. stage[Helper] = "running" => stage'[Helper] = "running"
      BY <1>0, <1>4 DEF Close
    <2>3. \A m \in Members : result'[m] = "stopped" => stopped \/ result[m] = "stopped"
      BY <1>4 DEF Close
    <2>4. UNCHANGED <<stopped, superseded, aborted, interrupted, outcome>>
      BY <1>4 DEF Close
    <2>5. CutOff'
      BY <2>1, <2>2, <2>4 DEF Resumable, CutOff, Agents
    <2> QED  BY <2>3, <2>4, <2>5 DEF Resumable, InterruptionIsResumed
  <1>5. CASE CloseFails
    <2>1. \A a \in Agents : stage[a] # "running"
      BY <1>5 DEF CloseFails, HelperQueued, Phases, QuietPhases, Active, AtWork, Agents
    <2>2. UNCHANGED <<stopped, superseded, aborted, interrupted, outcome>>
      BY <1>5 DEF CloseFails
    <2>3. CutOff'
      BY <2>1, <2>2 DEF Resumable, CutOff
    <2>4. InterruptionIsResumed'
      BY <1>5, CloseFailsMoves DEF InterruptionIsResumed
    <2> QED  BY <2>3, <2>4 DEF Resumable
  <1> QED  BY <1>1, <1>2, <1>3, <1>4, <1>5 DEF SchedulerStep, Scan, Quiet, Drained, Settle

LEMMA CutOffEvents ==
    ASSUME Typed, Resumable, Answers \/ GraceOver \/ Mailing
    PROVE  Resumable'
  <1> USE DEF Typed
  <1>1. ASSUME NEW a \in Agents, NEW how \in Replies, Reply(a, how)  PROVE Resumable'
    <2>1. UNCHANGED <<stopped, superseded, interrupted, result>>
      BY <1>1 DEF Reply, roster
    <2>2. /\ ~aborted'[a] /\ outcome'[a] = how /\ (how = "stopped" => aborted[a])
          /\ \A b \in Agents : b # a => /\ aborted'[b] = aborted[b] /\ outcome'[b] = outcome[b]
                                        /\ stage'[b] = stage[b]
      BY <1>1 DEF Reply, ArriveAt, TypeOK
    <2>3. CutOff'
      BY <2>1, <2>2 DEF Resumable, CutOff
    <2> QED  BY <2>1, <2>3 DEF Resumable, InterruptionIsResumed
  <1>2. ASSUME NEW a \in Agents, NEW verdict \in {"accepted", "refused"}, Verdict(a, verdict)
        PROVE  Resumable'
    <2>1. UNCHANGED <<stopped, superseded, interrupted, result, aborted>>
      BY <1>2 DEF Verdict, roster
    <2>2. /\ outcome'[a] # "stopped" /\ stage[a] # "running"
          /\ \A b \in Agents : b # a => outcome'[b] = outcome[b] /\ stage'[b] = stage[b]
      BY <1>2 DEF Verdict, ArriveAt, TypeOK
    <2>3. CutOff'
      BY <2>1, <2>2 DEF Resumable, CutOff
    <2> QED  BY <2>1, <2>3 DEF Resumable, InterruptionIsResumed
  <1>3. CASE Grace
    BY <1>3 DEF Grace, Resumable, CutOff, InterruptionIsResumed
  <1>4. CASE Mailing
    <2>1. ASSUME NEW b \in Agents, Deliver(b, "mail")  PROVE Resumable'
      <3>1. \A a \in Agents : stage[a] = "running" => stage'[a] = "running"
        BY <2>1, DeliverMoves DEF Agents
      <3>2. UNCHANGED <<superseded, aborted, result, interrupted, outcome, stopped>>
        BY <2>1, DeliverMoves DEF flags
      <3> QED  BY <3>1, <3>2, CutOffKept
    <2>2. ASSUME NEW m \in Members, Receive(m)  PROVE Resumable'
      BY <2>2, CutOffKept DEF Receive, jobs, flags
    <2> QED  BY <1>4, <2>1, <2>2 DEF Mailing, Send, Tell
  <1> QED  BY <1>1, <1>2, <1>3, <1>4 DEF Answers, Provider, Review, GraceOver

LEMMA CutOffUser ==
    ASSUME Typed, Resumable, User
    PROVE  Resumable'
  <1> USE DEF Typed
  <1>0. Helper \notin Members /\ Helper \in Agents /\ \A m \in Members : m \in Agents
    BY TeamAssumption DEF Agents
  <1>1. CASE AddHelper
    <2>1. \A a \in Agents : stage[a] = "running" => stage'[a] = "running"
      BY <1>1 DEF AddHelper, TypeOK
    <2> QED  BY <1>1, <2>1, CutOffKept DEF AddHelper, roster, flags
  <1>2. CASE Resume \/ \E a \in Agents : StartOne(a)
    <2>1. interrupted' = interrupted
      BY <1>2 DEF Resume, StartOne, KeptOnStart, TypeOK
    <2>2. UNCHANGED <<stage, aborted, outcome, roster, stopped>>
      BY <1>2 DEF Resume, StartOne
    <2> QED  BY <2>1, <2>2, CutOffKept DEF roster
  <1>3. ASSUME NEW them, PauseControls(them), UNCHANGED <<stage, outcome, roster, stopped>>
        PROVE  Resumable'
    BY <1>3 DEF PauseControls, Resumable, CutOff, InterruptionIsResumed, roster
  <1>4. CASE Pause \/ \E a \in Agents : PauseOne(a)
    BY <1>3, <1>4 DEF Pause, PauseOne
  <1>5. CASE Stop
    <2>1. \A a \in Agents : stage[a] = "running" => stage'[a] = "running"
      BY <1>5 DEF Stop, TypeOK, HelperQueued
    <2> QED  BY <1>5, <2>1 DEF Stop, Resumable, CutOff, InterruptionIsResumed
  <1>6. CASE \E m \in Members : RequestWake(m) \/ Handoff(m)
    BY <1>6, CutOffKept DEF RequestWake, Handoff, jobs, flags
  <1> QED  BY <1>1, <1>2, <1>4, <1>5, <1>6 DEF User

LEMMA CutOffNext ==
    ASSUME Typed, Phases, Resumable, [Next]_vars
    PROVE  Resumable'
  <1>1. CASE UNCHANGED vars
    BY <1>1, CutOffKept DEF vars, jobs, roster, flags
  <1> QED  BY <1>1, CutOffJob, CutOffScheduler, CutOffEvents, CutOffUser DEF Next, MicroStep

\* A turn that a pause cut off goes on after it: the result "stopped" exists only in a
\* run that was stopped, for any roster.
THEOREM InterruptionsAreResumed == Spec => []InterruptionIsResumed
  <1>1. Init => Resumable
    BY DEF Init, Resumable, CutOff, InterruptionIsResumed
  <1>2. Resumable => InterruptionIsResumed
    BY DEF Resumable
  <1>3. Typed /\ [Next]_vars => Typed'
    BY TypeNext
  <1>4. Typed /\ Phases /\ StopCuts /\ [Next]_vars => (Phases /\ StopCuts)'
    BY PhasesNext
  <1>5. Typed /\ Phases /\ Resumable /\ [Next]_vars => Resumable'
    BY CutOffNext
  <1> QED  BY <1>1, <1>2, <1>3, <1>4, <1>5, TypeInit, PhasesInit, PTL DEF Spec

-----------------------------------------------------------------------------
(* The message queue *)

\* A stored message was written, for a run that had started by then; and the queue
\* holds it once.
Written ==
    /\ \A i, j \in DOMAIN queue : queue[i] = queue[j] => i = j
    /\ \A m \in Messages :
          /\ \/ Queued(m) \/ m \in routing \/ m = launching
             \/ m \in cancelled \cup overtaken \cup restored \/ delivered[m] # 0
             => item[m].state # "new"
          /\ item[m].state # "new" => item[m].run \in 1..started

\* Runs are numbered as they start, and a run is registered only in an empty place.
Numbered ==
    /\ current <= started /\ unwinding \subseteq 1..started
    /\ starting.phase = "cleared" => current = 0
    /\ starting.phase = "idle" <=> starting.by = NoMessage

\* A dispatch and the start of its run belong together; the message is not for the run
\* that works by then, and was taken back at most by the run it was for.
Launches ==
    /\ launched = "none" <=> launching = NoMessage
    /\ launched = "pending" <=> starting.by \in Messages
    /\ starting.by \in Messages => starting.by = launching
    /\ launching # NoMessage =>
          /\ item[launching].run # current
          /\ \/ item[launching].state = "starting" /\ Queued(launching)
             \/ launching \in overtaken /\ item[launching].state = "queued"
          /\ launched = "ok" => delivered[launching] = kept[launching] + 1
          /\ launched = "pending" => delivered[launching] = kept[launching]
          /\ launched = "failed" => delivered[launching] = kept[launching] \/ ~Queued(launching)

\* A message is in one place, whatever it kept from deliveries before.
Placed ==
    \A m \in Messages :
        /\ delivered[m] \in {kept[m], kept[m] + 1}
        /\ Queued(m) => delivered[m] = kept[m] \/ (m = launching /\ launched = "ok")
        /\ m \in cancelled => ~Queued(m) /\ (delivered[m] = kept[m] \/ m \in overtaken)
        /\ item[m].state # "new" => Queued(m) \/ delivered[m] # kept[m] \/ m \in cancelled

\* The Nurse carries what a run that has not finished was sent.
Guided ==
    \A m \in Messages : carried[m] # 0 =>
        /\ Queued(m) /\ item[m].state = "steering"
        /\ carried[m] = item[m].run /\ carried[m] \in ({current} \cup unwinding) \ dead

\* What a queued message waits for exists.
Awaited ==
    \A m \in Messages : Queued(m) =>
        /\ item[m].state = "checking" => item[m].mode = "auto" /\ m \in routing
        /\ item[m].state = "steering" => carried[m] # 0
        /\ item[m].state = "starting" => m = launching

\* What a restart found stays held back.
HeldSince == \A m \in restored : Queued(m) => item[m].hold

\* The head of the queue is looked at whenever a run ends, a launch returns or a
\* judgement comes.
HeadSeen ==
    current = 0 /\ unwinding = {} /\ starting = Idle /\ ~Dispatching /\ queue # <<>>
        => item[queue[1]].hold \/ excused \/ item[queue[1]].state # "queued"

Stored ==
    [state : {"new", "checking", "queued", "steering", "starting"}, hold : BOOLEAN,
     run : 0..MaxRuns, mode : {"auto", "queue", "steer"}, steer : BOOLEAN]

QueueTyped == QueueTypeOK /\ carried \in [Messages -> 0..MaxRuns]

QueueInv ==
    /\ QueueTyped /\ Written /\ Numbered /\ Launches
    /\ Placed /\ Guided /\ Awaited /\ HeldSince /\ HeadSeen

\* Taking a message out leaves the others in their order.
LEMMA WithoutIs ==
    ASSUME NEW s \in Seq(Messages), NEW m,
           \A i, j \in DOMAIN s : s[i] = s[j] => i = j
    PROVE  /\ Without(s, m) \in Seq(Messages)
           /\ Len(Without(s, m)) <= Len(s)
           /\ Range(Without(s, m)) = Range(s) \ {m}
           /\ \A i, j \in DOMAIN Without(s, m) : Without(s, m)[i] = Without(s, m)[j] => i = j
           /\ s # <<>> /\ s[1] # m => Without(s, m) # <<>> /\ Without(s, m)[1] = s[1]
  <1>0. Len(s) \in Nat /\ DOMAIN s = 1..Len(s)
    BY LenProperties
  <1>1. CASE m \notin Range(s)
    <2>1. Without(s, m) = s
      BY <1>1 DEF Without
    <2> QED  BY <1>0, <1>1, <2>1
  <1>2. CASE m \in Range(s)
    <2> DEFINE place == CHOOSE i \in DOMAIN s : s[i] = m
    <2>1. place \in 1..Len(s) /\ s[place] = m
      BY <1>0, <1>2 DEF Range
    <2>2. Without(s, m) = [i \in 1..(Len(s) - 1) |-> s[IF i < place THEN i ELSE i + 1]]
      BY <1>2 DEF Without
    <2>3. PICK at \in 1..Len(s) : at = place
      BY <2>1
    <2>4. PICK w \in Seq(Messages) :
               /\ w = Without(s, m)
               /\ Len(w) = Len(s) - 1 /\ DOMAIN w = 1..(Len(s) - 1)
               /\ \A i \in 1..(Len(s) - 1) : w[i] = IF i < at THEN s[i] ELSE s[i + 1]
      <3> DEFINE v == [i \in 1..(Len(s) - 1) |-> s[IF i < at THEN i ELSE i + 1]]
      <3>1. \A i \in 1..(Len(s) - 1) : s[IF i < at THEN i ELSE i + 1] \in Messages
        BY <1>0, ElementOfSeq
      <3>2. Len(s) - 1 \in Nat /\ v \in [1..(Len(s) - 1) -> Messages]
        BY <1>0, <2>3, <3>1
      <3>3. v \in Seq(Messages)
        BY <3>2, SeqDef
      <3>4. Len(v) = Len(s) - 1
        BY <3>2, <3>3, LenProperties
      <3>5. v = Without(s, m)
        BY <2>2, <2>3
      <3> QED  BY <3>2, <3>3, <3>4, <3>5
    <2>5. s[at] = m
      BY <2>1, <2>3
    <2> HIDE DEF place
    <2>6. Range(w) = Range(s) \ {m}
      <3>1. ASSUME NEW x \in Range(w)  PROVE x \in Range(s) \ {m}
        <4>1. PICK i \in 1..(Len(s) - 1) : w[i] = x
          BY <2>4, <3>1 DEF Range
        <4>2. PICK j \in 1..Len(s) : s[j] = x /\ j # at
          BY <1>0, <2>4, <4>1
        <4>3. x # m
          BY <1>0, <2>5, <4>2
        <4> QED  BY <1>0, <4>2, <4>3 DEF Range
      <3>2. ASSUME NEW x \in Range(s), x # m  PROVE x \in Range(w)
        <4>1. PICK j \in 1..Len(s) : s[j] = x
          BY <1>0, <3>2 DEF Range
        <4>2. CASE j < at
          <5>1. j \in 1..(Len(s) - 1) /\ w[j] = x
            BY <1>0, <2>4, <4>1, <4>2
          <5> QED  BY <2>4, <5>1 DEF Range
        <4>3. CASE j > at
          <5>1. j - 1 \in 1..(Len(s) - 1) /\ ~(j - 1 < at) /\ (j - 1) + 1 = j
            BY <1>0, <4>1, <4>3
          <5>2. w[j - 1] = x
            BY <2>4, <4>1, <5>1
          <5> QED  BY <2>4, <5>1, <5>2 DEF Range
        <4> QED  BY <2>5, <3>2, <4>1, <4>2, <4>3
      <3> QED  BY <3>1, <3>2
    <2>7. ASSUME NEW i \in DOMAIN w, NEW j \in DOMAIN w, w[i] = w[j]  PROVE i = j
      <3>1. PICK k \in 1..Len(s) : k = (IF i < at THEN i ELSE i + 1) /\ w[i] = s[k]
        BY <1>0, <2>4
      <3>2. PICK l \in 1..Len(s) : l = (IF j < at THEN j ELSE j + 1) /\ w[j] = s[l]
        BY <1>0, <2>4
      <3>3. k = l
        BY <1>0, <2>7, <3>1, <3>2, Zenon
      <3> QED  BY <1>0, <2>4, <3>1, <3>2, <3>3
    <2>8. ASSUME s # <<>>, s[1] # m  PROVE w # <<>> /\ w[1] = s[1]
      <3>1. at > 1 /\ 1 \in 1..(Len(s) - 1)
        BY <1>0, <2>5, <2>8
      <3>2. w[1] = s[1] /\ Len(w) # 0
        BY <1>0, <2>4, <3>1
      <3> QED  BY <3>2, EmptySeq
    <2>9. Len(w) <= Len(s)
      BY <1>0, <2>4
    <2> QED  BY <2>4, <2>6, <2>7, <2>8, <2>9
  <1> QED  BY <1>1, <1>2

\* The steps of runs leave the messages alone.
LEMMA QueuePauseRun ==
    ASSUME QueueInv, PauseRun
    PROVE  QueueInv'
  <1>1. /\ UNCHANGED <<store, routing, carried, current, unwinding, started, dead, launch,
                       faults, fates, restored, asked, excused>>
        /\ runPaused' \in BOOLEAN
    BY DEF PauseRun, QueueInv, QueueTyped, QueueTypeOK
  <1> QED  BY <1>1, SMTT(30) DEF QueueInv, QueueTyped, QueueTypeOK, Written, Numbered, Launches, Placed,
              Guided, Awaited, HeldSince, HeadSeen, Queued, Dispatching, store, launch, fates

LEMMA QueueUserStarts ==
    ASSUME QueueInv, UserStarts
    PROVE  QueueInv'
  <1> USE TeamQueueAssumption
  <1>1. /\ UNCHANGED <<store, routing, carried, runs, launching, launched, faults, fates,
                       restored, asked, excused>>
        /\ starting = Idle /\ starting' = [by |-> ByUser, phase |-> "checked"]
    BY DEF UserStarts
  <1>2. QueueTyped'
    BY <1>1 DEF QueueInv, QueueTyped, QueueTypeOK, store, runs, fates
  <1>3. Written' /\ Guided' /\ Awaited' /\ HeldSince' /\ Placed'
    BY <1>1 DEF QueueInv, Written, Guided, Awaited, HeldSince, Placed, Queued, store, runs, fates
  <1>4. Numbered' /\ Launches' /\ HeadSeen'
    BY <1>1 DEF QueueInv, Numbered, Launches, HeadSeen, Idle, Queued, store, runs, fates
  <1> QED  BY <1>2, <1>3, <1>4 DEF QueueInv

LEMMA QueueReplace ==
    ASSUME QueueInv, Replace
    PROVE  QueueInv'
  <1> USE TeamQueueAssumption
  <1>1. /\ UNCHANGED <<store, routing, carried, started, launching, launched, faults, fates,
                       restored, asked, excused, dead>>
        /\ starting.phase = "checked" /\ starting' = [starting EXCEPT !.phase = "cleared"]
        /\ unwinding' = unwinding \cup ({current} \ ({0} \cup dead)) /\ current' = 0 /\ runPaused' = FALSE
    BY DEF Replace
  <1>2. starting'.by = starting.by /\ starting'.phase = "cleared"
    BY <1>1 DEF QueueInv, QueueTyped, QueueTypeOK
  <1>3. /\ starting' \in [by : Messages \cup {NoMessage, ByUser}, phase : {"idle", "checked", "cleared"}]
        /\ unwinding' \subseteq 1..MaxRuns
    <2>1. starting \in [by : Messages \cup {NoMessage, ByUser}, phase : {"idle", "checked", "cleared"}]
          /\ unwinding \subseteq 1..MaxRuns /\ current \in 0..MaxRuns
      BY DEF QueueInv, QueueTyped, QueueTypeOK
    <2>2. \A r \in 0..MaxRuns : r # 0 => r \in 1..MaxRuns
      OBVIOUS
    <2>3. unwinding' \subseteq 1..MaxRuns
      BY <1>1, <2>1, <2>2
    <2> QED  BY <1>1, <2>1, <2>3
  <1>4. QueueTyped'
    <2>1. 0 \in 0..MaxRuns
      OBVIOUS
    <2> QED  BY <1>1, <1>3, <2>1 DEF QueueInv, QueueTyped, QueueTypeOK, store, fates
  <1>5. Written' /\ Awaited' /\ HeldSince' /\ Placed'
    BY <1>1 DEF QueueInv, Written, Awaited, HeldSince, Placed, Queued, store, fates
  <1>6. Guided'
    BY <1>1 DEF QueueInv, Guided, Queued, store
  <1>7. Numbered'
    BY <1>1, <1>2, SMTT(30) DEF QueueInv, QueueTyped, QueueTypeOK, Numbered
  <1>8. launching # NoMessage => item[launching].run # 0
    BY DEF QueueInv, QueueTyped, QueueTypeOK, Written
  <1>9. Launches'
    BY <1>1, <1>2, <1>8 DEF QueueInv, Launches, Queued, store, fates
  <1>10. HeadSeen'
    BY <1>1, <1>2 DEF HeadSeen, Idle
  <1> QED  BY <1>4, <1>5, <1>6, <1>7, <1>9, <1>10 DEF QueueInv

LEMMA QueueRegister ==
    ASSUME QueueInv, Register
    PROVE  QueueInv'
  <1> USE TeamQueueAssumption
  <1>1. /\ UNCHANGED <<store, routing, carried, runPaused, unwinding, launching, faults,
                       cancelled, overtaken, kept, restored, asked, excused, dead>>
        /\ starting.phase = "cleared" /\ started < MaxRuns
        /\ started' = started + 1 /\ current' = started + 1 /\ starting' = Idle
    BY DEF Register
  <1>2. \/ starting.by = ByUser /\ UNCHANGED <<launched, delivered>>
        \/ /\ starting.by # ByUser /\ launched' = "ok"
           /\ delivered' = [delivered EXCEPT ![starting.by] = @ + 1]
    BY DEF Register
  <1>3. current = 0 /\ starting.by # NoMessage /\ started \in Nat /\ Idle.by = NoMessage
        /\ Idle.phase = "idle"
    BY <1>1 DEF QueueInv, QueueTyped, QueueTypeOK, Numbered, Idle
  <1>4. starting.by # ByUser =>
           /\ starting.by = launching /\ launching \in Messages /\ launched = "pending"
           /\ delivered[launching] = kept[launching]
    BY <1>1, <1>3 DEF QueueInv, QueueTyped, QueueTypeOK, Launches
  <1>5. delivered' \in [Messages -> Nat]
        /\ \A m \in Messages : delivered'[m] = IF starting.by # ByUser /\ m = launching
                                               THEN kept[m] + 1 ELSE delivered[m]
    BY <1>2, <1>4 DEF QueueInv, QueueTyped, QueueTypeOK
  <1>14. \A m \in Messages : kept[m] \in Nat /\ kept[m] + 1 # 0
    BY DEF QueueInv, QueueTyped, QueueTypeOK
  <1>6. QueueTyped'
    BY <1>1, <1>2, <1>5 DEF QueueInv, QueueTyped, QueueTypeOK, store, Idle
  <1>7. launching # NoMessage =>
           launching \in Messages /\ item[launching].state # "new" /\ item[launching].run \in 1..started
    BY DEF QueueInv, QueueTyped, QueueTypeOK, Written
  <1>8. Written'
    BY <1>1, <1>3, <1>4, <1>5, <1>7 DEF QueueInv, Written, Queued, store
  <1>9. Guided' /\ Awaited' /\ HeldSince'
    BY <1>1, <1>3 DEF QueueInv, Guided, Awaited, HeldSince, Queued, store
  <1>10. Numbered'
    BY <1>1, <1>3, SMTT(30) DEF QueueInv, QueueTyped, QueueTypeOK, Numbered
  <1>11. Launches'
    BY <1>1, <1>2, <1>3, <1>4, <1>5, <1>7, <1>14 DEF QueueInv, Launches, Queued, store
  <1>12. Placed'
    <2>1. ASSUME starting.by # ByUser
          PROVE  \/ item[launching].state = "starting" /\ Queued(launching)
                 \/ launching \in overtaken
      BY <1>4, <2>1 DEF QueueInv, Launches
    <2>2. launching # NoMessage => (launching \in cancelled => launching \in overtaken)
      BY <1>7 DEF QueueInv, Launches, Placed
    <2>3. starting.by = ByUser => launched' = launched
      BY <1>2
    <2> QED  BY <1>1, <1>2, <1>4, <1>5, <2>1, <2>2, <2>3, <1>7, <1>14
             DEF QueueInv, QueueTyped, QueueTypeOK, Placed, Queued, store
  <1>13. HeadSeen'
    BY <1>1, <1>3 DEF HeadSeen
  <1> QED  BY <1>6, <1>8, <1>9, <1>10, <1>11, <1>12, <1>13 DEF QueueInv

LEMMA QueueRegisterFails ==
    ASSUME QueueInv, RegisterFails
    PROVE  QueueInv'
  <1> USE TeamQueueAssumption
  <1>1. /\ UNCHANGED <<store, routing, carried, runPaused, unwinding, launching, cancelled,
                       overtaken, restored, asked>>
        /\ faults < MaxFaults /\ faults' = faults + 1
        /\ starting.phase = "cleared" /\ started < MaxRuns
        /\ started' = started + 1 /\ current' = started + 1 /\ starting' = Idle
        /\ dead' = dead \cup {started + 1} /\ excused' = TRUE
    BY DEF RegisterFails
  <1>2. \/ starting.by = ByUser /\ UNCHANGED <<launched, delivered, kept>>
        \/ /\ starting.by # ByUser /\ launched' = "failed"
           /\ delivered' = [delivered EXCEPT ![starting.by] = @ + 1]
           /\ kept' = [kept EXCEPT ![starting.by] = IF Queued(starting.by) THEN @ + 1 ELSE @]
    BY DEF RegisterFails
  <1>3. current = 0 /\ starting.by # NoMessage /\ started \in Nat /\ Idle.by = NoMessage
        /\ Idle.phase = "idle" /\ started + 1 \in 1..MaxRuns
    BY <1>1 DEF QueueInv, QueueTyped, QueueTypeOK, Numbered, Idle
  <1>4. starting.by # ByUser =>
           /\ starting.by = launching /\ launching \in Messages /\ launched = "pending"
           /\ delivered[launching] = kept[launching]
    BY <1>1, <1>3 DEF QueueInv, QueueTyped, QueueTypeOK, Launches
  <1>5. /\ delivered' \in [Messages -> Nat] /\ kept' \in [Messages -> Nat]
        /\ \A m \in Messages :
              IF starting.by # ByUser /\ m = launching
              THEN /\ delivered'[m] = kept[m] + 1
                   /\ kept'[m] = IF Queued(m) THEN kept[m] + 1 ELSE kept[m]
              ELSE delivered'[m] = delivered[m] /\ kept'[m] = kept[m]
    <2>1. delivered \in [Messages -> Nat] /\ kept \in [Messages -> Nat]
      BY DEF QueueInv, QueueTyped, QueueTypeOK
    <2>2. CASE starting.by = ByUser
      BY <1>2, <2>1, <2>2
    <2>3. CASE starting.by # ByUser
      <3>1. PICK k \in Nat : k = IF Queued(launching) THEN kept[launching] + 1 ELSE kept[launching]
        BY <1>4, <2>1, <2>3
      <3>2. /\ delivered' = [delivered EXCEPT ![launching] = @ + 1]
            /\ kept' = [kept EXCEPT ![launching] = k]
        BY <1>2, <1>4, <2>3, <3>1
      <3> QED  BY <1>4, <2>1, <2>3, <3>1, <3>2
    <2> QED  BY <2>2, <2>3
  <1>6. \A m \in Messages : kept[m] \in Nat /\ kept[m] + 1 # 0 /\ kept[m] + 1 # kept[m]
    BY SMTT(30) DEF QueueInv, QueueTyped, QueueTypeOK
  <1>7. QueueTyped'
    <2>1. dead' \subseteq 1..MaxRuns
      <3>1. dead \subseteq 1..MaxRuns
        BY DEF QueueInv, QueueTyped, QueueTypeOK
      <3> QED  BY <1>1, <1>3, <3>1
    <2>2. launched' \in {"none", "pending", "ok", "failed"}
      BY <1>2 DEF QueueInv, QueueTyped, QueueTypeOK
    <2>3. current' \in 0..MaxRuns /\ started' \in 0..MaxRuns
      BY <1>1, <1>3
    <2>4. faults' \in 0..MaxFaults
      BY <1>1 DEF QueueInv, QueueTyped, QueueTypeOK
    <2> QED  BY <1>1, <1>5, <2>1, <2>2, <2>3, <2>4 DEF QueueInv, QueueTyped, QueueTypeOK, store, Idle
  <1>8. launching # NoMessage =>
           launching \in Messages /\ item[launching].state # "new" /\ item[launching].run \in 1..started
    BY DEF QueueInv, QueueTyped, QueueTypeOK, Written
  <1>9. Written'
    BY <1>1, <1>3, <1>4, <1>5, <1>8 DEF QueueInv, Written, Queued, store
  <1>10. Guided' /\ Awaited' /\ HeldSince'
    <2>1. \A x \in Messages : carried[x] # 0 => carried[x] \in unwinding \ dead /\ carried[x] # started + 1
      BY <1>3 DEF QueueInv, QueueTyped, QueueTypeOK, Guided, Numbered
    <2> QED  BY <1>1, <2>1 DEF QueueInv, Guided, Awaited, HeldSince, Queued, store
  <1>11. Numbered'
    BY <1>1, <1>3 DEF QueueInv, QueueTyped, QueueTypeOK, Numbered
  <1>12. Launches'
    BY <1>1, <1>2, <1>3, <1>4, <1>5, <1>6, <1>8 DEF QueueInv, Launches, Queued, store
  <1>13. Placed'
    <2>1. starting.by # ByUser =>
             \/ item[launching].state = "starting" /\ Queued(launching)
             \/ launching \in overtaken
      BY <1>4 DEF QueueInv, Launches
    <2>2. launching # NoMessage => (launching \in cancelled => launching \in overtaken)
      BY <1>8 DEF QueueInv, Launches, Placed
    <2>3. starting.by = ByUser => launched' = launched
      BY <1>2
    <2>4. starting.by # ByUser => launched # "ok"
      BY <1>4
    <2> QED  BY <1>1, <1>4, <1>5, <1>6, <1>8, <2>1, <2>2, <2>3, <2>4, SMTT(30)
             DEF QueueInv, Placed, Queued, store
  <1>14. HeadSeen'
    BY <1>1 DEF HeadSeen
  <1> QED  BY <1>7, <1>9, <1>10, <1>11, <1>12, <1>13, <1>14 DEF QueueInv

LEMMA QueueStartFails ==
    ASSUME QueueInv, StartFails
    PROVE  QueueInv'
  <1> USE TeamQueueAssumption
  <1>1. /\ UNCHANGED <<store, routing, carried, runs, launching, faults, fates, restored, asked>>
        /\ starting # Idle /\ launched \notin {"ok", "failed"}
        /\ starting' = Idle /\ excused' = TRUE
        /\ launched' = IF starting.by = ByUser THEN launched ELSE "failed"
    BY DEF StartFails, Returning
  <1>2. Idle.by = NoMessage /\ Idle.phase = "idle"
        /\ Idle \in [by : Messages \cup {NoMessage, ByUser}, phase : {"idle", "checked", "cleared"}]
    BY DEF Idle
  <1>3. starting.by # NoMessage
    <2>1. ASSUME starting.by = NoMessage  PROVE FALSE
      <3>1. starting.phase = "idle"
        BY <2>1 DEF QueueInv, Numbered
      <3>2. starting = Idle
        BY <2>1, <3>1 DEF QueueInv, QueueTyped, QueueTypeOK, Idle
      <3> QED  BY <1>1, <3>2
    <2> QED  BY <2>1
  <1>4. starting.by # ByUser => starting.by = launching /\ launched = "pending"
    BY <1>3 DEF QueueInv, QueueTyped, QueueTypeOK, Launches
  <1>5. QueueTyped'
    BY <1>1, <1>2 DEF QueueInv, QueueTyped, QueueTypeOK, store, runs, fates
  <1>6. Written' /\ Guided' /\ Awaited' /\ HeldSince'
    BY <1>1 DEF QueueInv, Written, Guided, Awaited, HeldSince, Queued, store, runs, fates
  <1>7. Placed'
    BY <1>1, <1>4 DEF QueueInv, Placed, Queued, store, fates
  <1>8. Numbered'
    BY <1>1, <1>2 DEF QueueInv, Numbered, runs
  <1>9. Launches'
    BY <1>1, <1>2, <1>4 DEF QueueInv, QueueTyped, QueueTypeOK, Launches, Queued, store, runs, fates
  <1>10. HeadSeen'
    BY <1>1 DEF HeadSeen
  <1> QED  BY <1>5, <1>6, <1>7, <1>8, <1>9, <1>10 DEF QueueInv

\* A message that leaves the queue.
LEMMA QueueLess ==
    ASSUME QueueInv, NEW m, queue' = Without(queue, m)
    PROVE  /\ queue' \in Seq(Messages) /\ Len(queue') <= Capacity
           /\ \A x : Queued(x)' <=> Queued(x) /\ x # m
           /\ \A i, j \in DOMAIN queue' : queue'[i] = queue'[j] => i = j
           /\ queue # <<>> /\ queue[1] # m => queue' # <<>> /\ queue'[1] = queue[1]
  <1>1. /\ queue \in Seq(Messages) /\ Len(queue) <= Capacity
        /\ \A i, j \in DOMAIN queue : queue[i] = queue[j] => i = j
    BY DEF QueueInv, QueueTyped, QueueTypeOK, Written
  <1>2. /\ queue' \in Seq(Messages) /\ Len(queue') <= Len(queue)
        /\ Range(queue') = Range(queue) \ {m}
        /\ \A i, j \in DOMAIN queue' : queue'[i] = queue'[j] => i = j
        /\ queue # <<>> /\ queue[1] # m => queue' # <<>> /\ queue'[1] = queue[1]
    BY <1>1, WithoutIs
  <1>3. Len(queue') <= Capacity
    <2>1. Len(queue) \in Nat /\ Len(queue') \in Nat
      BY <1>1, <1>2, LenProperties
    <2> QED  BY <1>1, <1>2, <2>1, TeamQueueAssumption
  <1> QED  BY <1>2, <1>3 DEF Queued

\* The head of the queue is a message in it.
LEMMA HeadIsQueued ==
    ASSUME NEW s \in Seq(Messages), s # <<>>
    PROVE  s[1] \in Messages /\ s[1] \in Range(s)
  <1>1. Len(s) \in Nat \ {0} /\ DOMAIN s = 1..Len(s)
    BY EmptySeq, LenProperties
  <1>2. 1 \in 1..Len(s)
    BY <1>1
  <1> QED  BY <1>1, <1>2, ElementOfSeq DEF Range

\* A launching message is not one that the Nurse carries.
LEMMA LaunchingIs ==
    ASSUME QueueInv, launching # NoMessage
    PROVE  /\ launching \in Messages /\ item[launching].state \in {"starting", "queued"}
           /\ item[launching].run \in 1..started
  BY DEF QueueInv, QueueTyped, QueueTypeOK, Written, Launches

LEMMA QueueApplied ==
    ASSUME QueueInv, NEW m \in Messages, Applied(m)
    PROVE  QueueInv'
  <1>1. /\ UNCHANGED <<item, routing, runs, launch, faults, cancelled, overtaken, kept,
                       restored, asked, excused>>
        /\ carried[m] # 0 /\ carried' = [carried EXCEPT ![m] = 0]
        /\ launched \notin {"ok", "failed"}
    BY DEF Applied, Returning
  <1>2. /\ Queued(m) /\ item[m].state = "steering"
        /\ m # launching /\ delivered[m] = kept[m]
        /\ carried[m] \in {current} \cup unwinding
    <2>1. Queued(m) /\ item[m].state = "steering" /\ carried[m] \in {current} \cup unwinding
      BY <1>1 DEF QueueInv, Guided
    <2>2. m # launching
      BY <2>1, LaunchingIs, TeamQueueAssumption
    <2> QED  BY <2>1, <2>2 DEF QueueInv, Placed
  <1>3. queue' = Without(queue, m) /\ delivered' = [delivered EXCEPT ![m] = @ + 1]
    BY <1>2 DEF Applied
  <1>4. /\ queue' \in Seq(Messages) /\ Len(queue') <= Capacity
        /\ \A x : Queued(x)' <=> Queued(x) /\ x # m
        /\ \A i, j \in DOMAIN queue' : queue'[i] = queue'[j] => i = j
        /\ queue # <<>> /\ queue[1] # m => queue' # <<>> /\ queue'[1] = queue[1]
    BY <1>3, QueueLess
  <1>5. /\ delivered' \in [Messages -> Nat]
        /\ \A x \in Messages : delivered'[x] = IF x = m THEN kept[x] + 1 ELSE delivered[x]
        /\ kept[m] \in Nat /\ kept[m] + 1 # 0
        /\ carried' \in [Messages -> 0..MaxRuns]
        /\ \A x \in Messages : carried'[x] = IF x = m THEN 0 ELSE carried[x]
    BY <1>1, <1>2, <1>3, TeamQueueAssumption, SMTT(30) DEF QueueInv, QueueTyped, QueueTypeOK
  <1>6. QueueTyped'
    BY <1>1, <1>4, <1>5, ZenonT(60) DEF QueueInv, QueueTyped, QueueTypeOK, runs, launch
  <1>7. Written'
    BY <1>1, <1>2, <1>4, <1>5 DEF QueueInv, Written, runs, launch
  <1>8. Numbered'
    BY <1>1 DEF QueueInv, Numbered, runs, launch
  <1>9. Launches'
    BY <1>1, <1>2, <1>4, <1>5, LaunchingIs DEF QueueInv, Launches, runs, launch
  <1>10. Placed'
    BY <1>1, <1>2, <1>4, <1>5 DEF QueueInv, Placed, runs, launch
  <1>11. Guided' /\ Awaited' /\ HeldSince'
    BY <1>1, <1>4, <1>5 DEF QueueInv, Guided, Awaited, HeldSince, runs, launch
  <1>12. HeadSeen'
    <2>1. current # 0 \/ unwinding # {}
      BY <1>1, <1>2
    <2> QED  BY <1>1, <2>1 DEF HeadSeen, runs
  <1> QED  BY <1>6, <1>7, <1>8, <1>9, <1>10, <1>11, <1>12 DEF QueueInv

LEMMA QueueCancel ==
    ASSUME QueueInv, NEW m \in Messages, Cancel(m)
    PROVE  QueueInv'
  <1>1. /\ UNCHANGED <<item, routing, carried, runs, launch, faults, delivered, overtaken,
                       kept, restored, asked>>
        /\ cancelled' = cancelled \cup {m} /\ excused' = TRUE
        /\ launched \notin {"ok", "failed"} /\ Queued(m)
        /\ item[m].state \notin {"steering", "starting"}
        /\ queue' = Without(queue, m)
    BY DEF Cancel, Returning, Delivering
  <1>2. carried[m] = 0 /\ delivered[m] = kept[m]
    BY <1>1 DEF QueueInv, Guided, Placed
  <1>3. m = launching => m \in overtaken /\ item[m].state = "queued"
    BY <1>1, TeamQueueAssumption DEF QueueInv, Launches
  <1>4. /\ queue' \in Seq(Messages) /\ Len(queue') <= Capacity
        /\ \A x : Queued(x)' <=> Queued(x) /\ x # m
        /\ \A i, j \in DOMAIN queue' : queue'[i] = queue'[j] => i = j
    BY <1>1, QueueLess
  <1>5. QueueTyped'
    BY <1>1, <1>4 DEF QueueInv, QueueTyped, QueueTypeOK, runs, launch
  <1>6. Written'
    BY <1>1, <1>4 DEF QueueInv, Written, runs, launch
  <1>7. Numbered' /\ HeadSeen'
    BY <1>1 DEF QueueInv, Numbered, HeadSeen, runs, launch
  <1>8. Launches'
    BY <1>1, <1>3, <1>4 DEF QueueInv, Launches, runs, launch
  <1>9. Placed'
    BY <1>1, <1>2, <1>4 DEF QueueInv, Placed, runs, launch
  <1>10. Guided' /\ Awaited' /\ HeldSince'
    BY <1>1, <1>2, <1>4 DEF QueueInv, Guided, Awaited, HeldSince, runs, launch
  <1> QED  BY <1>5, <1>6, <1>7, <1>8, <1>9, <1>10 DEF QueueInv

LEMMA QueueEnqueue ==
    ASSUME QueueInv, NEW m \in Messages, Enqueue(m)
    PROVE  QueueInv'
  <1>1. /\ UNCHANGED <<carried, runs, launch, faults, fates, restored, asked, excused>>
        /\ item[m].state = "new" /\ current # 0 /\ Len(queue) < Capacity
        /\ queue' = Append(queue, m) /\ routing' = routing \cup {m}
    BY DEF Enqueue
  <1>2. PICK mode \in {"auto", "queue", "steer"} :
           item' = [item EXCEPT ![m] = [state |-> IF mode = "auto" THEN "checking" ELSE "queued",
                       hold |-> FALSE, run |-> current, mode |-> mode, steer |-> FALSE]]
    BY DEF Enqueue
  <1>3. /\ ~Queued(m) /\ m \notin routing /\ m # launching
        /\ m \notin cancelled \cup overtaken \cup restored /\ carried[m] = 0
        /\ delivered[m] = 0 /\ kept[m] = 0
    <2>1. kept[m] \in Nat
      BY DEF QueueInv, QueueTyped, QueueTypeOK
    <2> QED  BY <1>1, <2>1 DEF QueueInv, Written, Guided, Placed
  <1>4. /\ queue \in Seq(Messages) /\ Len(queue) \in Nat
        /\ DOMAIN queue = 1..Len(queue)
    BY LenProperties DEF QueueInv, QueueTyped, QueueTypeOK
  <1>5. /\ queue' \in Seq(Messages) /\ Len(queue') = Len(queue) + 1
        /\ DOMAIN queue' = 1..(Len(queue) + 1)
        /\ \A i \in 1..Len(queue) : queue'[i] = queue[i]
        /\ queue'[Len(queue) + 1] = m
    <2>1. /\ Append(queue, m) \in Seq(Messages)
          /\ Len(Append(queue, m)) = Len(queue) + 1
          /\ \A i \in 1..Len(queue) : Append(queue, m)[i] = queue[i]
          /\ Append(queue, m)[Len(queue) + 1] = m
      BY <1>4, AppendProperties
    <2> QED  BY <1>1, <2>1, LenProperties
  <1>6. \A x : Queued(x)' <=> Queued(x) \/ x = m
    <2>1. ASSUME NEW x, Queued(x)'  PROVE Queued(x) \/ x = m
      <3>1. PICK i \in 1..(Len(queue) + 1) : queue'[i] = x
        BY <1>5, <2>1 DEF Queued, Range
      <3>2. CASE i = Len(queue) + 1
        BY <1>5, <3>1, <3>2
      <3>3. CASE i # Len(queue) + 1
        <4>1. i \in 1..Len(queue)
          BY <1>4, <3>3
        <4> QED  BY <1>4, <1>5, <3>1, <4>1 DEF Queued, Range
      <3> QED  BY <3>2, <3>3
    <2>2. ASSUME NEW x, Queued(x)  PROVE Queued(x)'
      <3>1. PICK i \in 1..Len(queue) : queue[i] = x
        BY <1>4, <2>2 DEF Queued, Range
      <3>2. i \in 1..(Len(queue) + 1)
        BY <1>4
      <3> QED  BY <1>5, <3>1, <3>2 DEF Queued, Range
    <2>3. Queued(m)'
      <3>1. Len(queue) + 1 \in 1..(Len(queue) + 1)
        BY <1>4
      <3> QED  BY <1>5, <3>1 DEF Queued, Range
    <2> QED  BY <2>1, <2>2, <2>3
  <1>7. ASSUME NEW i \in DOMAIN queue', NEW j \in DOMAIN queue', queue'[i] = queue'[j]  PROVE i = j
    <2>1. \A k \in 1..Len(queue) : queue[k] # m
      BY <1>3, <1>4 DEF Queued, Range
    <2>2. \A k, l \in 1..Len(queue) : queue[k] = queue[l] => k = l
      BY <1>4 DEF QueueInv, Written
    <2> QED  BY <1>4, <1>5, <1>7, <2>1, <2>2
  <1>8. /\ \A x \in Messages : x # m => item'[x] = item[x]
        /\ item'[m].state = (IF mode = "auto" THEN "checking" ELSE "queued")
        /\ item'[m].run = current /\ item'[m].mode = mode
    BY <1>2 DEF QueueInv, QueueTyped, QueueTypeOK
  <1>9. QueueTyped'
    <2>1. item' \in [Messages ->
             [state : {"new", "checking", "queued", "steering", "starting"}, hold : BOOLEAN,
              run : 0..MaxRuns, mode : {"auto", "queue", "steer"}, steer : BOOLEAN]]
      BY <1>1, <1>2 DEF QueueInv, QueueTyped, QueueTypeOK, runs
    <2>2. Len(queue') <= Capacity
      BY <1>1, <1>4, <1>5, TeamQueueAssumption
    <2>3. \A x \in Messages : carried'[x] \in {0, item'[x].run}
      BY <1>1, <1>3, <1>8 DEF QueueInv, QueueTyped, QueueTypeOK
    <2> QED  BY <1>1, <1>5, <2>1, <2>2, <2>3
             DEF QueueInv, QueueTyped, QueueTypeOK, runs, launch, fates
  <1>10. current \in 1..started
    BY <1>1 DEF QueueInv, QueueTyped, QueueTypeOK, Numbered
  <1>11. Written'
    BY <1>1, <1>6, <1>7, <1>8, <1>10 DEF QueueInv, Written, runs, launch, fates
  <1>12. Numbered' /\ HeadSeen'
    BY <1>1 DEF QueueInv, Numbered, HeadSeen, runs, launch
  <1>13. Launches'
    BY <1>1, <1>3, <1>6, <1>8, LaunchingIs DEF QueueInv, Launches, runs, launch, fates
  <1>14. Placed'
    BY <1>1, <1>3, <1>6, <1>8 DEF QueueInv, Placed, runs, launch, fates
  <1>15. Guided' /\ Awaited' /\ HeldSince'
    <2>1. Guided'
      BY <1>1, <1>3, <1>6, <1>8 DEF QueueInv, Guided, runs
    <2>2. Awaited'
      BY <1>1, <1>3, <1>6, <1>8 DEF QueueInv, Awaited, runs, launch
    <2>3. HeldSince'
      <3>1. restored \subseteq Messages
        BY DEF QueueInv, QueueTyped, QueueTypeOK
      <3> QED  BY <1>1, <1>3, <1>6, <1>8, <3>1 DEF QueueInv, HeldSince
    <2> QED  BY <2>1, <2>2, <2>3
  <1> QED  BY <1>9, <1>11, <1>12, <1>13, <1>14, <1>15 DEF QueueInv

\* What a message was written for does not change.
SameMessages ==
    /\ item' \in [Messages -> Stored]
    /\ \A x \in Messages : /\ item'[x].run = item[x].run /\ item'[x].mode = item[x].mode
                           /\ item[x].hold => item'[x].hold

\* Messages that are judged, or that the Nurse accepts.
LEMMA QueueCarries ==
    ASSUME QueueInv, SameMessages, HeadSeen',
           UNCHANGED <<queue, runs, launch, fates, restored, asked>>, excused' \in BOOLEAN,
           faults' \in 0..MaxFaults,
           routing' \subseteq routing,
           NEW ok \in SUBSET Messages,
           \A x \in ok : /\ Queued(x) /\ item[x].run = current /\ current \notin {0} \cup dead
                         /\ item[x].state \in {"queued", "checking"},
           \A x \in Messages :
               IF x \in ok THEN item'[x].state = "steering"
               ELSE \/ item'[x].state = item[x].state
                    \/ item'[x].state = "queued" /\ item[x].state \in {"queued", "checking"},
           \A x \in routing \ routing' : Queued(x) => item'[x].state # "checking",
           carried' = [x \in Messages |-> IF x \in ok THEN current ELSE carried[x]]
    PROVE  QueueInv'
  <1>1. \A x : Queued(x)' <=> Queued(x)
    BY DEF Queued
  <1>2. \A x \in Messages : carried'[x] = IF x \in ok THEN current ELSE carried[x]
    OBVIOUS
  <1>3. \A x \in ok : x # launching /\ carried[x] = 0 /\ x \in Messages
    <2>1. \A x \in ok : x \in Messages /\ carried[x] = 0
      BY DEF QueueInv, Guided
    <2>2. launching \in ok => FALSE
      BY TeamQueueAssumption DEF QueueInv, Launches
    <2> QED  BY <2>1, <2>2
  <1>4. QueueTyped'
    <2>1. carried' \in [Messages -> 0..MaxRuns]
      BY DEF QueueInv, QueueTyped, QueueTypeOK
    <2>2. \A x \in Messages : carried'[x] \in {0, item'[x].run}
      BY <1>2, SMTT(30) DEF SameMessages, QueueInv, QueueTyped, QueueTypeOK
    <2>3. routing' \subseteq Messages
      BY DEF QueueInv, QueueTyped, QueueTypeOK
    <2> QED  BY <2>1, <2>2, <2>3
             DEF QueueInv, QueueTyped, QueueTypeOK, SameMessages, Stored, runs, launch, fates
  <1>5. Written'
    BY <1>1 DEF QueueInv, Written, SameMessages, runs, launch, fates
  <1>6. Numbered'
    BY DEF QueueInv, Numbered, runs, launch
  <1>7. Launches'
    <2>1. launching # NoMessage =>
             /\ launching \in Messages /\ item'[launching].state = item[launching].state
             /\ item'[launching].run = item[launching].run
      BY <1>3, LaunchingIs DEF SameMessages
    <2> QED  BY <1>1, <2>1 DEF QueueInv, Launches, runs, launch, fates
  <1>8. Placed'
    BY <1>1 DEF QueueInv, Placed, launch, fates
  <1>9. Guided'
    BY <1>1, <1>2 DEF QueueInv, Guided, SameMessages, runs
  <1>10. Awaited'
    BY <1>1, <1>2, <1>3 DEF QueueInv, Awaited, SameMessages, launch
  <1>11. HeldSince'
    <2>1. restored \subseteq Messages
      BY DEF QueueInv, QueueTyped, QueueTypeOK
    <2> QED  BY <1>1, <2>1 DEF QueueInv, HeldSince, SameMessages
  <1> QED  BY <1>4, <1>5, <1>6, <1>7, <1>8, <1>9, <1>10, <1>11 DEF QueueInv

\* The dispatch of the head of the queue, when nothing runs and no other message is
\* being launched.
LEMMA QueueLaunches ==
    ASSUME QueueInv, SameMessages,
           NEW h \in Messages, Queued(h)', h # launching,
           launching = NoMessage \/ launched = "ok",
           queue' \in Seq(Messages), Len(queue') <= Capacity,
           \A i, j \in DOMAIN queue' : queue'[i] = queue'[j] => i = j,
           \A x : Queued(x)' <=> Queued(x) /\ x # launching,
           item'[h].state = "starting", item[h].state # "starting", carried'[h] = 0,
           \A x \in Messages : x # h =>
               \/ item'[x].state = item[x].state
               \/ item'[x].state = "queued" /\ item[x].state \in {"queued", "checking", "steering"},
           carried' \in [Messages -> 0..MaxRuns],
           \A x \in Messages : carried'[x] # 0 =>
               /\ carried'[x] = carried[x] /\ Queued(x)' /\ item'[x].state = "steering"
               /\ carried[x] \in unwinding',
           \A x \in Messages : Queued(x)' => /\ item'[x].state = "steering" => carried'[x] # 0
                                             /\ item'[x].state = "checking" => x \in routing',
           routing' \subseteq routing, unwinding' \subseteq unwinding,
           current' = 0, runPaused' \in BOOLEAN,
           UNCHANGED <<started, dead, faults, fates, restored>>,
           launching' = h, asked' \in BOOLEAN, excused' = FALSE,
           IF starting = Idle
           THEN starting' = [by |-> h, phase |-> "checked"] /\ launched' = "pending"
           ELSE launched' = "failed" /\ starting' = starting
    PROVE  QueueInv'
  <1> USE TeamQueueAssumption
  <1>1. /\ Queued(h) /\ delivered[h] = kept[h] /\ h \notin cancelled
        /\ item[h].state # "new" /\ item[h].run \in 1..started
    BY DEF QueueInv, Written, Placed
  <1>2. starting.by \notin Messages
    BY DEF QueueInv, Launches
  <1>3. starting' \in [by : Messages \cup {NoMessage, ByUser}, phase : {"idle", "checked", "cleared"}]
        /\ launched' \in {"pending", "failed"}
    BY DEF QueueInv, QueueTyped, QueueTypeOK
  <1>4. QueueTyped'
    <2>1. \A x \in Messages : carried'[x] \in {0, item'[x].run}
      BY DEF SameMessages, QueueInv, QueueTyped, QueueTypeOK
    <2>2. 0 \in 0..MaxRuns
      OBVIOUS
    <2> QED  BY <1>3, <2>1, <2>2
             DEF QueueInv, QueueTyped, QueueTypeOK, SameMessages, Stored, fates
  <1>5. Written'
    <2>1. \A x \in Messages : item'[x].state = "new" => item[x].state = "new"
      BY <1>1
    <2>2. \A x \in Messages : item'[x].state # "new" => item'[x].run \in 1..started
      <3>1. \A x \in Messages : item'[x].state # "new" => item[x].state # "new"
        BY <1>1
      <3> QED  BY <3>1 DEF QueueInv, Written, SameMessages
    <2>3. ASSUME NEW x \in Messages,
                 \/ Queued(x)' \/ x \in routing' \/ x = launching'
                 \/ x \in cancelled \cup overtaken \cup restored \/ delivered[x] # 0
          PROVE  item'[x].state # "new"
      BY <1>1, <2>1, <2>3 DEF QueueInv, Written
    <2> QED  BY <2>2, <2>3 DEF Written, fates
  <1>6. Numbered'
    BY DEF QueueInv, QueueTyped, QueueTypeOK, Numbered, Idle
  <1>7. Launches'
    BY <1>1, <1>2 DEF Launches, SameMessages, fates
  <1>8. Placed'
    <2>1. ASSUME NEW x \in Messages, Queued(x)'  PROVE delivered[x] = kept[x]
      BY <2>1 DEF QueueInv, Placed
    <2>2. ASSUME NEW x \in Messages, item'[x].state # "new"
          PROVE  Queued(x)' \/ delivered[x] # kept[x] \/ x \in cancelled
      <3>1. item[x].state # "new"
        BY <1>1, <2>2
      <3>2. x = launching => delivered[x] # kept[x]
        BY DEF QueueInv, Launches, QueueTyped, QueueTypeOK
      <3> QED  BY <3>1, <3>2 DEF QueueInv, Placed
    <2> QED  BY <2>1, <2>2 DEF QueueInv, Placed, fates
  <1>9. Guided'
    <2>1. \A x \in Messages : carried[x] # 0 => carried[x] = item[x].run /\ carried[x] \notin dead
      BY DEF QueueInv, Guided
    <2> QED  BY <2>1 DEF Guided, SameMessages
  <1>10. Awaited'
    BY DEF QueueInv, Awaited, SameMessages
  <1>11. HeldSince'
    <2>1. restored \subseteq Messages
      BY DEF QueueInv, QueueTyped, QueueTypeOK
    <2> QED  BY <2>1 DEF QueueInv, HeldSince, SameMessages
  <1>12. HeadSeen'
    BY DEF HeadSeen, Dispatching
  <1> QED  BY <1>4, <1>5, <1>6, <1>7, <1>8, <1>9, <1>10, <1>11, <1>12 DEF QueueInv

\* The types of the stored messages, and of what a launch makes of one.
LEMMA StoredIs ==
    ASSUME QueueInv
    PROVE  /\ item \in [Messages -> Stored] /\ carried \in [Messages -> 0..MaxRuns]
           /\ queue \in Seq(Messages) /\ Len(queue) <= Capacity
           /\ \A i, j \in DOMAIN queue : queue[i] = queue[j] => i = j
           /\ NoMessage \notin Messages /\ \A x : Queued(x) => x \in Messages
           /\ excused \in BOOLEAN
  <1>1. queue \in Seq(Messages)
    BY DEF QueueInv, QueueTyped, QueueTypeOK
  <1>2. \A x : Queued(x) => x \in Messages
    BY <1>1, LenProperties, ElementOfSeq DEF Queued, Range
  <1> QED  BY <1>1, <1>2, TeamQueueAssumption
           DEF QueueInv, QueueTyped, QueueTypeOK, Written, Stored

LEMMA LaunchIs ==
    ASSUME NEW m \in Messages, NEW it \in [Messages -> Stored], NEW force \in BOOLEAN,
           Launch(m, it, force)
    PROVE  /\ item' \in [Messages -> Stored]
           /\ item'[m].state = "starting"
           /\ \A x \in Messages : /\ item'[x].run = it[x].run /\ item'[x].mode = it[x].mode
                                  /\ item'[x].hold = it[x].hold
                                  /\ x # m => item'[x].state = it[x].state
           /\ launching' = m /\ asked' = force /\ excused' = FALSE
           /\ IF starting = Idle
              THEN starting' = [by |-> m, phase |-> "checked"] /\ launched' = "pending"
              ELSE launched' = "failed" /\ starting' = starting
  BY DEF Launch, Stored

\* drain, from messages that were judged or as they are.
LEMMA QueueDrains ==
    ASSUME QueueInv, NEW it \in [Messages -> Stored], NEW force \in BOOLEAN, Drain(it, force),
           UNCHANGED <<queue, carried, runs, faults, fates, restored>>,
           \A x \in Messages :
               /\ it[x].run = item[x].run /\ it[x].mode = item[x].mode /\ it[x].hold = item[x].hold
               /\ \/ it[x].state = item[x].state
                  \/ it[x].state = "queued" /\ item[x].state \in {"queued", "checking"},
           routing' \subseteq routing,
           \A x \in routing \ routing' : Queued(x) => it[x].state # "checking"
    PROVE  QueueInv'
  <1>0. /\ carried \in [Messages -> 0..MaxRuns] /\ queue \in Seq(Messages) /\ Len(queue) <= Capacity
        /\ \A i, j \in DOMAIN queue : queue[i] = queue[j] => i = j
        /\ NoMessage \notin Messages /\ \A x : Queued(x) => x \in Messages
    BY StoredIs
  <1>1. \A x : Queued(x)' <=> Queued(x)
    BY DEF Queued
  <1>2. CASE ~Dispatching /\ current = 0 /\ MayStart(queue, it, force)
    <2>1. PICK h : h = queue[1]
      OBVIOUS
    <2>2. Launch(h, it, force) /\ queue # <<>> /\ it[h].state = "queued"
      BY <1>2, <2>1 DEF Drain, MayStart, Startable
    <2>3. h \in Messages /\ Queued(h)
      BY <1>0, <2>1, <2>2, HeadIsQueued DEF Queued
    <2>4. /\ item' \in [Messages -> Stored]
          /\ item'[h].state = "starting"
          /\ \A x \in Messages : /\ item'[x].run = it[x].run /\ item'[x].mode = it[x].mode
                                 /\ item'[x].hold = it[x].hold
                                 /\ x # h => item'[x].state = it[x].state
          /\ launching' = h /\ asked' = force /\ excused' = FALSE
          /\ IF starting = Idle
             THEN starting' = [by |-> h, phase |-> "checked"] /\ launched' = "pending"
             ELSE launched' = "failed" /\ starting' = starting
      BY <2>2, <2>3, LaunchIs, ZenonT(40)
    <2>5. SameMessages
      BY <2>4 DEF SameMessages
    <2>6. launching = NoMessage /\ h # launching
      BY <1>0, <1>2, <2>3 DEF Dispatching
    <2>7. item[h].state \in {"queued", "checking"} /\ carried[h] = 0
      BY <2>2, <2>3 DEF QueueInv, Guided
    <2>8. \A x \in Messages : carried[x] # 0 =>
             Queued(x) /\ item[x].state = "steering" /\ carried[x] \in unwinding /\ x # h
      BY <1>2, <2>7, <2>3 DEF QueueInv, QueueTyped, QueueTypeOK, Guided
    <2>9. \A x \in Messages : Queued(x) => /\ item'[x].state = "steering" => carried[x] # 0
                                           /\ item'[x].state = "checking" => x \in routing'
      BY <2>4 DEF QueueInv, Awaited
    <2>10. \A x : Queued(x)' <=> Queued(x) /\ x # launching
      BY <1>0, <1>1, <2>6
    <2>11. /\ runPaused' \in BOOLEAN /\ current' = 0
           /\ UNCHANGED <<unwinding, started, dead>>
      BY <1>2 DEF runs, QueueInv, QueueTyped, QueueTypeOK
    <2>12. \A x \in Messages : carried'[x] # 0 =>
               /\ carried'[x] = carried[x] /\ Queued(x)' /\ item'[x].state = "steering"
               /\ carried[x] \in unwinding'
      BY <1>1, <2>4, <2>8, <2>11
    <2>13. \A x \in Messages : x # h =>
               \/ item'[x].state = item[x].state
               \/ item'[x].state = "queued" /\ item[x].state \in {"queued", "checking", "steering"}
      BY <2>4
    <2>14. /\ queue' \in Seq(Messages) /\ Len(queue') <= Capacity
           /\ \A i, j \in DOMAIN queue' : queue'[i] = queue'[j] => i = j
      BY <1>0
    <2>15. \A x \in Messages : Queued(x)' => /\ item'[x].state = "steering" => carried'[x] # 0
                                             /\ item'[x].state = "checking" => x \in routing'
      BY <1>1, <2>9
    <2>16. /\ Queued(h)' /\ item[h].state # "starting" /\ carried'[h] = 0
           /\ carried' \in [Messages -> 0..MaxRuns]
           /\ unwinding' \subseteq unwinding /\ asked' \in BOOLEAN
           /\ UNCHANGED <<started, dead, faults, fates, restored>>
      BY <1>0, <1>1, <2>3, <2>4, <2>7, <2>11
    <2>17. launching = NoMessage \/ launched = "ok"
      BY <2>6
    <2> QED  BY <2>3, <2>4, <2>5, <2>6, <2>10, <2>11, <2>12, <2>13, <2>14, <2>15, <2>16, <2>17,
                QueueLaunches, Zenon
  <1>3. CASE ~(~Dispatching /\ current = 0 /\ MayStart(queue, it, force))
    <2>1. item' = it /\ UNCHANGED <<launch, asked, excused>>
      BY <1>3 DEF Drain
    <2>2. SameMessages
      BY <2>1 DEF SameMessages
    <2>3. HeadSeen'
      <3>1. ASSUME current = 0, ~Dispatching, queue # <<>>
            PROVE  it[queue[1]].hold \/ it[queue[1]].state # "queued"
        BY <1>3, <3>1 DEF MayStart, Startable
      <3> QED  BY <2>1, <3>1 DEF HeadSeen, Dispatching, launch, runs
    <2>4. carried' = [x \in Messages |-> IF x \in {} THEN current ELSE carried[x]]
      BY <1>0
    <2>5. \A x \in Messages :
               \/ item'[x].state = item[x].state
               \/ item'[x].state = "queued" /\ item[x].state \in {"queued", "checking"}
      BY <2>1
    <2>6. \A x \in routing \ routing' : Queued(x) => item'[x].state # "checking"
      BY <2>1
    <2>7. PICK ok \in SUBSET Messages : ok = {}
      OBVIOUS
    <2>8. /\ \A x \in ok : /\ Queued(x) /\ item[x].run = current /\ current \notin {0} \cup dead
                           /\ item[x].state \in {"queued", "checking"}
          /\ \A x \in Messages :
               IF x \in ok THEN item'[x].state = "steering"
               ELSE \/ item'[x].state = item[x].state
                    \/ item'[x].state = "queued" /\ item[x].state \in {"queued", "checking"}
          /\ carried' = [x \in Messages |-> IF x \in ok THEN current ELSE carried[x]]
      BY <2>4, <2>5, <2>7
    <2>9. /\ UNCHANGED <<queue, runs, launch, fates, restored, asked>> /\ excused' \in BOOLEAN
          /\ faults' \in 0..MaxFaults
      BY <2>1, StoredIs DEF QueueInv, QueueTyped, QueueTypeOK
    <2> QED  BY <2>2, <2>3, <2>6, <2>8, <2>9, QueueCarries, Zenon
  <1> QED  BY <1>2, <1>3

LEMMA QueueSendNow ==
    ASSUME QueueInv, SendNow
    PROVE  QueueInv'
  <1>1. PICK it : it = item
    OBVIOUS
  <1>2. /\ Drain(it, TRUE) /\ it \in [Messages -> Stored]
        /\ UNCHANGED <<queue, routing, carried, runs, faults, fates, restored>>
    BY <1>1, StoredIs DEF SendNow
  <1> QED  BY <1>1, <1>2, QueueDrains

\* promote, for messages that were written for the run that works.
LEMMA QueueCarry ==
    ASSUME QueueInv, current # 0, NEW it \in [Messages -> Stored],
           NEW ms \in SUBSET Messages, NEW ok, Carry(it, ms, ok),
           UNCHANGED <<queue, runs, launch, faults, fates, restored, asked, excused>>,
           \A x \in Messages :
               /\ it[x].run = item[x].run /\ it[x].mode = item[x].mode /\ it[x].hold = item[x].hold
               /\ \/ it[x].state = item[x].state
                  \/ it[x].state = "queued" /\ item[x].state \in {"queued", "checking"},
           \A x \in ms : Queued(x) /\ item[x].run = current /\ item[x].state \in {"queued", "checking"},
           routing' \subseteq routing,
           \A x \in routing \ routing' : Queued(x) => it[x].state # "checking"
    PROVE  QueueInv'
  <1>1. /\ ok \subseteq ms
        /\ item' = [m \in Messages |->
              IF m \in ms THEN [it[m] EXCEPT !.state = IF m \in ok THEN "steering" ELSE "queued"]
              ELSE it[m]]
        /\ carried' = [m \in Messages |-> IF m \in ok THEN current ELSE carried[m]]
        /\ ok # {} => current \notin dead
    BY DEF Carry
  <1>2. /\ item' \in [Messages -> Stored]
        /\ \A x \in Messages : /\ item'[x].run = it[x].run /\ item'[x].mode = it[x].mode
                               /\ item'[x].hold = it[x].hold
                               /\ item'[x].state = IF x \notin ms THEN it[x].state
                                                   ELSE IF x \in ok THEN "steering" ELSE "queued"
    BY <1>1 DEF Stored
  <1>3. SameMessages
    BY <1>2 DEF SameMessages
  <1>4. HeadSeen'
    BY DEF HeadSeen, runs
  <1>5. \A x \in Messages :
               IF x \in ok THEN item'[x].state = "steering"
               ELSE \/ item'[x].state = item[x].state
                    \/ item'[x].state = "queued" /\ item[x].state \in {"queued", "checking"}
    BY <1>1, <1>2
  <1>6. \A x \in routing \ routing' : Queued(x) => item'[x].state # "checking"
    <2>1. routing \subseteq Messages
      BY DEF QueueInv, QueueTyped, QueueTypeOK
    <2> QED  BY <1>2, <2>1
  <1>7. ok \in SUBSET Messages
    BY <1>1
  <1>8. \A x \in ok : /\ Queued(x) /\ item[x].run = current /\ current \notin {0} \cup dead
                      /\ item[x].state \in {"queued", "checking"}
    BY <1>1
  <1>9. /\ UNCHANGED <<queue, runs, launch, fates, restored, asked>> /\ excused' \in BOOLEAN
        /\ faults' \in 0..MaxFaults
    BY StoredIs DEF QueueInv, QueueTyped, QueueTypeOK
  <1> QED  BY <1>1, <1>3, <1>4, <1>5, <1>6, <1>7, <1>8, <1>9, QueueCarries, ZenonT(40)

LEMMA QueuePromote ==
    ASSUME QueueInv, NEW m \in Messages, Promote(m)
    PROVE  QueueInv'
  <1>1. PICK it : it = item
    OBVIOUS
  <1>2. PICK ms : ms = {m}
    OBVIOUS
  <1>3. PICK ok : Carry(it, ms, ok)
    BY <1>1, <1>2 DEF Promote
  <1>4. /\ current # 0 /\ Queued(m) /\ item[m].run = current
        /\ item[m].state \notin {"steering", "starting"}
        /\ UNCHANGED <<queue, routing, runs, launch, faults, fates, restored, asked, excused>>
    BY DEF Promote, SameRun, Delivering
  <1>5. item[m].state \in {"queued", "checking"} /\ it \in [Messages -> Stored]
    <2>1. item[m].state # "new" /\ item[m] \in Stored
      BY <1>4, StoredIs DEF QueueInv, Written
    <2> QED  BY <1>1, <1>4, <2>1, StoredIs DEF Stored
  <1>6. /\ ms \in SUBSET Messages /\ routing' \subseteq routing
        /\ \A x \in ms : Queued(x) /\ item[x].run = current /\ item[x].state \in {"queued", "checking"}
        /\ \A x \in routing \ routing' : Queued(x) => it[x].state # "checking"
        /\ \A x \in Messages :
               /\ it[x].run = item[x].run /\ it[x].mode = item[x].mode /\ it[x].hold = item[x].hold
               /\ \/ it[x].state = item[x].state
                  \/ it[x].state = "queued" /\ item[x].state \in {"queued", "checking"}
    BY <1>1, <1>2, <1>4, <1>5
  <1>7. UNCHANGED <<queue, runs, launch, faults, fates, restored, asked, excused>>
    BY <1>4
  <1> QED  BY <1>3, <1>4, <1>5, <1>6, <1>7, QueueCarry, Zenon

LEMMA QueueRetries ==
    ASSUME QueueInv, RetrySteering
    PROVE  QueueInv'
  <1>1. PICK it : it = item
    OBVIOUS
  <1>2. PICK ms : /\ ms \in SUBSET {m \in Range(queue) : SameRun(m) /\ item[m].state = "queued"}
                  /\ \E ok : Carry(it, ms, ok)
    BY <1>1 DEF RetrySteering
  <1>3. PICK ok : Carry(it, ms, ok)
    BY <1>2
  <1>4. /\ current # 0
        /\ UNCHANGED <<queue, routing, runs, launch, faults, fates, restored, asked, excused>>
    BY DEF RetrySteering
  <1>5. it \in [Messages -> Stored]
    BY <1>1, StoredIs
  <1>6. /\ ms \in SUBSET Messages /\ routing' \subseteq routing
        /\ \A x \in ms : Queued(x) /\ item[x].run = current /\ item[x].state \in {"queued", "checking"}
        /\ \A x \in routing \ routing' : Queued(x) => it[x].state # "checking"
        /\ \A x \in Messages :
               /\ it[x].run = item[x].run /\ it[x].mode = item[x].mode /\ it[x].hold = item[x].hold
               /\ \/ it[x].state = item[x].state
                  \/ it[x].state = "queued" /\ item[x].state \in {"queued", "checking"}
    BY <1>1, <1>2, <1>4, StoredIs DEF Queued, SameRun
  <1>7. UNCHANGED <<queue, runs, launch, faults, fates, restored, asked, excused>>
    BY <1>4
  <1> QED  BY <1>3, <1>4, <1>5, <1>6, <1>7, QueueCarry, Zenon

LEMMA QueueRoute ==
    ASSUME QueueInv, NEW m \in Messages, Route(m)
    PROVE  QueueInv'
  <1>1. /\ m \in routing /\ routing' = routing \ {m}
        /\ UNCHANGED <<queue, runs, faults, fates, restored>>
    BY DEF Route
  <1> DEFINE Moot == ~Queued(m) \/ item[m].state # (IF item[m].mode = "auto" THEN "checking" ELSE "queued")
  <1>2. CASE Moot
    <2>1. UNCHANGED <<item, carried, launch, asked, excused>>
      BY <1>2 DEF Route
    <2>2. ~Queued(m) \/ item[m].state # "checking"
      BY <1>2 DEF QueueInv, Awaited
    <2>3. SameMessages
      BY <2>1, StoredIs DEF SameMessages
    <2>4. HeadSeen'
      BY <1>1, <2>1 DEF QueueInv, HeadSeen, Dispatching, runs, launch
    <2>5. PICK ok \in SUBSET Messages : ok = {}
      OBVIOUS
    <2>6. /\ \A x \in ok : /\ Queued(x) /\ item[x].run = current /\ current \notin {0} \cup dead
                           /\ item[x].state \in {"queued", "checking"}
          /\ \A x \in Messages :
               IF x \in ok THEN item'[x].state = "steering"
               ELSE \/ item'[x].state = item[x].state
                    \/ item'[x].state = "queued" /\ item[x].state \in {"queued", "checking"}
          /\ carried' = [x \in Messages |-> IF x \in ok THEN current ELSE carried[x]]
      BY <2>1, <2>5, StoredIs
    <2>7. /\ UNCHANGED <<queue, runs, launch, fates, restored, asked>>
          /\ faults' \in 0..MaxFaults
          /\ excused' \in BOOLEAN
          /\ routing' \subseteq routing
          /\ \A x \in routing \ routing' : Queued(x) => item'[x].state # "checking"
      BY <1>1, <2>1, <2>2, StoredIs DEF QueueInv, QueueTyped, QueueTypeOK
    <2> QED  BY <2>3, <2>4, <2>6, <2>7, QueueCarries, Zenon
  <1>3. CASE ~Moot
    <2>1. PICK steer \in BOOLEAN :
             IF current = 0
             THEN /\ Drain([item EXCEPT ![m].state = "queued", ![m].steer = steer], FALSE)
                  /\ UNCHANGED carried
             ELSE /\ \E ok \in SUBSET {m} :
                        Carry([item EXCEPT ![m].state = "queued", ![m].steer = steer],
                              IF steer /\ SameRun(m) THEN {m} ELSE {}, ok)
                  /\ UNCHANGED <<launch, asked, excused>>
      <3>1. \E steer \in IF item[m].mode = "auto" THEN BOOLEAN ELSE {item[m].mode = "steer"} :
             IF current = 0
             THEN /\ Drain([item EXCEPT ![m].state = "queued", ![m].steer = steer], FALSE)
                  /\ UNCHANGED carried
             ELSE /\ \E ok \in SUBSET {m} :
                        Carry([item EXCEPT ![m].state = "queued", ![m].steer = steer],
                              IF steer /\ SameRun(m) THEN {m} ELSE {}, ok)
                  /\ UNCHANGED <<launch, asked, excused>>
        BY <1>3, Zenon DEF Route
      <3>2. (IF item[m].mode = "auto" THEN BOOLEAN ELSE {item[m].mode = "steer"}) \subseteq BOOLEAN
        BY Zenon
      <3> QED  BY <3>1, <3>2, Zenon
    <2>2. PICK it : it = [item EXCEPT ![m].state = "queued", ![m].steer = steer]
      OBVIOUS
    <2>3. item \in [Messages -> Stored]
      BY StoredIs
    <2>4. Queued(m) /\ item[m].state \in {"queued", "checking"}
      BY <1>3
    <2>5. it \in [Messages -> Stored]
      BY <2>2, <2>3, ZenonT(40) DEF Stored
    <2>6. it[m].state = "queued" /\ \A x \in Messages :
               /\ it[x].run = item[x].run /\ it[x].mode = item[x].mode /\ it[x].hold = item[x].hold
               /\ \/ it[x].state = item[x].state
                  \/ it[x].state = "queued" /\ item[x].state \in {"queued", "checking"}
      BY <2>2, <2>3, <2>4 DEF Stored
    <2>7. routing' \subseteq routing /\ \A x \in routing \ routing' : Queued(x) => it[x].state # "checking"
      BY <1>1, <2>6
    <2>8. CASE current = 0
      <3>1. Drain(it, FALSE) /\ UNCHANGED carried
        BY <2>1, <2>2, <2>8, Zenon
      <3>2. UNCHANGED <<queue, carried, runs, faults, fates, restored>> /\ FALSE \in BOOLEAN
        BY <1>1, <3>1
      <3> QED  BY <2>5, <2>6, <2>7, <3>1, <3>2, QueueDrains, Zenon
    <2>9. CASE current # 0
      <3>1. PICK ms \in SUBSET {m}, ok \in SUBSET {m} :
               Carry(it, ms, ok) /\ (ms = {} \/ SameRun(m))
        <4>1. PICK ok \in SUBSET {m} : Carry(it, IF steer /\ SameRun(m) THEN {m} ELSE {}, ok)
          BY <2>1, <2>2, <2>9, Zenon
        <4>2. PICK ms \in SUBSET {m} : ms = (IF steer /\ SameRun(m) THEN {m} ELSE {})
          OBVIOUS
        <4>3. Carry(it, ms, ok)
          BY <4>1, <4>2, Zenon
        <4> QED  BY <4>2, <4>3
      <3>2. UNCHANGED <<queue, runs, launch, faults, fates, restored, asked, excused>>
        BY <1>1, <2>1, <2>9
      <3>3. /\ ms \in SUBSET Messages
            /\ \A x \in ms : Queued(x) /\ item[x].run = current /\ item[x].state \in {"queued", "checking"}
        BY <2>4, <3>1 DEF SameRun
      <3> QED  BY <2>5, <2>6, <2>7, <2>9, <3>1, <3>2, <3>3, QueueCarry, Zenon
    <2> QED  BY <2>8, <2>9
  <1> QED  BY <1>2, <1>3

LEMMA QueueRouteFails ==
    ASSUME QueueInv, NEW m \in Messages, RouteFails(m)
    PROVE  QueueInv'
  <1>1. /\ routing' = routing \ {m} /\ Queued(m) /\ item[m].state \in {"queued", "checking"}
        /\ item' = Requeued(m) /\ excused' = TRUE
        /\ UNCHANGED <<queue, carried, runs, launch, fates, restored, asked>>
    BY DEF RouteFails
  <1>2. /\ item' \in [Messages -> Stored]
        /\ \A x \in Messages :
              /\ item'[x].run = item[x].run /\ item'[x].mode = item[x].mode
              /\ item'[x].hold = item[x].hold
              /\ item'[x].state = IF x = m THEN "queued" ELSE item[x].state
    <2>1. item \in [Messages -> Stored] /\ item' = [item EXCEPT ![m].state = "queued"]
      BY <1>1, StoredIs DEF Requeued
    <2> QED  BY <2>1, SMTT(30) DEF Stored
  <1>3. SameMessages /\ HeadSeen'
    BY <1>1, <1>2 DEF SameMessages, HeadSeen
  <1>4. PICK ok \in SUBSET Messages : ok = {}
    OBVIOUS
  <1>5. /\ \A x \in ok : /\ Queued(x) /\ item[x].run = current /\ current \notin {0} \cup dead
                         /\ item[x].state \in {"queued", "checking"}
        /\ \A x \in Messages :
               IF x \in ok THEN item'[x].state = "steering"
               ELSE \/ item'[x].state = item[x].state
                    \/ item'[x].state = "queued" /\ item[x].state \in {"queued", "checking"}
        /\ carried' = [x \in Messages |-> IF x \in ok THEN current ELSE carried[x]]
    BY <1>1, <1>2, <1>4, StoredIs
  <1>6. /\ UNCHANGED <<queue, runs, launch, fates, restored, asked>>
        /\ excused' \in BOOLEAN
        /\ routing' \subseteq routing
        /\ \A x \in routing \ routing' : Queued(x) => item'[x].state # "checking"
    BY <1>1, <1>2
  <1>7. faults' \in 0..MaxFaults
    BY TeamQueueAssumption DEF RouteFails, QueueInv, QueueTyped, QueueTypeOK
  <1> QED  BY <1>3, <1>5, <1>6, <1>7, QueueCarries, Zenon

LEMMA QueueDispatched ==
    ASSUME QueueInv, Dispatched
    PROVE  QueueInv'
  <1> USE TeamQueueAssumption
  <1>0. /\ item \in [Messages -> Stored] /\ carried \in [Messages -> 0..MaxRuns]
        /\ queue \in Seq(Messages) /\ Len(queue) <= Capacity
        /\ \A i, j \in DOMAIN queue : queue[i] = queue[j] => i = j
        /\ NoMessage \notin Messages /\ \A x : Queued(x) => x \in Messages
    BY StoredIs
  <1>1. /\ launched \in {"ok", "failed"}
        /\ queue' = IF launched = "ok" THEN Without(queue, launching) ELSE queue
        /\ UNCHANGED <<routing, carried, runs, faults, fates, restored>>
    BY DEF Dispatched, Returning
  <1>2. /\ launching # NoMessage /\ launching \in Messages /\ launched # "pending"
        /\ item[launching].state \in {"starting", "queued"} /\ item[launching].run \in 1..started
        /\ carried[launching] = 0
    <2>1. launching # NoMessage
      BY <1>1 DEF QueueInv, Launches
    <2> QED  BY <1>1, <2>1, LaunchingIs DEF QueueInv, Guided
  <1>3. starting.by \notin Messages
    BY <1>1 DEF QueueInv, Launches
  <1> DEFINE goes == launched = "ok" /\ current = 0 /\ MayStart(Without(queue, launching), item, FALSE)
  <1>4. ASSUME launched = "ok"
        PROVE  /\ queue' \in Seq(Messages) /\ Len(queue') <= Capacity
               /\ \A x : Queued(x)' <=> Queued(x) /\ x # launching
               /\ \A i, j \in DOMAIN queue' : queue'[i] = queue'[j] => i = j
    <2>1. queue' = Without(queue, launching)
      BY <1>1, <1>4
    <2> QED  BY <2>1, QueueLess
  <1>5. CASE goes
    <2>1. PICK h, it : h = queue'[1] /\ it = item
      OBVIOUS
    <2>2. Launch(h, it, FALSE) /\ queue' # <<>> /\ item[h].state = "queued" /\ current = 0
      BY <1>1, <1>5, <2>1 DEF Dispatched, DrainsAgain, MayStart, Startable
    <2>3. h \in Messages /\ Queued(h)'
      BY <1>4, <1>5, <2>1, <2>2, HeadIsQueued DEF Queued
    <2>4. /\ item' \in [Messages -> Stored]
          /\ item'[h].state = "starting"
          /\ \A x \in Messages : /\ item'[x].run = it[x].run /\ item'[x].mode = it[x].mode
                                 /\ item'[x].hold = it[x].hold
                                 /\ x # h => item'[x].state = it[x].state
          /\ launching' = h /\ asked' = FALSE /\ excused' = FALSE
          /\ IF starting = Idle
             THEN starting' = [by |-> h, phase |-> "checked"] /\ launched' = "pending"
             ELSE launched' = "failed" /\ starting' = starting
      <3>1. it \in [Messages -> Stored] /\ FALSE \in BOOLEAN
        BY <1>0, <2>1
      <3> QED  BY <2>2, <2>3, <3>1, LaunchIs, Zenon
    <2>5. SameMessages
      BY <2>1, <2>4 DEF SameMessages
    <2>6. h # launching
      BY <1>4, <1>5, <2>3
    <2>7. /\ runPaused' \in BOOLEAN /\ current' = 0
          /\ UNCHANGED <<unwinding, started, dead>>
      BY <1>1, <2>2 DEF runs, QueueInv, QueueTyped, QueueTypeOK
    <2>8. \A x \in Messages : carried[x] # 0 =>
             Queued(x) /\ item[x].state = "steering" /\ carried[x] \in unwinding /\ x # h /\ x # launching
      BY <1>2, <2>2 DEF QueueInv, QueueTyped, QueueTypeOK, Guided
    <2>9. \A x \in Messages : carried'[x] # 0 =>
               /\ carried'[x] = carried[x] /\ Queued(x)' /\ item'[x].state = "steering"
               /\ carried[x] \in unwinding'
      BY <1>1, <1>4, <1>5, <2>1, <2>4, <2>7, <2>8
    <2>10. \A x \in Messages : Queued(x)' => /\ item'[x].state = "steering" => carried'[x] # 0
                                             /\ item'[x].state = "checking" => x \in routing'
      BY <1>1, <1>4, <1>5, <2>1, <2>4 DEF QueueInv, Awaited
    <2>11. \A x \in Messages : x # h =>
               \/ item'[x].state = item[x].state
               \/ item'[x].state = "queued" /\ item[x].state \in {"queued", "checking", "steering"}
      BY <2>1, <2>4
    <2>12. /\ item[h].state # "starting" /\ carried'[h] = 0 /\ carried' \in [Messages -> 0..MaxRuns]
           /\ unwinding' \subseteq unwinding /\ routing' \subseteq routing /\ asked' \in BOOLEAN
           /\ UNCHANGED <<started, dead, faults, fates, restored>>
           /\ (launching = NoMessage \/ launched = "ok")
      BY <1>0, <1>1, <1>5, <2>2, <2>3, <2>4, <2>7, <2>8
    <2>13. /\ queue' \in Seq(Messages) /\ Len(queue') <= Capacity
           /\ \A x : Queued(x)' <=> Queued(x) /\ x # launching
           /\ \A i, j \in DOMAIN queue' : queue'[i] = queue'[j] => i = j
      BY <1>4, <1>5
    <2> QED  BY <2>3, <2>4, <2>5, <2>6, <2>7, <2>9, <2>10, <2>11, <2>12, <2>13, QueueLaunches, Zenon
  <1>6. CASE ~goes
    <2>1. /\ item' = IF launched = "failed" /\ Queued(launching) THEN Requeued(launching) ELSE item
          /\ launching' = NoMessage /\ launched' = "none"
          /\ excused' = (excused \/ launched = "failed")
          /\ UNCHANGED <<starting, asked>>
      BY <1>6 DEF Dispatched, DrainsAgain
    <2>2. /\ queue' \in Seq(Messages) /\ Len(queue') <= Capacity
          /\ \A x : Queued(x)' <=> Queued(x) /\ ~(launched = "ok" /\ x = launching)
          /\ \A i, j \in DOMAIN queue' : queue'[i] = queue'[j] => i = j
      <3>1. CASE launched = "ok"
        BY <1>4, <3>1
      <3>2. CASE launched # "ok"
        BY <1>0, <1>1, <3>2 DEF Queued
      <3> QED  BY <3>1, <3>2
    <2>3. /\ item' \in [Messages -> Stored]
          /\ \A x \in Messages :
                /\ item'[x].run = item[x].run /\ item'[x].mode = item[x].mode
                /\ item'[x].hold = item[x].hold
                /\ item'[x].state = IF launched = "failed" /\ Queued(launching) /\ x = launching
                                    THEN "queued" ELSE item[x].state
      <3>1. CASE launched = "failed" /\ Queued(launching)
        <4>1. item' = [item EXCEPT ![launching].state = "queued"] /\ launching \in Messages
          BY <1>0, <2>1, <3>1 DEF Requeued
        <4>2. item \in [Messages -> Stored] /\ "queued" \in {"new", "checking", "queued", "steering", "starting"}
          BY StoredIs
        <4>3. item'[launching] = [item[launching] EXCEPT !.state = "queued"]
          BY <4>1, <4>2
        <4>4. \A x \in Messages : x # launching => item'[x] = item[x]
          BY <4>1, <4>2
        <4>5. item' \in [Messages -> Stored]
          BY <4>1, <4>2, <4>3, SMTT(30) DEF Stored
        <4>6. \A x \in Messages : item[x] \in Stored
          BY <4>2
        <4> QED  BY <3>1, <4>1, <4>3, <4>4, <4>5, <4>6, SMTT(30) DEF Stored
      <3>2. CASE ~(launched = "failed" /\ Queued(launching))
        BY StoredIs, <2>1, <3>2
      <3> QED  BY <3>1, <3>2
    <2>4. QueueTyped'
      <3>1. /\ QueueTypeOK /\ carried' \in [Messages -> 0..MaxRuns]
            /\ routing' \subseteq Messages /\ excused' \in BOOLEAN
            /\ \A x \in Messages : carried'[x] \in {0, item'[x].run}
        BY <1>1, <2>1, <2>3, StoredIs DEF QueueInv, QueueTyped, QueueTypeOK, runs, fates
      <3> QED  BY <1>1, <2>1, <2>2, <2>3, <3>1, SMTT(60) DEF QueueTyped, QueueTypeOK, Stored, runs, fates
    <2>5. Written'
      BY <1>1, <1>2, <2>1, <2>2, <2>3 DEF QueueInv, Written, runs, fates
    <2>6. Numbered'
      BY <1>1, <2>1 DEF QueueInv, Numbered, runs
    <2>7. Launches'
      BY <1>1, <1>3, <2>1 DEF Launches
    <2>8. Placed'
      <3>1. /\ launched = "ok" => delivered[launching] # kept[launching]
            /\ launched = "failed" => delivered[launching] = kept[launching] \/ ~Queued(launching)
        BY <1>2 DEF QueueInv, Launches, QueueTyped, QueueTypeOK
      <3> QED  BY <1>1, <1>2, <2>1, <2>2, <2>3, <3>1 DEF QueueInv, Placed, fates
    <2>9. Guided'
      BY <1>1, <1>2, <2>2, <2>3 DEF QueueInv, Guided, runs
    <2>10. Awaited'
      BY <1>1, <1>2, <2>1, <2>2, <2>3 DEF QueueInv, Awaited
    <2>11. HeldSince'
      <3>1. restored \subseteq Messages
        BY DEF QueueInv, QueueTyped, QueueTypeOK
      <3> QED  BY <1>1, <2>2, <2>3, <3>1 DEF QueueInv, HeldSince
    <2>12. HeadSeen'
      <3>1. CASE launched = "ok"
        <4>1. current = 0 /\ queue' # <<>> => item[queue'[1]].hold \/ item[queue'[1]].state # "queued"
          BY <1>1, <1>6, <3>1 DEF MayStart, Startable
        <4>2. item' = item
          BY <2>1, <3>1
        <4> QED  BY <1>1, <4>1, <4>2 DEF HeadSeen, runs
      <3>2. CASE launched # "ok"
        <4>1. excused' = TRUE
          BY <1>1, <2>1, <3>2
        <4> QED  BY <4>1 DEF HeadSeen
      <3> QED  BY <3>1, <3>2
    <2> QED  BY <2>4, <2>5, <2>6, <2>7, <2>8, <2>9, <2>10, <2>11, <2>12 DEF QueueInv
  <1> QED  BY <1>5, <1>6

\* After a restart nothing is launched, judged or carried, and what is stored is held back.
LEMMA QueueRestores ==
    ASSUME QueueInv, Restore,
           delivered' \in [Messages -> Nat], kept' \in [Messages -> Nat],
           \A m \in Messages :
               /\ IF Queued(m) THEN delivered'[m] = kept'[m]
                  ELSE delivered'[m] = delivered[m] /\ kept'[m] = kept[m]
    PROVE  QueueInv'
  <1> USE TeamQueueAssumption
  <1>0. item \in [Messages -> Stored] /\ queue \in Seq(Messages)
    BY StoredIs
  <1>1. /\ faults < MaxFaults /\ faults' = faults + 1
        /\ item' = [m \in Messages |-> IF Queued(m) THEN HeldBack(m) ELSE item[m]]
        /\ restored' = Range(queue)
        /\ routing' = {} /\ carried' = [m \in Messages |-> 0]
        /\ current' = 0 /\ runPaused' = FALSE /\ unwinding' = {} /\ dead' = {}
        /\ starting' = Idle /\ launching' = NoMessage /\ launched' = "none"
        /\ asked' = FALSE /\ excused' = FALSE
        /\ UNCHANGED <<queue, started, cancelled, overtaken>>
    BY DEF Restore
  <1>2. \A x : (Queued(x)' <=> Queued(x)) /\ (x \in restored' <=> Queued(x))
    BY <1>1 DEF Queued
  <1>3. /\ item' \in [Messages -> Stored]
        /\ \A x \in Messages :
              /\ item'[x].run = item[x].run /\ item'[x].mode = item[x].mode
              /\ Queued(x) => item'[x].state = "queued" /\ item'[x].hold
              /\ ~Queued(x) => item'[x] = item[x]
    <2>1. ASSUME NEW x \in Messages
          PROVE  /\ item'[x] \in Stored
                 /\ item'[x].run = item[x].run /\ item'[x].mode = item[x].mode
                 /\ Queued(x) => item'[x].state = "queued" /\ item'[x].hold
                 /\ ~Queued(x) => item'[x] = item[x]
      <3>1. item[x] \in Stored
        BY <1>0
      <3>2. item'[x] = IF Queued(x) THEN [item[x] EXCEPT !.state = "queued", !.hold = TRUE] ELSE item[x]
        BY <1>1, ZenonT(30) DEF HeldBack
      <3>3. CASE Queued(x)
        BY <3>1, <3>2, <3>3 DEF Stored
      <3>4. CASE ~Queued(x)
        BY <3>1, <3>2, <3>4
      <3> QED  BY <3>3, <3>4
    <2> QED  BY <1>1, <2>1, Zenon
  <1>4. Idle \in [by : Messages \cup {NoMessage, ByUser}, phase : {"idle", "checked", "cleared"}]
        /\ Idle.by = NoMessage /\ Idle.phase = "idle"
    BY DEF Idle
  <1>5. QueueTyped'
    <2>1. faults' \in 0..MaxFaults /\ 0 \in 0..MaxRuns
      BY <1>1 DEF QueueInv, QueueTyped, QueueTypeOK
    <2>2. carried' \in [Messages -> 0..MaxRuns] /\ \A x \in Messages : carried'[x] = 0
      BY <1>1, <2>1
    <2>3. restored' \subseteq Messages
      BY <1>2, StoredIs
    <2> QED  BY <1>1, <1>3, <1>4, <2>1, <2>2, <2>3 DEF QueueInv, QueueTyped, QueueTypeOK, Stored
  <1>6. Written'
    <2>1. \A x \in Messages : Queued(x) => item[x].state # "new"
      BY DEF QueueInv, Written
    <2> QED  BY <1>1, <1>2, <1>3, <2>1 DEF QueueInv, Written
  <1>7. Numbered'
    BY <1>1, <1>4 DEF QueueInv, QueueTyped, QueueTypeOK, Numbered
  <1>8. Launches'
    BY <1>1, <1>4 DEF Launches
  <1>9. Placed'
    BY <1>1, <1>2, <1>3 DEF QueueInv, Placed
  <1>10. Guided'
    BY <1>1 DEF Guided
  <1>11. Awaited' /\ HeldSince'
    BY <1>2, <1>3, StoredIs DEF Awaited, HeldSince
  <1>12. HeadSeen'
    <2>1. queue # <<>> => queue[1] \in Messages /\ Queued(queue[1])
      BY <1>0, HeadIsQueued DEF Queued
    <2> QED  BY <1>1, <1>3, <2>1 DEF HeadSeen
  <1> QED  BY <1>5, <1>6, <1>7, <1>8, <1>9, <1>10, <1>11, <1>12 DEF QueueInv

LEMMA QueueRestart ==
    ASSUME QueueInv, Restart
    PROVE  QueueInv'
  <1>1. /\ Restore /\ delivered' = delivered
        /\ kept' = [m \in Messages |-> IF m = launching /\ launched = "ok" /\ Queued(m)
                                       THEN kept[m] + 1 ELSE kept[m]]
    BY DEF Restart
  <1>2. delivered \in [Messages -> Nat] /\ kept \in [Messages -> Nat]
    BY DEF QueueInv, QueueTyped, QueueTypeOK
  <1>3. delivered' \in [Messages -> Nat] /\ kept' \in [Messages -> Nat]
    BY <1>1, <1>2
  <1>4. launching # NoMessage /\ launched = "ok" => delivered[launching] = kept[launching] + 1
    BY DEF QueueInv, Launches
  <1>5. \A m \in Messages : Queued(m) => delivered[m] = kept[m] \/ (m = launching /\ launched = "ok")
    BY DEF QueueInv, Placed
  <1>6. \A m \in Messages : IF Queued(m) THEN delivered'[m] = kept'[m]
                            ELSE delivered'[m] = delivered[m] /\ kept'[m] = kept[m]
    BY <1>1, <1>4, <1>5, TeamQueueAssumption
  <1> QED  BY <1>1, <1>3, <1>6, QueueRestores

LEMMA QueueDiesApplying ==
    ASSUME QueueInv, NEW m \in Messages, DiesApplying(m)
    PROVE  QueueInv'
  <1>1. /\ Restore /\ Queued(m) /\ launched \notin {"ok", "failed"}
        /\ delivered' = [delivered EXCEPT ![m] = @ + 1]
        /\ kept' = [kept EXCEPT ![m] = @ + 1]
    BY DEF DiesApplying, Returning
  <1>2. delivered \in [Messages -> Nat] /\ kept \in [Messages -> Nat]
    BY DEF QueueInv, QueueTyped, QueueTypeOK
  <1>3. delivered' \in [Messages -> Nat] /\ kept' \in [Messages -> Nat]
    BY <1>1, <1>2
  <1>4. \A x \in Messages : Queued(x) => delivered[x] = kept[x]
    BY <1>1 DEF QueueInv, Placed
  <1>5. \A x \in Messages : IF Queued(x) THEN delivered'[x] = kept'[x]
                            ELSE delivered'[x] = delivered[x] /\ kept'[x] = kept[x]
    BY <1>1, <1>2, <1>4
  <1> QED  BY <1>1, <1>3, <1>5, QueueRestores

\* A run ends.
LEMMA QueueFinishRun ==
    ASSUME QueueInv, NEW r \in 1..MaxRuns, NEW continueQueue \in BOOLEAN,
           FinishRun(r, continueQueue)
    PROVE  QueueInv'
  <1> USE TeamQueueAssumption
  <1> DEFINE after == [m \in Messages |->
            IF ~Queued(m) \/ item[m].run # r THEN item[m]
            ELSE IF ~continueQueue THEN HeldBack(m)
            ELSE IF item[m].state = "steering" THEN [item[m] EXCEPT !.state = "queued"]
            ELSE item[m]]
  <1>0. /\ item \in [Messages -> Stored] /\ carried \in [Messages -> 0..MaxRuns]
        /\ queue \in Seq(Messages) /\ Len(queue) <= Capacity
        /\ \A i, j \in DOMAIN queue : queue[i] = queue[j] => i = j
        /\ NoMessage \notin Messages /\ \A x : Queued(x) => x \in Messages
    BY StoredIs
  <1>1. /\ r # 0 /\ (r = current \/ r \in unwinding) /\ (continueQueue => r = current)
        /\ current' = IF r = current THEN 0 ELSE current
        /\ runPaused' = (runPaused /\ r # current)
        /\ unwinding' = unwinding \ {r}
        /\ carried' = [m \in Messages |-> IF carried[m] = r THEN 0 ELSE carried[m]]
        /\ overtaken' = IF ~continueQueue /\ Dispatching /\ Queued(launching) /\ item[launching].run = r
                        THEN overtaken \cup {launching} ELSE overtaken
        /\ UNCHANGED <<queue, routing, started, dead, faults, delivered, cancelled, kept, restored>>
    BY DEF FinishRun
  <1>2. IF continueQueue /\ ~Dispatching /\ MayStart(queue, after, FALSE)
        THEN Launch(queue[1], after, FALSE)
        ELSE /\ item' = after
             /\ excused' = (excused \/ ~continueQueue)
             /\ UNCHANGED <<launch, asked>>
    BY Zenon DEF FinishRun
  <1>3. \A x : Queued(x)' <=> Queued(x)
    BY <1>1 DEF Queued
  <1>4. PICK left \in [Messages -> Stored] :
           /\ left = after
           /\ \A x \in Messages :
                /\ left[x].run = item[x].run /\ left[x].mode = item[x].mode
                /\ ~Queued(x) \/ item[x].run # r =>
                      left[x].state = item[x].state /\ left[x].hold = item[x].hold
                /\ Queued(x) /\ item[x].run = r /\ ~continueQueue =>
                      left[x].state = "queued" /\ left[x].hold
                /\ Queued(x) /\ item[x].run = r /\ continueQueue =>
                      /\ left[x].state = IF item[x].state = "steering" THEN "queued" ELSE item[x].state
                      /\ left[x].hold = item[x].hold
    <2>1. ASSUME NEW x \in Messages
          PROVE  /\ after[x] \in Stored
                 /\ after[x].run = item[x].run /\ after[x].mode = item[x].mode
                 /\ ~Queued(x) \/ item[x].run # r =>
                       after[x].state = item[x].state /\ after[x].hold = item[x].hold
                 /\ Queued(x) /\ item[x].run = r /\ ~continueQueue =>
                       after[x].state = "queued" /\ after[x].hold
                 /\ Queued(x) /\ item[x].run = r /\ continueQueue =>
                       /\ after[x].state = IF item[x].state = "steering" THEN "queued" ELSE item[x].state
                       /\ after[x].hold = item[x].hold
      <3>1. item[x] \in Stored
        BY <1>0
      <3>2. CASE ~Queued(x) \/ item[x].run # r
        <4>1. after[x] = item[x]
          BY <3>2
        <4> QED  BY <3>1, <3>2, <4>1
      <3>3. CASE Queued(x) /\ item[x].run = r /\ ~continueQueue
        <4>1. after[x] = [item[x] EXCEPT !.state = "queued", !.hold = TRUE]
          BY <3>3 DEF HeldBack
        <4> HIDE DEF after
        <4> QED  BY <3>1, <3>3, <4>1 DEF Stored
      <3>4. CASE Queued(x) /\ item[x].run = r /\ continueQueue
        <4>1. after[x] = IF item[x].state = "steering" THEN [item[x] EXCEPT !.state = "queued"]
                         ELSE item[x]
          BY <3>4
        <4> HIDE DEF after
        <4> QED  BY <3>1, <3>4, <4>1 DEF Stored
      <3> QED  BY <3>2, <3>3, <3>4
    <2>2. after \in [Messages -> Stored]
      BY <2>1
    <2> HIDE DEF after
    <2> QED  BY <2>1, <2>2, Zenon
  <1> HIDE DEF after
  <1>5. /\ carried' \in [Messages -> 0..MaxRuns]
        /\ \A x \in Messages : carried'[x] = IF carried[x] = r THEN 0 ELSE carried[x]
    BY <1>0, <1>1
  <1>6. \A x \in Messages : carried[x] # 0 =>
           /\ Queued(x) /\ item[x].state = "steering" /\ carried[x] = item[x].run
           /\ carried[x] \in ({current} \cup unwinding) \ dead
    BY DEF QueueInv, Guided
  <1>7. \A x \in Messages : carried'[x] # 0 =>
           /\ carried'[x] = carried[x] /\ Queued(x)' /\ left[x].state = "steering"
           /\ carried[x] \in ({current'} \cup unwinding') \ dead' /\ carried[x] = item[x].run
    BY <1>1, <1>3, <1>4, <1>5, <1>6
  <1>8. \A x \in Messages : Queued(x) =>
           /\ left[x].state = "steering" => carried'[x] # 0
           /\ left[x].state = "checking" => x \in routing' /\ left[x].mode = "auto"
           /\ left[x].state = "starting" => x = launching
    <2>1. \A x \in Messages : Queued(x) =>
           /\ item[x].state = "steering" => carried[x] # 0
           /\ item[x].state = "checking" => x \in routing /\ item[x].mode = "auto"
           /\ item[x].state = "starting" => x = launching
      BY DEF QueueInv, Awaited
    <2>2. \A x \in Messages : Queued(x) => left[x].state \in {"queued", item[x].state}
      BY <1>4
    <2>3. \A x \in Messages : Queued(x) /\ left[x].state = "steering" =>
             item[x].state = "steering" /\ item[x].run # r
      BY <1>4
    <2>4. \A x \in Messages : Queued(x) /\ left[x].state = "steering" => carried'[x] # 0
      BY <1>5, <1>6, <2>1, <2>3
    <2> QED  BY <1>1, <1>4, <2>1, <2>2, <2>4
  <1>9. CASE continueQueue /\ ~Dispatching /\ MayStart(queue, left, FALSE)
    <2>1. PICK h : h = queue[1]
      OBVIOUS
    <2>2. Launch(h, left, FALSE) /\ queue # <<>> /\ left[h].state = "queued"
      BY <1>2, <1>4, <1>9, <2>1 DEF MayStart, Startable
    <2>3. h \in Messages /\ Queued(h)
      BY <1>0, <2>1, <2>2, HeadIsQueued DEF Queued
    <2>4. /\ item' \in [Messages -> Stored]
          /\ item'[h].state = "starting"
          /\ \A x \in Messages : /\ item'[x].run = left[x].run /\ item'[x].mode = left[x].mode
                                 /\ item'[x].hold = left[x].hold
                                 /\ x # h => item'[x].state = left[x].state
          /\ launching' = h /\ asked' = FALSE /\ excused' = FALSE
          /\ IF starting = Idle
             THEN starting' = [by |-> h, phase |-> "checked"] /\ launched' = "pending"
             ELSE launched' = "failed" /\ starting' = starting
      <3>1. FALSE \in BOOLEAN
        OBVIOUS
      <3> QED  BY <2>2, <2>3, <3>1, LaunchIs, Zenon
    <2>5. SameMessages
      BY <1>4, <1>9, <2>4 DEF SameMessages
    <2>6. launching = NoMessage /\ h # launching
      BY <1>0, <1>9, <2>3 DEF Dispatching
    <2>7. current' = 0 /\ runPaused' \in BOOLEAN
      BY <1>1, <1>9 DEF QueueInv, QueueTyped, QueueTypeOK
    <2>8. \A x \in Messages : x # h =>
               \/ item'[x].state = item[x].state
               \/ item'[x].state = "queued" /\ item[x].state \in {"queued", "checking", "steering"}
      BY <1>4, <1>9, <2>4
    <2>9. carried'[h] = 0 /\ item[h].state # "starting"
      <3>1. carried'[h] = 0
        BY <1>7, <2>2, <2>3
      <3> QED  BY <1>4, <1>9, <2>2, <2>3, <3>1
    <2>10. \A x \in Messages : carried'[x] # 0 =>
               /\ carried'[x] = carried[x] /\ Queued(x)' /\ item'[x].state = "steering"
               /\ carried[x] \in unwinding'
      BY <1>7, <2>4, <2>7, <2>9
    <2>11. \A x \in Messages : Queued(x)' => /\ item'[x].state = "steering" => carried'[x] # 0
                                             /\ item'[x].state = "checking" => x \in routing'
      BY <1>3, <1>8, <2>4
    <2>12. /\ \A x : Queued(x)' <=> Queued(x) /\ x # launching
           /\ queue' \in Seq(Messages) /\ Len(queue') <= Capacity /\ Queued(h)'
           /\ \A i, j \in DOMAIN queue' : queue'[i] = queue'[j] => i = j
      BY <1>0, <1>1, <1>3, <2>3, <2>6
    <2>13. /\ routing' \subseteq routing /\ unwinding' \subseteq unwinding /\ asked' \in BOOLEAN
           /\ (launching = NoMessage \/ launched = "ok")
           /\ UNCHANGED <<started, dead, faults, fates, restored>>
      BY <1>1, <1>9, <2>4, <2>6 DEF fates
    <2> QED  BY <1>5, <2>3, <2>4, <2>5, <2>6, <2>7, <2>8, <2>9, <2>10, <2>11, <2>12, <2>13,
                QueueLaunches, Zenon
  <1>10. CASE ~(continueQueue /\ ~Dispatching /\ MayStart(queue, left, FALSE))
    <2>1. item' = left /\ excused' = (excused \/ ~continueQueue) /\ UNCHANGED <<launch, asked>>
      BY <1>2, <1>4, <1>10
    <2>2. overtaken \subseteq overtaken' /\ overtaken' \subseteq overtaken \cup {launching}
          /\ (launching \in overtaken' => launching \in overtaken \/ Dispatching)
      BY <1>1
    <2>3. launching # NoMessage =>
             /\ launching \in Messages /\ item[launching].state \in {"starting", "queued"}
             /\ item[launching].run \in 1..started /\ item[launching].run # current
      BY LaunchingIs DEF QueueInv, Launches
    <2>4. QueueTyped'
      <3>1. \A x \in Messages : carried'[x] \in {0, item'[x].run}
        BY <1>4, <1>7, <2>1
      <3>2. overtaken' \subseteq Messages
        BY <1>1, <2>3 DEF Dispatching, QueueInv, QueueTyped, QueueTypeOK
      <3>3. current' \in 0..MaxRuns /\ unwinding' \subseteq 1..MaxRuns
        BY <1>1 DEF QueueInv, QueueTyped, QueueTypeOK
      <3>4. runPaused' \in BOOLEAN /\ excused' \in BOOLEAN
        BY <1>1, <2>1 DEF QueueInv, QueueTyped, QueueTypeOK
      <3> QED  BY <1>1, <1>4, <1>5, <2>1, <3>1, <3>2, <3>3, <3>4
               DEF QueueInv, QueueTyped, QueueTypeOK, Stored, launch
    <2>5. \A x \in Messages : item'[x].state = "new" <=> item[x].state = "new"
      <3>1. \A x \in Messages : Queued(x) => item[x].state # "new"
        BY DEF QueueInv, Written
      <3> QED  BY <1>4, <2>1, <3>1
    <2>6. Written'
      <3>1. launching \in overtaken' => launching \in overtaken \/ launching # NoMessage
        BY <2>2 DEF Dispatching
      <3>2. \A x \in Messages : item'[x].state # "new" => item'[x].run \in 1..started'
        BY <1>1, <1>4, <2>1, <2>5 DEF QueueInv, Written
      <3>3. ASSUME NEW x \in Messages,
                   \/ Queued(x)' \/ x \in routing' \/ x = launching'
                   \/ x \in cancelled' \cup overtaken' \cup restored' \/ delivered'[x] # 0
            PROVE  item'[x].state # "new"
        BY <1>1, <1>3, <2>1, <2>2, <2>5, <3>3 DEF QueueInv, Written, launch
      <3> QED  BY <1>0, <1>1, <3>2, <3>3 DEF Written
    <2>7. Numbered'
      <3>1. unwinding' \subseteq 1..started' /\ current' <= started'
        BY <1>1 DEF QueueInv, QueueTyped, QueueTypeOK, Numbered
      <3> QED  BY <1>1, <2>1, <3>1 DEF QueueInv, Numbered, launch
    <2>8. Launches'
      <3>1. ASSUME launching # NoMessage  PROVE item'[launching].run # current'
        BY <1>1, <1>4, <2>1, <2>3, <3>1
      <3>2. ASSUME launching # NoMessage
            PROVE  \/ item'[launching].state = "starting" /\ Queued(launching)'
                   \/ launching \in overtaken' /\ item'[launching].state = "queued"
        <4>1. \/ item[launching].state = "starting" /\ Queued(launching)
              \/ launching \in overtaken /\ item[launching].state = "queued"
          BY <3>2 DEF QueueInv, Launches
        <4>2. CASE Queued(launching) /\ item[launching].run = r
          <5>1. ~continueQueue
            BY <1>1, <2>3, <3>2, <4>2
          <5>2. item'[launching].state = "queued" /\ launching \in overtaken'
            BY <1>1, <1>4, <2>1, <2>3, <3>2, <4>2, <5>1 DEF Dispatching
          <5> QED  BY <5>2
        <4>3. CASE ~(Queued(launching) /\ item[launching].run = r)
          <5>1. item'[launching].state = item[launching].state
            BY <1>4, <2>1, <2>3, <3>2, <4>3
          <5> QED  BY <1>3, <2>1, <2>2, <4>1, <5>1 DEF launch
        <4> QED  BY <4>2, <4>3
      <3> QED  BY <1>1, <1>3, <2>1, <3>1, <3>2 DEF QueueInv, Launches, launch
    <2>9. Placed'
      BY <1>1, <1>3, <2>1, <2>2, <2>5 DEF QueueInv, Placed, launch
    <2>10. Guided'
      BY <1>4, <1>7, <2>1 DEF Guided
    <2>11. Awaited'
      BY <1>3, <1>8, <2>1 DEF Awaited, launch
    <2>12. HeldSince'
      <3>1. \A x \in Messages : item[x].hold => left[x].hold
        BY <1>4
      <3>2. restored \subseteq Messages
        BY DEF QueueInv, QueueTyped, QueueTypeOK
      <3> QED  BY <1>1, <1>3, <2>1, <3>1, <3>2 DEF QueueInv, HeldSince
    <2>13. HeadSeen'
      <3>1. CASE continueQueue
        <4>1. ~Dispatching /\ queue # <<>> => left[queue[1]].hold \/ left[queue[1]].state # "queued"
          BY <1>10, <3>1 DEF MayStart, Startable
        <4> QED  BY <1>1, <2>1, <4>1 DEF HeadSeen, Dispatching, launch
      <3>2. CASE ~continueQueue
        BY <2>1, <3>2 DEF HeadSeen
      <3> QED  BY <3>1, <3>2
    <2> QED  BY <2>4, <2>6, <2>7, <2>8, <2>9, <2>10, <2>11, <2>12, <2>13 DEF QueueInv
  <1> QED  BY <1>9, <1>10

LEMMA QueueInitial == QueueInit => QueueInv
  <1> USE TeamQueueAssumption
  <1> SUFFICES ASSUME QueueInit  PROVE QueueInv
    OBVIOUS
  <1>1. /\ queue = <<>> /\ routing = {}
        /\ item = [m \in Messages |-> [state |-> "new", hold |-> FALSE, run |-> 0,
                                       mode |-> "auto", steer |-> FALSE]]
        /\ carried = [m \in Messages |-> 0]
        /\ current = 0 /\ runPaused = FALSE /\ unwinding = {} /\ started = 0 /\ dead = {}
        /\ starting = Idle /\ launching = NoMessage /\ launched = "none" /\ faults = 0
        /\ delivered = [m \in Messages |-> 0] /\ cancelled = {} /\ overtaken = {}
        /\ kept = [m \in Messages |-> 0]
        /\ restored = {} /\ asked = FALSE /\ excused = FALSE
    BY DEF QueueInit
  <1>2. queue \in Seq(Messages) /\ Len(queue) = 0 /\ DOMAIN queue = {} /\ \A x : ~Queued(x)
    BY <1>1 DEF Queued, Range
  <1>3. Idle \in [by : Messages \cup {NoMessage, ByUser}, phase : {"idle", "checked", "cleared"}]
        /\ Idle.by = NoMessage /\ Idle.phase = "idle"
    BY DEF Idle
  <1>4. QueueTyped
    <2>1. 0 \in 0..MaxRuns /\ 0 \in 0..MaxFaults /\ Len(queue) <= Capacity
      BY <1>2
    <2> QED  BY <1>1, <1>2, <1>3, <2>1 DEF QueueTyped, QueueTypeOK
  <1>5. Written /\ Placed /\ Guided /\ Awaited /\ HeldSince
    BY <1>1, <1>2 DEF Written, Placed, Guided, Awaited, HeldSince
  <1>6. Numbered /\ Launches /\ HeadSeen
    BY <1>1, <1>3 DEF Numbered, Launches, HeadSeen
  <1> QED  BY <1>4, <1>5, <1>6 DEF QueueInv

\* Every step of the queue keeps its invariant.
LEMMA QueueStep ==
    ASSUME QueueInv, [QueueNext]_queueVars
    PROVE  QueueInv'
  <1>1. CASE \E m \in Messages : \/ Enqueue(m) \/ Route(m) \/ RouteFails(m) \/ Promote(m)
                                 \/ Applied(m) \/ Cancel(m) \/ DiesApplying(m)
    BY <1>1, QueueEnqueue, QueueRoute, QueueRouteFails, QueuePromote, QueueApplied, QueueCancel,
       QueueDiesApplying
  <1>2. CASE SendNow \/ Dispatched \/ RetrySteering
    BY <1>2, QueueSendNow, QueueDispatched, QueueRetries
  <1>3. CASE \/ PauseRun \/ UserStarts \/ Replace \/ Register \/ RegisterFails \/ StartFails
             \/ Restart
    BY <1>3, QueuePauseRun, QueueUserStarts, QueueReplace, QueueRegister, QueueRegisterFails,
       QueueStartFails, QueueRestart
  <1>4. CASE \E r \in 1..MaxRuns, continueQueue \in BOOLEAN : FinishRun(r, continueQueue)
    BY <1>4, QueueFinishRun
  <1>5. CASE UNCHANGED queueVars
    <2>1. QueueTyped'
      BY <1>5, SMTT(60) DEF QueueInv, QueueTyped, QueueTypeOK, queueVars, store, runs, launch, fates
    <2>4. Written' /\ Numbered'
      BY <1>5, SMTT(60) DEF QueueInv, Written, Numbered, Queued, queueVars, store, runs, launch, fates
    <2>2. Launches' /\ Placed'
      BY <1>5, SMTT(30) DEF QueueInv, Launches, Placed, Queued, queueVars, store, runs, launch, fates
    <2>3. Guided' /\ Awaited' /\ HeldSince' /\ HeadSeen'
      BY <1>5, SMTT(30) DEF QueueInv, Guided, Awaited, HeldSince, HeadSeen, Queued, Dispatching, queueVars,
         store, runs, launch, fates
    <2> QED  BY <2>1, <2>2, <2>3, <2>4 DEF QueueInv
  <1> QED  BY <1>1, <1>2, <1>3, <1>4, <1>5 DEF QueueNext

\* The queue stays within its capacity, and guidance never reaches a run but the one it
\* was written for, for any messages, capacity and number of runs.
THEOREM QueueTypeCorrect == QueueSpec => []QueueTypeOK
  <1>1. QueueInv => QueueTypeOK
    BY DEF QueueInv, QueueTyped
  <1> QED  BY <1>1, QueueInitial, QueueStep, PTL DEF QueueSpec

\* A message the queue accepted is in one place and is delivered at most once more than it
\* was left stored by a crash between its delivery and its removal, or by a launch that
\* failed after its task was saved: however steering, launching, stopping, cancelling,
\* failing and restarting interleave.
THEOREM MessagesAreAccounted == QueueSpec => []Accounted
  <1>1. ASSUME QueueInv  PROVE Accounted
    <2> SUFFICES ASSUME NEW m \in Messages, item[m].state # "new"
                 PROVE  LET fate == {f \in {"queued", "delivered", "removed"} :
                                        \/ f = "queued" /\ Queued(m)
                                        \/ f = "delivered" /\ delivered[m] > kept[m]
                                        \/ f = "removed" /\ m \in cancelled}
                        IN /\ fate # {} /\ delivered[m] <= 1 + kept[m]
                           /\ (\E f \in fate : fate = {f}) \/ m = launching \/ m \in overtaken
      BY Zenon DEF Accounted
    <2>1. delivered[m] \in Nat /\ kept[m] \in Nat
      BY <1>1 DEF QueueInv, QueueTyped, QueueTypeOK
    <2>2. /\ delivered[m] \in {kept[m], kept[m] + 1}
          /\ Queued(m) => delivered[m] = kept[m] \/ m = launching
          /\ m \in cancelled => ~Queued(m) /\ (delivered[m] = kept[m] \/ m \in overtaken)
          /\ Queued(m) \/ delivered[m] # kept[m] \/ m \in cancelled
      BY <1>1 DEF QueueInv, Placed
    <2>3. (delivered[m] # kept[m] <=> delivered[m] > kept[m]) /\ delivered[m] <= 1 + kept[m]
      BY <2>1, <2>2
    <2> QED  BY <2>2, <2>3
  <1> QED  BY <1>1, QueueInitial, QueueStep, PTL DEF QueueSpec

\* A message is dispatched by itself only when it is not held back.
LEMMA LaunchesFree ==
    ASSUME QueueInv, NEW s \in Seq(Messages), NEW it \in [Messages -> Stored],
           NEW force \in BOOLEAN, NEW h, h = s[1], Launch(h, it, force), MayStart(s, it, force),
           Range(s) \subseteq Range(queue),
           \A x \in Messages : item[x].hold => it[x].hold,
           restored' = restored
    PROVE  RecoveryPaysNothing'
  <1>1. s # <<>> /\ (~it[h].hold \/ force)
    BY DEF MayStart
  <1>2. h \in Messages /\ Queued(h)
    BY <1>1, HeadIsQueued DEF Queued
  <1>3. launching' = h /\ asked' = force
    BY DEF Launch
  <1>4. h \in restored => item[h].hold
    BY <1>2 DEF QueueInv, HeldSince
  <1> QED  BY <1>1, <1>2, <1>3, <1>4 DEF RecoveryPaysNothing

\* Restarting Studio starts no paid run: what was stored then runs only when the user
\* sends it, whatever fails or finishes afterwards.
THEOREM RecoveryIsFree == QueueSpec => []RecoveryPaysNothing
  <1>1. QueueInit => RecoveryPaysNothing
    BY DEF QueueInit, RecoveryPaysNothing
  <1>2. ASSUME QueueInv, RecoveryPaysNothing, [QueueNext]_queueVars
        PROVE  RecoveryPaysNothing'
    <2> USE TeamQueueAssumption
    <2>0. /\ item \in [Messages -> Stored] /\ queue \in Seq(Messages)
          /\ \A i, j \in DOMAIN queue : queue[i] = queue[j] => i = j
          /\ restored \subseteq Messages
      BY <1>2, StoredIs DEF QueueInv, QueueTyped, QueueTypeOK
    <2>1. ASSUME UNCHANGED <<launching, restored, asked>>  PROVE RecoveryPaysNothing'
      BY <1>2, <2>1 DEF RecoveryPaysNothing
    <2>2. ASSUME NEW it \in [Messages -> Stored], NEW force \in BOOLEAN, Drain(it, force),
                 \A x \in Messages : item[x].hold => it[x].hold, restored' = restored
          PROVE  RecoveryPaysNothing'
      <3>1. CASE ~Dispatching /\ current = 0 /\ MayStart(queue, it, force)
        <4>1. PICK s, h : s = queue /\ h = s[1]
          OBVIOUS
        <4>2. /\ s \in Seq(Messages) /\ Launch(h, it, force) /\ MayStart(s, it, force)
              /\ Range(s) \subseteq Range(queue)
          BY <2>0, <2>2, <3>1, <4>1 DEF Drain
        <4> QED  BY <1>2, <2>2, <4>1, <4>2, LaunchesFree, Zenon
      <3>2. CASE ~(~Dispatching /\ current = 0 /\ MayStart(queue, it, force))
        BY <2>1, <2>2, <3>2 DEF Drain, launch
      <3> QED  BY <3>1, <3>2
    <2>3. ASSUME NEW m \in Messages, Route(m)  PROVE RecoveryPaysNothing'
      <3>1. restored' = restored
        BY <2>3 DEF Route
      <3>2. CASE UNCHANGED <<launch, asked>>
        BY <2>1, <3>1, <3>2 DEF launch
      <3>3. CASE ~UNCHANGED <<launch, asked>>
        <4>1. PICK steer \in BOOLEAN :
                Drain([item EXCEPT ![m].state = "queued", ![m].steer = steer], FALSE)
          BY <2>3, <3>3 DEF Route
        <4>2. PICK it : it = [item EXCEPT ![m].state = "queued", ![m].steer = steer]
          OBVIOUS
        <4>3. it \in [Messages -> Stored] /\ \A x \in Messages : item[x].hold => it[x].hold
          <5>1. DOMAIN it = Messages /\ \A x \in Messages \ {m} : it[x] = item[x]
            BY <2>0, <4>2
          <5>2. it[m] = [item[m] EXCEPT !.state = "queued", !.steer = steer]
            BY <2>0, <4>2
          <5>3. item[m] \in Stored
            BY <2>0
          <5>4. it[m] \in Stored /\ it[m].hold = item[m].hold
            BY <5>2, <5>3 DEF Stored
          <5>5. it = [x \in Messages |-> it[x]]
            BY <2>0, <4>2
          <5> HIDE DEF Stored
          <5> QED  BY <2>0, <5>1, <5>4, <5>5
        <4>4. Drain(it, FALSE) /\ FALSE \in BOOLEAN
          BY <4>1, <4>2
        <4> QED  BY <2>2, <3>1, <4>3, <4>4, Zenon
      <3> QED  BY <3>2, <3>3
    <2>4. CASE SendNow
      <3>1. PICK it : it = item
        OBVIOUS
      <3>2. Drain(it, TRUE) /\ restored' = restored
        BY <2>4, <3>1 DEF SendNow
      <3> QED  BY <2>0, <2>2, <3>1, <3>2
    <2>5. CASE Dispatched
      <3>1. restored' = restored
        BY <2>5 DEF Dispatched
      <3>2. CASE launched = "ok" /\ DrainsAgain /\ MayStart(Without(queue, launching), item, FALSE)
        <4>1. PICK s, h, it : s = Without(queue, launching) /\ h = s[1] /\ it = item
          OBVIOUS
        <4>2. Launch(h, it, FALSE) /\ MayStart(s, it, FALSE)
          BY <2>5, <3>2, <4>1 DEF Dispatched
        <4>3. s \in Seq(Messages) /\ Range(s) \subseteq Range(queue)
          BY <2>0, <4>1, WithoutIs
        <4>4. it \in [Messages -> Stored] /\ (\A x \in Messages : item[x].hold => it[x].hold)
              /\ FALSE \in BOOLEAN
          BY <2>0, <4>1
        <4> QED  BY <1>2, <3>1, <4>1, <4>2, <4>3, <4>4, LaunchesFree, Zenon
      <3>3. CASE ~(launched = "ok" /\ DrainsAgain /\ MayStart(Without(queue, launching), item, FALSE))
        <4>1. launching' = NoMessage
          BY <2>5, <3>3 DEF Dispatched
        <4> QED  BY <2>0, <3>1, <4>1 DEF RecoveryPaysNothing
      <3> QED  BY <3>2, <3>3
    <2>6. ASSUME NEW r \in 1..MaxRuns, NEW continueQueue \in BOOLEAN, FinishRun(r, continueQueue)
          PROVE  RecoveryPaysNothing'
      <3> DEFINE after == [m \in Messages |->
                IF ~Queued(m) \/ item[m].run # r THEN item[m]
                ELSE IF ~continueQueue THEN HeldBack(m)
                ELSE IF item[m].state = "steering" THEN [item[m] EXCEPT !.state = "queued"]
                ELSE item[m]]
      <3>1. restored' = restored
        BY <2>6 DEF FinishRun
      <3>2. \/ UNCHANGED <<launch, asked>>
            \/ MayStart(queue, after, FALSE) /\ Launch(queue[1], after, FALSE)
        BY <2>6, Zenon DEF FinishRun
      <3>3. CASE UNCHANGED <<launch, asked>>
        BY <2>1, <3>1, <3>3 DEF launch
      <3>4. CASE MayStart(queue, after, FALSE) /\ Launch(queue[1], after, FALSE)
        <4>1. \A x \in Messages : after[x] \in Stored /\ (item[x].hold => after[x].hold)
          <5> SUFFICES ASSUME NEW x \in Messages
                       PROVE  after[x] \in Stored /\ (item[x].hold => after[x].hold)
            OBVIOUS
          <5>1. /\ item[x] \in Stored
                /\ \/ after[x] = item[x]
                   \/ after[x] = [item[x] EXCEPT !.state = "queued", !.hold = TRUE]
                   \/ after[x] = [item[x] EXCEPT !.state = "queued"]
            BY <2>0 DEF HeldBack
          <5> HIDE DEF after
          <5> QED  BY <5>1 DEF Stored
        <4>2. PICK it, s, h : it = after /\ s = queue /\ h = s[1]
          OBVIOUS
        <4>3. it \in [Messages -> Stored] /\ \A x \in Messages : item[x].hold => it[x].hold
          BY <4>1, <4>2
        <4> HIDE DEF after
        <4>4. /\ s \in Seq(Messages) /\ Range(s) \subseteq Range(queue) /\ FALSE \in BOOLEAN
              /\ MayStart(s, it, FALSE) /\ Launch(h, it, FALSE)
          BY <2>0, <3>4, <4>2
        <4> QED  BY <1>2, <3>1, <4>2, <4>3, <4>4, LaunchesFree, Zenon
      <3> QED  BY <3>2, <3>3, <3>4
    <2>7. CASE Restart \/ \E m \in Messages : DiesApplying(m)
      <3>1. launching' = NoMessage /\ restored' = Range(queue)
        BY <2>7 DEF Restart, DiesApplying, Restore
      <3>2. NoMessage \notin Range(queue)
        BY StoredIs, <1>2 DEF Queued
      <3> QED  BY <3>1, <3>2 DEF RecoveryPaysNothing
    <2>8. ASSUME NEW m \in Messages,
                 Enqueue(m) \/ RouteFails(m) \/ Promote(m) \/ Applied(m) \/ Cancel(m)
          PROVE  RecoveryPaysNothing'
      BY <2>1, <2>8 DEF Enqueue, RouteFails, Promote, Applied, Cancel, launch
    <2>9. CASE \/ RetrySteering \/ PauseRun \/ UserStarts \/ Replace \/ Register
               \/ RegisterFails \/ StartFails \/ UNCHANGED queueVars
      BY <2>1, <2>9 DEF RetrySteering, PauseRun, UserStarts, Replace, Register, RegisterFails, StartFails,
         queueVars, launch
    <2> QED  BY <1>2, <2>3, <2>4, <2>5, <2>6, <2>7, <2>8, <2>9 DEF QueueNext
  <1> QED  BY <1>1, <1>2, QueueInitial, QueueStep, PTL DEF QueueSpec

\* When nothing runs, starts or is judged, the head of the queue is held back or there is
\* a reason why it waits: no order of the steps lets the queue fall asleep.
THEOREM TheHeadIsServed == QueueSpec => []HeadIsServed
  <1>1. ASSUME QueueInv  PROVE HeadIsServed
    <2> USE TeamQueueAssumption
    <2> SUFFICES ASSUME current = 0, unwinding = {}, starting = Idle, ~Dispatching, routing = {},
                        queue # <<>>, ~item[queue[1]].hold, ~excused
                 PROVE  FALSE
      BY DEF HeadIsServed
    <2>1. PICK h : h = queue[1]
      OBVIOUS
    <2>2. h \in Messages /\ Queued(h) /\ item[h] \in Stored
      BY <1>1, <2>1, StoredIs, HeadIsQueued DEF Queued
    <2>3. item[h].state # "queued"
      BY <1>1, <2>1 DEF QueueInv, HeadSeen
    <2>4. item[h].state # "new"
      BY <1>1, <2>2 DEF QueueInv, Written
    <2>5. item[h].state # "checking"
      BY <1>1, <2>2 DEF QueueInv, Awaited
    <2>6. item[h].state # "steering"
      <3>1. carried[h] = 0
        BY <1>1, <2>2 DEF QueueInv, Guided, QueueTyped, QueueTypeOK
      <3> QED  BY <1>1, <2>2, <3>1 DEF QueueInv, Awaited
    <2>7. item[h].state # "starting"
      BY <1>1, <2>2 DEF QueueInv, Awaited, Dispatching
    <2> QED  BY <2>2, <2>3, <2>4, <2>5, <2>6, <2>7 DEF Stored
  <1> QED  BY <1>1, QueueInitial, QueueStep, PTL DEF QueueSpec

=============================================================================
