-------------------------------- MODULE Team --------------------------------
(***************************************************************************)
(* One run of a Links crew in REACH Studio (studio/agent): TeamRunner.run  *)
(* and its scheduler _linksRun, the members' jobs (_runMember, _wakeMember,*)
(* runToTerminal), their RunControls, and one helper the operator adds.    *)
(*                                                                         *)
(* Everything runs on one JavaScript event loop.  What a promise reaction  *)
(* does is a micro step; replies of providers, timers, and what the user   *)
(* does are macro steps, and happen only when no micro step is left.       *)
(*                                                                         *)
(* The scheduler's jobQueue is the set of members whose stage is "new" or  *)
(* "mail"; the order in which it is served is left open, and so is which   *)
(* of the queued roster jobs and the helper is admitted first.  Of the     *)
(* caps on wake-ups the turns are modelled; maxRounds is another such cap, *)
(* which a handoff of the user's passes as well.  net.paused follows       *)
(* userPaused and is left out.                                             *)
(***************************************************************************)
EXTENDS Naturals, FiniteSets

CONSTANTS
    Members,      \* the roster
    Helper,       \* the helper the operator may add to this run
    Concurrency,  \* budgets: teamConcurrency
    MaxTurns,     \* links.memberTurns + 1
    MaxCycles,    \* budgets: resumeCycles
    Handoffs,     \* budgets: messageHandoffs
    Guidance      \* bound: what the user writes to agents of this run

ASSUME TeamAssumption ==
    /\ IsFiniteSet(Members) /\ Members # {} /\ Helper \notin Members
    /\ Concurrency \in Nat \ {0} /\ MaxTurns \in Nat \ {0}
    /\ MaxCycles \in Nat /\ Handoffs \in Nat /\ Guidance \in Nat

Agents == Members \cup {Helper}

VARIABLES
    stage,        \* stage[a]: where the agent's job is
    paused,       \* RunControl.paused
    interrupted,  \* RunControl.interrupted
    aborted,      \* the running turn was told to stop
    outcome,      \* how its last turn, or its last review, ended
    cycles,       \* resumes it has left in this job
    turns,        \* turns[m]: jobs of the member that were launched
    mail,         \* mail[m]: what is in its inbox; "handoff" if the Nurse put the user's there
    result,       \* results[m]
    superseded,   \* _linksSuperseded
    sends,        \* net.linkSends
    guided,       \* what the user has written
    broken,       \* what cancelling a queued helper broke, by throwing
    userPaused, teamPaused, stopped, accepting,
    declared,     \* _linkDeclared is set
    timer,        \* _linksConclusionTimer
    signal,       \* _stopDeferred of the team and of its net
    sched         \* where run() and _linksRun are

jobs == <<stage, paused, interrupted, aborted, outcome, cycles>>
roster == <<turns, mail, result, superseded, sends, guided, broken>>
flags == <<userPaused, teamPaused, stopped, accepting, declared, timer, signal>>
vars == <<jobs, roster, flags, sched>>

Gates == {"wakeGate", "gate", "turned", "reviewed"}
AtWork == Gates \cup {"running", "review"}
Waiting == {"new", "mail", "queued", "again"}
Done == {"idle", "settled", "completed", "done", "absent"}
Replies == {"completed", "marked", "waiting", "failed", "stopped"}

TypeOK ==
    /\ stage \in [Agents -> AtWork \cup Waiting \cup Done]
    /\ paused \in [Agents -> BOOLEAN]
    /\ interrupted \in [Agents -> BOOLEAN] /\ aborted \in [Agents -> BOOLEAN]
    /\ outcome \in [Agents -> Replies \cup {"none", "accepted", "refused"}]
    /\ cycles \in [Agents -> 0..MaxCycles]
    /\ turns \in [Members -> Nat] /\ \A m \in Members : turns[m] <= MaxTurns + guided
    /\ mail \in [Members -> {"none", "mail", "handoff"}]
    /\ result \in [Members -> {"none", "ok", "waiting", "stalled", "stopped", "skipped"}]
    /\ superseded \subseteq Members
    /\ sends \in 0..Handoffs /\ guided \in 0..Guidance
    /\ broken \in {"nothing", "job", "run"}
    /\ {userPaused, teamPaused, stopped, accepting, declared} \subseteq BOOLEAN
    /\ timer \in {"none", "set", "fired"}
    /\ signal \in [{"team", "net"} -> {"none", "open", "resolved"}]
    /\ sched \in {"scan", "wait", "quiet", "drain", "close", "synth", "settle", "ended"}

Init ==
    /\ stage = [a \in Agents |-> IF a = Helper THEN "absent" ELSE "new"]
    /\ paused = [a \in Agents |-> FALSE]
    /\ interrupted = [a \in Agents |-> FALSE]
    /\ aborted = [a \in Agents |-> FALSE]
    /\ outcome = [a \in Agents |-> "none"]
    /\ cycles = [a \in Agents |-> MaxCycles]
    /\ turns = [m \in Members |-> 0]
    /\ mail = [m \in Members |-> "none"]
    /\ result = [m \in Members |-> "none"]
    /\ superseded = {} /\ sends = 0 /\ guided = 0 /\ broken = "nothing"
    /\ userPaused = FALSE /\ teamPaused = FALSE /\ stopped = FALSE
    /\ accepting = TRUE /\ declared = FALSE /\ timer = "none"
    /\ signal = [s \in {"team", "net"} |-> "none"]
    /\ sched = "scan"

-----------------------------------------------------------------------------
(* The state, as the code asks for it *)

Terminal == stopped \/ declared

\* control.finished; that of a mailed member, or of a helper that goes on, is still set
\* from the last job.
Finished(a, where) == where[a] \in Done \cup {"mail", "again"}

\* updatePausedState, with the controls and stages it would see.
AllPaused(where, held) == \A a \in Agents : Finished(a, where) \/ held[a]

HelperActive == stage[Helper] \in AtWork

\* _operatorHelpers('queued'): before its first turn, or since a message came.
HelperQueued == stage[Helper] \in {"queued", "again"}
Active == {m \in Members : stage[m] \in AtWork \cup {"settled"}}

\* Slip: the helper does not count against the crew's concurrency.
BusyMembers == Cardinality(Active)

\* The slots in use: activeJobs.size + _activeOperatorHelperCount().
Busy == Cardinality(Active) + IF HelperActive THEN 1 ELSE 0

SignalOf(a) == IF a = Helper THEN "net" ELSE "team"

\* _stopSignal(): created when it is first asked for.
Opened(s) == IF signal[s] = "none" THEN [signal EXCEPT ![s] = "open"] ELSE signal

\* Slip: a woken member does not wait for its control.
PassesUnlessTurned(a) == stage[a] = "wakeGate" \/ stage[a] = "gate" \/ ~paused[a]

\* control.wait returns.
Passes(a) == ~paused[a] \/ signal[SignalOf(a)] = "resolved"

\* The agent comes to a control.wait.
ArriveAt(a, gate) ==
    /\ stage' = [stage EXCEPT ![a] = gate]
    /\ signal' = IF paused[a] THEN Opened(SignalOf(a)) ELSE signal

\* _signalLinksActivity: the scheduler goes round again.
Signalled == IF sched = "wait" THEN "scan" ELSE sched

\* Slip: resumes are not limited.
AnyCycle(a) == TRUE

CyclesLeft(a) == cycles[a] > 0

\* Slip: the recovery limit is one job too high.
OneMoreTurn(m) == turns[m] <= MaxTurns

TurnsLeft(m) == turns[m] < MaxTurns

-----------------------------------------------------------------------------
(* What a finished job leaves: _harvest, _asLinksResult, _settle *)

Answered(m) == ~stopped /\ outcome[m] \in {"completed", "marked"}

\* Slip: the marker alone completes the run.
DeclaresByMarker(m) == outcome[m] = "marked" /\ ~declared

\* Only a member's completed answer can complete the run.
Declares(m) == Answered(m) /\ outcome[m] = "marked" /\ ~declared

\* cancelQueuedSpawned fails after it marked the helper: it journals an
\* undefined `id`, and the declaring member's job is reported as stalled.
CancelFails(m) == Declares(m) /\ HelperQueued

ResultOf(m) ==
    CASE CancelFails(m) -> "stalled"
      [] Answered(m) /\ ~CancelFails(m) -> "ok"
      [] ~Answered(m) /\ m \in superseded -> "skipped"
      [] ~Answered(m) /\ m \notin superseded /\ (stopped \/ outcome[m] = "stopped") -> "stopped"
      [] OTHER -> IF outcome[m] \in {"waiting", "refused"} THEN "waiting" ELSE "stalled"

\* What a job kept for itself is gone with it.
Rested(a) ==
    /\ outcome' = [outcome EXCEPT ![a] = "none"]
    /\ cycles' = [cycles EXCEPT ![a] = MaxCycles]
    /\ interrupted' = [interrupted EXCEPT ![a] = FALSE]

\* The job of agent a is over.
Finish(a) ==
    LET declares == a # Helper /\ Declares(a)
        completes == ~stopped /\ outcome[a] = "completed"
        left == IF a = Helper THEN [stage EXCEPT ![a] = IF completes THEN "completed" ELSE "done"]
                ELSE [stage EXCEPT ![a] = "settled",
                                   ![Helper] = IF declares /\ HelperQueued THEN "done" ELSE @]
    IN /\ stage' = left
       /\ result' = IF a = Helper THEN result ELSE [result EXCEPT ![a] = ResultOf(a)]
       /\ declared' = (declared \/ declares)
       /\ accepting' = (accepting /\ ~declares)
       /\ timer' = IF declares /\ ~CancelFails(a) /\ timer # "set" THEN "set" ELSE timer
       /\ teamPaused' = AllPaused(left, paused)
       /\ sched' = IF a = Helper THEN Signalled ELSE sched
       /\ broken' = IF a # Helper /\ CancelFails(a) THEN "job" ELSE broken
       /\ Rested(a)
       /\ UNCHANGED <<paused, aborted, turns, mail, superseded, sends, guided, userPaused,
                      stopped, signal>>

-----------------------------------------------------------------------------
(* Micro steps of a job: _wakeMember and runToTerminal *)

\* A wake-up that meets a stop is deferred: its mail, which nobody is woken by any more,
\* is put back.
Wake(m) ==
    /\ stage[m] = "wakeGate" /\ Passes(m)
    /\ IF stopped
       THEN /\ stage' = [stage EXCEPT ![m] = "settled"]
            /\ result' = [result EXCEPT ![m] = "stopped"]
            /\ mail' = [mail EXCEPT ![m] = "mail"]
       ELSE stage' = [stage EXCEPT ![m] = "gate"] /\ UNCHANGED <<result, mail>>
    /\ UNCHANGED <<paused, interrupted, aborted, outcome, cycles, turns, superseded,
                   sends, guided, broken, flags, sched>>

\* loop.sendUserMessage
Begin(a) ==
    /\ stage[a] = "gate" /\ Passes(a) /\ ~stopped
    /\ stage' = [stage EXCEPT ![a] = "running"]
    /\ outcome' = [outcome EXCEPT ![a] = "none"]
    /\ UNCHANGED <<paused, interrupted, aborted, cycles, roster, flags, sched>>

\* isStopped() behind a gate, or the stop signal during a review.
Unwind(a) ==
    /\ stopped
    /\ \/ stage[a] \in {"gate", "turned", "reviewed"} /\ Passes(a)
       \/ stage[a] = "review" /\ signal[SignalOf(a)] = "resolved"
    /\ Finish(a)

\* The turn was cut off by a pause, which is over: the saved work goes on.
Continue(a) ==
    /\ stage[a] = "turned" /\ Passes(a) /\ ~stopped
    /\ interrupted[a] /\ outcome[a] = "stopped"
    /\ stage' = [stage EXCEPT ![a] = "gate"]
    /\ interrupted' = [interrupted EXCEPT ![a] = FALSE]
    /\ outcome' = [outcome EXCEPT ![a] = "none"]
    /\ UNCHANGED <<paused, aborted, cycles, roster, flags, sched>>

\* A turn that proposed edits or asked a question waits for the user.
Await(a) ==
    /\ stage[a] = "turned" /\ Passes(a) /\ ~stopped
    /\ outcome[a] = "waiting" /\ CyclesLeft(a)
    /\ stage' = [stage EXCEPT ![a] = "review"]
    /\ interrupted' = [interrupted EXCEPT ![a] = FALSE]
    /\ cycles' = [cycles EXCEPT ![a] = IF @ > 0 THEN @ - 1 ELSE 0]
    /\ outcome' = [outcome EXCEPT ![a] = "none"]
    /\ signal' = Opened(SignalOf(a))
    /\ UNCHANGED <<paused, aborted, roster, userPaused, teamPaused, stopped,
                   accepting, declared, timer, sched>>

Reviewed(a) ==
    /\ stage[a] = "reviewed" /\ Passes(a) /\ ~stopped
    /\ outcome[a] = "accepted"
    /\ stage' = [stage EXCEPT ![a] = "gate"]
    /\ outcome' = [outcome EXCEPT ![a] = "none"]
    /\ UNCHANGED <<paused, interrupted, aborted, cycles, roster, flags, sched>>

\* runToTerminal returns.
Return(a) ==
    /\ stage[a] \in {"turned", "reviewed"} /\ Passes(a) /\ ~stopped
    /\ \/ outcome[a] \in {"completed", "marked", "failed", "refused"}
       \/ outcome[a] = "stopped" /\ ~interrupted[a]
       \/ outcome[a] = "waiting" /\ ~CyclesLeft(a)
    /\ Finish(a)

JobStep(a) ==
    \/ a # Helper /\ Wake(a)
    \/ Begin(a) \/ Unwind(a) \/ Continue(a) \/ Await(a) \/ Reviewed(a) \/ Return(a)

-----------------------------------------------------------------------------
(* Micro steps of the scheduler: _linksRun and run *)

\* settleJob
Collect(m) ==
    /\ sched = "wait" /\ stage[m] = "settled"
    /\ stage' = [stage EXCEPT ![m] = "idle"]
    /\ sched' = "scan"
    /\ UNCHANGED <<paused, interrupted, aborted, outcome, cycles, roster, flags>>

MayPump == ~userPaused /\ accepting

\* Where a pulse leads: on to waiting for a job, or to the quiet branch and out of it.
After(launched, queue) ==
    LET working == Active \cup (launched \cap Members) # {}
    IN CASE sched = "scan" -> IF working THEN "wait" ELSE "quiet"
         [] sched = "quiet" -> IF working \/ queue # {} \/ HelperActive THEN "scan" ELSE "close"

\* The Nurse's advice and peers' mail wake a member that has a turn left; the user's
\* handoff wakes any.
Wakeable == {m \in Members : stage[m] = "idle" /\ (TurnsLeft(m) \/ mail[m] = "handoff")}

Recoverable == {m \in Members : stage[m] = "idle" /\ TurnsLeft(m) /\ result[m] = "stalled"}

Queue(waking) == waking \cup {a \in Agents : stage[a] \in Waiting}

Room == IF MayPump /\ Busy < Concurrency THEN Concurrency - Busy ELSE 0

\* pump: of the queue, with the members that are waking, as many as fit are launched.
Admit(waking, launched) ==
    /\ Cardinality(launched) <= Room
    /\ launched = Queue(waking) \/ Cardinality(launched) = Room
    /\ stage' = [a \in Agents |->
           CASE a \in launched -> IF stage[a] \in {"idle", "mail"} THEN "wakeGate" ELSE "gate"
             [] a \in waking \ launched -> "mail"
             [] OTHER -> stage[a]]
    /\ signal' = IF \E a \in launched : paused[a] THEN Opened("team") ELSE signal
    /\ mail' = [m \in Members |-> IF m \in launched THEN "none"
                                 ELSE IF m \in waking /\ mail[m] = "none" THEN "mail" ELSE mail[m]]
    /\ turns' = [m \in Members |-> IF m \in launched THEN turns[m] + 1 ELSE turns[m]]
    /\ sched' = After(launched, Queue(waking))

\* pulse: the Nurse may mail members that stalled, and members with mail are woken.
Pulse ==
    /\ \E nursed \in SUBSET Recoverable :
       LET waking == {m \in Wakeable : mail[m] # "none" \/ m \in nursed}
       IN \E launched \in SUBSET Queue(waking) : Admit(waking, launched)
    /\ UNCHANGED <<paused, interrupted, aborted, outcome, cycles, result, superseded, sends,
                   guided, broken, userPaused, teamPaused, stopped, accepting, declared, timer>>

Goto(place) == sched' = place /\ UNCHANGED <<jobs, roster, flags>>

\* The head of the scheduler's loop.
Scan ==
    /\ sched = "scan"
    /\ IF Terminal THEN Goto(IF Active = {} THEN "close" ELSE "wait") ELSE Pulse

\* No job is at work: drainActiveSpawned waits for a helper that runs, not for
\* one that is paused; then everything is looked at once more.
Quiet ==
    /\ sched = "quiet"
    /\ IF HelperActive /\ ~paused[Helper] THEN Goto("drain")
       ELSE IF Terminal THEN Goto("close") ELSE Pulse

Drained == sched = "drain" /\ ~HelperActive /\ Goto("quiet")

\* A helper that a message queued again after the completion: cancelling it throws out
\* of _linksRun, and the run goes on to its end without any result.
CloseFails ==
    /\ sched = "close" /\ HelperQueued
    /\ accepting' = FALSE
    /\ broken' = "run"
    /\ result' = [m \in Members |-> "none"]
    /\ stage' = [a \in Agents |-> IF a = Helper THEN "done"
                                  ELSE IF stage[a] \in {"new", "mail"} THEN "idle" ELSE stage[a]]
    /\ sched' = IF stopped THEN "ended" ELSE "settle"
    /\ UNCHANGED <<paused, interrupted, aborted, outcome, cycles, turns, mail, superseded, sends,
                   guided, userPaused, teamPaused, stopped, declared, timer, signal>>

\* What never started is skipped, and a member with an answer is woken for the synthesis.
Close ==
    LET rest == [a \in Agents |-> IF stage[a] \in {"new", "mail"} THEN "idle" ELSE stage[a]]
        viable == IF Terminal THEN {} ELSE {m \in Members : result[m] = "ok"}
    IN /\ sched = "close" /\ ~HelperQueued
       /\ accepting' = FALSE
       /\ result' = [m \in Members |-> IF result[m] # "none" THEN result[m]
                                       ELSE IF stopped THEN "stopped" ELSE "skipped"]
       /\ IF viable = {}
          THEN /\ stage' = rest
               /\ sched' = IF stopped THEN "ended" ELSE "settle"
               /\ UNCHANGED <<paused, signal>>
          ELSE \E m \in viable :
               /\ stage' = [rest EXCEPT ![m] = "wakeGate"]
               /\ paused' = [paused EXCEPT ![m] = @ \/ userPaused]
               /\ signal' = IF paused[m] \/ userPaused THEN Opened("team") ELSE signal
               /\ sched' = "synth"
       /\ UNCHANGED <<interrupted, aborted, outcome, cycles, turns, mail, superseded, sends,
                      guided, broken, userPaused, teamPaused, stopped, declared, timer>>

\* run() has the results when cancelling a queued helper throws there.
Synthesized(m) ==
    /\ sched = "synth" /\ stage[m] = "settled"
    /\ stage' = [stage EXCEPT ![m] = "idle",
                              ![Helper] = IF HelperQueued THEN "done" ELSE @]
    /\ sched' = IF stopped THEN "ended" ELSE "settle"
    /\ UNCHANGED <<paused, interrupted, aborted, outcome, cycles, roster, flags>>

\* Slip: the run does not wait for the helper.
NobodyRuns == TRUE

HelperIsDone == ~HelperActive

\* net.settle()
Settle == sched = "settle" /\ HelperIsDone /\ Goto("ended")

SchedulerStep ==
    \/ \E m \in Members : Collect(m) \/ Synthesized(m)
    \/ Scan \/ Quiet \/ Drained \/ Close \/ CloseFails \/ Settle

\* A micro step is left to do.
Pending ==
    \/ \E a \in Agents : \/ stage[a] \in Gates /\ Passes(a)
                         \/ stage[a] = "review" /\ signal[SignalOf(a)] = "resolved"
    \/ sched \in {"scan", "quiet", "close"}
    \/ sched \in {"wait", "synth"} /\ \E m \in Members : stage[m] = "settled"
    \/ sched \in {"drain", "settle"} /\ ~HelperActive

-----------------------------------------------------------------------------
(* Macro steps: providers and timers *)

\* A turn ends.  One that was told to stop may have got its answer already.
Reply(a, how) ==
    /\ stage[a] = "running"
    /\ (how = "stopped" => aborted[a]) /\ (how = "marked" => a # Helper)
    /\ outcome' = [outcome EXCEPT ![a] = how]
    /\ aborted' = [aborted EXCEPT ![a] = FALSE]
    /\ ArriveAt(a, "turned")
    /\ UNCHANGED <<paused, interrupted, cycles, roster, userPaused, teamPaused,
                   stopped, accepting, declared, timer, sched>>

\* net.send: a member gets mail, and a helper that had completed is queued for one more
\* turn; both wake the scheduler.  One that waits or runs reads it in the turn it has.
Deliver(a, kind) ==
    /\ a = Helper => stage[a] \in {"completed", "again", "queued", "running"}
    /\ mail' = [m \in Members |-> IF m = a /\ mail[m] # "handoff" THEN kind ELSE mail[m]]
    /\ stage' = [stage EXCEPT ![a] = IF a = Helper /\ @ = "completed" THEN "again" ELSE @]
    /\ sched' = IF a # Helper \/ stage[a] = "completed" THEN Signalled ELSE sched
    /\ UNCHANGED <<paused, interrupted, aborted, outcome, cycles, turns, result, superseded,
                   broken, flags>>

\* agent.send, also in the grace after a completion and during the synthesis.
Send(a, b) ==
    /\ stage[a] = "running" /\ a # b /\ ~aborted[a]
    /\ sends < Handoffs
    /\ sends' = sends + 1 /\ guided' = guided
    /\ Deliver(b, "mail")

\* takePendingMessages: a running member reads its mail between two requests.
Receive(m) ==
    /\ stage[m] = "running" /\ ~aborted[m] /\ mail[m] # "none"
    /\ mail' = [mail EXCEPT ![m] = "none"]
    /\ UNCHANGED <<jobs, turns, result, superseded, sends, guided, broken, flags, sched>>

\* The grace after a completion is over.
Grace ==
    LET hanging == {m \in Members : stage[m] = "running"}
    IN /\ timer = "set"
       /\ timer' = "fired"
       /\ superseded' = superseded \cup hanging
       /\ aborted' = [a \in Agents |-> aborted[a] \/ a \in hanging]
       /\ UNCHANGED <<stage, paused, interrupted, outcome, cycles, turns, mail, result,
                      sends, guided, broken, userPaused, teamPaused, stopped, accepting, declared,
                      signal, sched>>

-----------------------------------------------------------------------------
(* Macro steps: the user *)

Running == sched # "ended" /\ ~stopped

\* Edits were decided, or a question was answered (or timed out).
Verdict(a, verdict) ==
    /\ stage[a] = "review"
    /\ outcome' = [outcome EXCEPT ![a] = verdict]
    /\ ArriveAt(a, "reviewed")
    /\ UNCHANGED <<paused, interrupted, aborted, cycles, roster, userPaused, teamPaused,
                   stopped, accepting, declared, timer, sched>>

\* addRuntimeAgent
AddHelper ==
    /\ Running /\ stage[Helper] = "absent"
    /\ accepting /\ ~declared /\ ~teamPaused /\ ~userPaused
    /\ stage' = [stage EXCEPT ![Helper] = "queued"]
    /\ sched' = Signalled
    /\ UNCHANGED <<paused, interrupted, aborted, outcome, cycles, roster, flags>>

\* RunControl.pause for the agents in `them`: a running turn is cut off.
PauseControls(them) ==
    LET held == {a \in them : ~Finished(a, stage) /\ ~paused[a]}
        cut == {a \in held : stage[a] = "running"}
    IN /\ paused' = [a \in Agents |-> paused[a] \/ a \in held]
       /\ interrupted' = [a \in Agents |-> interrupted[a] \/ a \in cut]
       /\ aborted' = [a \in Agents |-> aborted[a] \/ a \in cut]

\* Slip: Start forgets that the pause cut a turn off, which may still be unwinding.
ForgottenOnStart(a) == FALSE

\* RunControl.resume leaves that to the driver.
KeptOnStart(a) == interrupted[a]

\* teams:stop
Pause ==
    /\ Running
    /\ userPaused' = TRUE /\ teamPaused' = TRUE
    /\ PauseControls({a \in Agents : stage[a] # "queued"})
    /\ UNCHANGED <<stage, outcome, cycles, roster, stopped, accepting, declared, timer,
                   signal, sched>>

\* teams:start
Resume ==
    /\ Running
    /\ userPaused' = FALSE /\ teamPaused' = FALSE
    /\ paused' = [a \in Agents |-> paused[a] /\ Finished(a, stage)]
    /\ interrupted' = [a \in Agents |-> KeptOnStart(a)]
    /\ sched' = Signalled
    /\ UNCHANGED <<stage, aborted, outcome, cycles, roster, stopped, accepting, declared,
                   timer, signal>>

\* controlMember, controlWorker
PauseOne(a) ==
    /\ Running /\ ~Finished(a, stage) /\ stage[a] # "queued" /\ ~paused[a]
    /\ PauseControls({a})
    /\ teamPaused' = AllPaused(stage, paused')
    /\ UNCHANGED <<stage, outcome, cycles, roster, userPaused, stopped, accepting,
                   declared, timer, signal, sched>>

StartOne(a) ==
    /\ Running /\ ~Finished(a, stage) /\ paused[a]
    /\ paused' = [paused EXCEPT ![a] = FALSE]
    /\ interrupted' = [interrupted EXCEPT ![a] = KeptOnStart(a)]
    /\ teamPaused' = AllPaused(stage, paused')
    /\ UNCHANGED <<stage, aborted, outcome, cycles, roster, userPaused, stopped, accepting,
                   declared, timer, signal, sched>>

\* _requestLinksWake: Start on a member that stalled.
RequestWake(m) ==
    /\ Running /\ accepting /\ ~declared /\ ~userPaused
    /\ stage[m] = "idle" /\ result[m] = "stalled" /\ TurnsLeft(m)
    /\ mail' = [mail EXCEPT ![m] = IF @ = "none" THEN "mail" ELSE @]
    /\ sched' = Signalled
    /\ UNCHANGED <<jobs, turns, result, superseded, sends, guided, broken, flags>>

\* messageMember
Tell(a) ==
    /\ Running /\ accepting /\ ~declared /\ guided < Guidance
    /\ guided' = guided + 1 /\ sends' = sends
    /\ Deliver(a, "mail")

\* steerMember and carryUserMessage: a member at work reads the handoff in its turn, any
\* other finds it in its inbox.
Handoff(m) ==
    /\ Running /\ accepting /\ ~declared /\ ~userPaused /\ ~teamPaused /\ ~paused[m]
    /\ stage[m] # "review" /\ (stage[m] = "idle" => result[m] # "waiting")
    /\ stage[m] = "running" => ~aborted[m]
    /\ guided < Guidance
    /\ guided' = guided + 1
    /\ mail' = IF stage[m] = "running" THEN mail ELSE [mail EXCEPT ![m] = "handoff"]
    /\ sched' = IF stage[m] = "running" THEN sched ELSE Signalled
    /\ UNCHANGED <<jobs, turns, result, superseded, sends, broken, flags>>

\* stop(): a new run replaces this one, or its conversation is removed.  Only a
\* signal that somebody asked for already is resolved.
Stop ==
    /\ Running
    /\ stopped' = TRUE
    /\ timer' = IF timer = "set" THEN "none" ELSE timer
    /\ aborted' = [a \in Agents |-> aborted[a] \/ stage[a] = "running"]
    /\ stage' = [stage EXCEPT ![Helper] = IF HelperQueued THEN "done" ELSE @]
    /\ signal' = [s \in {"team", "net"} |-> IF signal[s] = "open" THEN "resolved" ELSE signal[s]]
    /\ sched' = Signalled
    /\ UNCHANGED <<paused, interrupted, outcome, cycles, roster, userPaused, teamPaused,
                   accepting, declared>>

-----------------------------------------------------------------------------
MicroStep == SchedulerStep \/ \E a \in Agents : JobStep(a)

Provider(a) == ~Pending /\ \E how \in Replies : Reply(a, how)

Review(a) == ~Pending /\ \E verdict \in {"accepted", "refused"} : Verdict(a, verdict)

Answers == \E a \in Agents : Provider(a) \/ Review(a)

GraceOver == ~Pending /\ Grace

User ==
    /\ ~Pending
    /\ \/ AddHelper \/ Pause \/ Resume \/ Stop
       \/ \E a \in Agents : PauseOne(a) \/ StartOne(a)
       \/ \E m \in Members : RequestWake(m) \/ Handoff(m)

Mailing ==
    /\ ~Pending
    /\ \/ \E m \in Members : Receive(m)
       \/ \E a \in Agents : Tell(a) \/ \E b \in Agents : Send(a, b)

Next == MicroStep \/ Answers \/ GraceOver \/ User \/ Mailing

Spec == Init /\ [][Next]_vars

\* The event loop runs, and serves timers and replies however much the user clicks;
\* requests have a timeout, questions and edits are answered.
FairSpec == Spec /\ WF_vars(MicroStep) /\ SF_vars(Answers) /\ SF_vars(GraceOver)

-----------------------------------------------------------------------------
(* Properties *)

\* Jobs and the operator's helper never use more slots than the crew has, however
\* wake-ups, helper and synthesis are admitted (pump, Nurse, addRuntimeAgent).
SlotsRespected ==
    Cardinality({a \in Agents : stage[a] \in AtWork \cup {"settled"}}) <= Concurrency

\* A run that reports its end has a result of every member, unless cancelling a helper
\* that was messaged after the completion threw; and none of its members is still at
\* work, its helper only if the run was stopped.
EndedIsQuiet ==
    sched = "ended" =>
        /\ \A m \in Members : stage[m] = "idle" /\ (result[m] # "none" \/ broken = "run")
        /\ ~stopped => ~HelperActive
        /\ broken = "run" => declared

\* No turn, so no paid request, begins while the agent's control is paused.
PauseHolds ==
    [][\A a \in Agents : stage'[a] = "running" /\ stage[a] # "running" => ~paused[a]]_vars

\* A turn cut off by a pause goes on after it: only a stopped run leaves a member
\* with the result "stopped" (run-control.cjs: the driver's stack is retained).
InterruptionIsResumed == \A m \in Members : result[m] = "stopped" => stopped

\* A run that counts as completed has the answer of a member that completed it, except
\* where cancelling a queued helper threw, in that very moment or at the close.
CompletionIsAnswered ==
    declared /\ broken = "nothing" => \E m \in Members : result[m] = "ok"

\* A run that nobody leaves paused ends.
RunEnds == <>[](~userPaused /\ \A a \in Agents : ~paused[a]) => <>(sched = "ended")

\* The scheduler waits for events ("event-driven, no polling"): it comes to rest.
SchedulerRests == []<>(~Pending)
=============================================================================
