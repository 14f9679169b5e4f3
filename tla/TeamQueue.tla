----------------------------- MODULE TeamQueue ------------------------------
(***************************************************************************)
(* The messages a user sends to a working crew (studio/agent/              *)
(* team-message-queue.cjs) and the runs they meet (main.mjs, runTeam), in  *)
(* one conversation: judged, steered into the run they were written for,   *)
(* or kept for the next team turn, which starts by itself unless the run   *)
(* was stopped or Studio was started again.                                *)
(***************************************************************************)
EXTENDS Naturals, Sequences, Functions

CONSTANTS
    Messages,     \* messages the user may write
    NoMessage, ByUser,
    Capacity,     \* the queue holds 20
    MaxRuns,      \* bound: runs that start
    MaxFaults     \* bound: restarts of Studio, and writes that fail

ASSUME TeamQueueAssumption ==
    /\ NoMessage \notin Messages /\ ByUser \notin Messages /\ ByUser # NoMessage
    /\ Capacity \in Nat /\ MaxRuns \in Nat /\ MaxFaults \in Nat

VARIABLES
    queue,        \* the conversation's stored queue
    item,         \* the stored messages, also of those no longer queued
    routing,      \* messages whose route() has not gone on yet
    carried,      \* carried[m]: the run whose Nurse holds the message, or 0
    current,      \* the conversation's run in teamRuns, or 0
    runPaused,    \* that run counts as paused
    unwinding,    \* replaced runs that have not finished
    dead,         \* runs that were registered and never begun
    started,      \* runs started so far: they are numbered
    starting,     \* a runTeam on its way
    launching, launched, \* the message a drain dispatched, and what came of it
    faults,
    \* History, for the properties:
    delivered, cancelled, overtaken, \* what became of the messages
    kept,         \* kept[m]: deliveries after which the message stayed in the store
    restored,     \* the queue at the last restart
    asked,        \* the last launch was the user's
    excused       \* why the head waits although nothing runs

store == <<queue, item>>
runs == <<current, runPaused, unwinding, started, dead>>
launch == <<starting, launching, launched>>
fates == <<delivered, cancelled, overtaken, kept>>
queueVars == <<store, routing, carried, runs, launch, faults, fates, restored, asked, excused>>

Idle == [by |-> NoMessage, phase |-> "idle"]
Queued(m) == m \in Range(queue)

\* Message ids are unique: a message is stored at most once.
Without(s, m) ==
    IF m \notin Range(s) THEN s
    ELSE LET at == CHOOSE i \in DOMAIN s : s[i] = m
         IN [i \in 1..(Len(s) - 1) |-> s[IF i < at THEN i ELSE i + 1]]

\* Types; and a message is carried by no run but the one it was written for ("A late
\* classification can never steer a replacement run", route).
QueueTypeOK ==
    /\ queue \in Seq(Messages) /\ Len(queue) <= Capacity
    /\ item \in [Messages ->
          [state : {"new", "checking", "queued", "steering", "starting"}, hold : BOOLEAN,
           run : 0..MaxRuns, mode : {"auto", "queue", "steer"}, steer : BOOLEAN]]
    /\ routing \subseteq Messages
    /\ \A m \in Messages : carried[m] \in {0, item[m].run}
    /\ current \in 0..MaxRuns /\ started \in 0..MaxRuns
    /\ unwinding \subseteq 1..MaxRuns /\ dead \subseteq 1..MaxRuns
    /\ starting \in [by : Messages \cup {NoMessage, ByUser}, phase : {"idle", "checked", "cleared"}]
    /\ launching \in Messages \cup {NoMessage}
    /\ launched \in {"none", "pending", "ok", "failed"}
    /\ faults \in 0..MaxFaults
    /\ delivered \in [Messages -> Nat] /\ kept \in [Messages -> Nat]
    /\ cancelled \cup overtaken \cup restored \subseteq Messages
    /\ {runPaused, asked, excused} \subseteq BOOLEAN

QueueInit ==
    /\ queue = <<>> /\ routing = {}
    /\ item = [m \in Messages |-> [state |-> "new", hold |-> FALSE, run |-> 0,
                                   mode |-> "auto", steer |-> FALSE]]
    /\ carried = [m \in Messages |-> 0]
    /\ current = 0 /\ runPaused = FALSE /\ unwinding = {} /\ started = 0 /\ dead = {}
    /\ starting = Idle /\ launching = NoMessage /\ launched = "none"
    /\ faults = 0
    /\ delivered = [m \in Messages |-> 0] /\ cancelled = {} /\ overtaken = {}
    /\ kept = [m \in Messages |-> 0]
    /\ restored = {} /\ asked = FALSE /\ excused = FALSE

\* A dispatch that came back: its continuation runs before anything the user does.
Returning == launched \in {"ok", "failed"}

-----------------------------------------------------------------------------
(* drain *)

\* Slip: guidance that a stopped run still carries is started as well.
StartableOrSteered(it, m) == it[m].state \in {"queued", "steering"}

Startable(it, m) == it[m].state = "queued"

MayStart(q, it, force) ==
    q # <<>> /\ Startable(it, q[1]) /\ (~it[q[1]].hold \/ force)

\* The dispatch of a message; a runTeam of the user's that is on its way refuses it.
Launch(m, it, force) ==
    /\ item' = [it EXCEPT ![m].state = "starting"]
    /\ launching' = m /\ asked' = force /\ excused' = FALSE
    /\ IF starting = Idle
       THEN starting' = [by |-> m, phase |-> "checked"] /\ launched' = "pending"
       ELSE launched' = "failed" /\ UNCHANGED starting

Dispatching == launching # NoMessage

\* drain, when the items are it.
Drain(it, force) ==
    IF ~Dispatching /\ current = 0 /\ MayStart(queue, it, force)
    THEN Launch(queue[1], it, force)
    ELSE item' = it /\ UNCHANGED <<launch, asked, excused>>

\* Slip: a message that could not be sent is free to go again by itself.
RequeuedFree(m) == [item EXCEPT ![m].state = "queued", ![m].hold = FALSE]

Requeued(m) == [item EXCEPT ![m].state = "queued"]

\* Slip: the queue is not looked at again after a launch.
DrainsOnce == FALSE

\* The run that was launched may have finished already.
DrainsAgain == current = 0

\* drain goes on after its dispatch.
Dispatched ==
    LET left == Without(queue, launching)
    IN /\ Returning
       /\ IF launched = "ok" /\ DrainsAgain /\ MayStart(left, item, FALSE)
          THEN Launch(left[1], item, FALSE)
          ELSE /\ item' = IF launched = "failed" /\ Queued(launching) THEN Requeued(launching)
                          ELSE item
               /\ launching' = NoMessage /\ launched' = "none"
               /\ excused' = (excused \/ launched = "failed")
               /\ UNCHANGED <<starting, asked>>
       /\ queue' = IF launched = "ok" THEN left ELSE queue
       /\ UNCHANGED <<routing, carried, runs, faults, fates, restored>>

-----------------------------------------------------------------------------
(* route, promote, retrySteering *)

\* Slip: guidance goes to whatever run works now.
AnyRun(m) == current # 0

\* A message is steered only into the run it was written for.
SameRun(m) == current # 0 /\ item[m].run = current

\* promote, for the messages ms of which the Nurse accepts those in ok: none while the
\* run is paused, or was never begun; a member may be paused, waiting for the user, or not
\* at work.
Carry(it, ms, ok) ==
    /\ ok \subseteq ms /\ (runPaused \/ current \in dead => ok = {})
    /\ item' = [m \in Messages |->
          IF m \in ms THEN [it[m] EXCEPT !.state = IF m \in ok THEN "steering" ELSE "queued"]
          ELSE it[m]]
    /\ carried' = [m \in Messages |-> IF m \in ok THEN current ELSE carried[m]]

\* The judge answered, gave up or was aborted; its answer is used if the message is
\* still where it was.
Route(m) ==
    /\ m \in routing /\ ~Returning
    /\ routing' = routing \ {m}
    /\ IF ~Queued(m) \/ item[m].state # (IF item[m].mode = "auto" THEN "checking" ELSE "queued")
       THEN UNCHANGED <<item, carried, launch, asked, excused>>
       ELSE \E steer \in IF item[m].mode = "auto" THEN BOOLEAN ELSE {item[m].mode = "steer"} :
            LET judged == [item EXCEPT ![m].state = "queued", ![m].steer = steer]
            IN IF current = 0
               THEN Drain(judged, FALSE) /\ UNCHANGED carried
               ELSE /\ \E ok \in SUBSET {m} :
                          Carry(judged, IF steer /\ SameRun(m) THEN {m} ELSE {}, ok)
                    /\ UNCHANGED <<launch, asked, excused>>
    /\ UNCHANGED <<queue, runs, faults, fates, restored>>

\* The queue could not be written: route's .catch leaves the message queued and starts
\* nothing.
RouteFails(m) ==
    /\ faults < MaxFaults /\ faults' = faults + 1
    /\ m \in routing /\ ~Returning
    /\ routing' = routing \ {m}
    /\ Queued(m) /\ item[m].state = (IF item[m].mode = "auto" THEN "checking" ELSE "queued")
    /\ item' = Requeued(m)
    /\ excused' = TRUE
    /\ UNCHANGED <<queue, carried, runs, launch, fates, restored, asked>>

\* A member begins a request: guidance that could not be carried is tried again.
RetrySteering ==
    /\ current # 0 /\ current \notin dead /\ ~runPaused /\ ~Returning
    /\ LET again == {m \in Range(queue) :
                /\ SameRun(m) /\ item[m].state = "queued" /\ ~item[m].hold
                /\ item[m].steer \/ item[m].mode = "steer"}
       IN again # {} /\ \E ok \in SUBSET again : Carry(item, again, ok)
    /\ UNCHANGED <<queue, routing, runs, launch, faults, fates, restored, asked, excused>>

\* The Nurse's packet joins a member's turn, even one that is being stopped.
Applied(m) ==
    /\ carried[m] # 0 /\ ~Returning
    /\ carried' = [carried EXCEPT ![m] = 0]
    /\ IF Queued(m)
       THEN /\ queue' = Without(queue, m)
            /\ delivered' = [delivered EXCEPT ![m] = @ + 1]
       ELSE UNCHANGED <<queue, delivered>>
    /\ UNCHANGED <<item, routing, runs, launch, faults, cancelled, overtaken, kept,
                   restored, asked, excused>>

-----------------------------------------------------------------------------
(* What the user does with messages *)

\* enqueue: only for the run that works in this conversation.
Enqueue(m) ==
    /\ item[m].state = "new" /\ ~Returning
    /\ current # 0 /\ Len(queue) < Capacity
    /\ \E mode \in {"auto", "queue", "steer"} :
          item' = [item EXCEPT ![m] = [state |-> IF mode = "auto" THEN "checking" ELSE "queued",
                       hold |-> FALSE, run |-> current, mode |-> mode, steer |-> FALSE]]
    /\ queue' = Append(queue, m)
    /\ routing' = routing \cup {m}
    /\ UNCHANGED <<carried, runs, launch, faults, fates, restored, asked, excused>>

Delivering(m) == item[m].state \in {"steering", "starting"}

Promote(m) ==
    /\ Queued(m) /\ ~Delivering(m) /\ SameRun(m) /\ ~Returning
    /\ \E ok \in SUBSET {m} : Carry(item, {m}, ok)
    /\ UNCHANGED <<queue, routing, runs, launch, faults, fates, restored, asked, excused>>

Cancel(m) ==
    /\ Queued(m) /\ ~Delivering(m) /\ ~Returning
    /\ queue' = Without(queue, m)
    /\ cancelled' = cancelled \cup {m}
    /\ excused' = TRUE
    /\ UNCHANGED <<item, routing, carried, runs, launch, faults, delivered, overtaken, kept,
                   restored, asked>>

\* Send now, whichever message it was pressed on.
SendNow ==
    /\ queue # <<>> /\ ~Returning
    /\ Drain(item, TRUE)
    /\ UNCHANGED <<queue, routing, carried, runs, faults, fates, restored>>

-----------------------------------------------------------------------------
(* Runs *)

\* teams:stop and teams:start, or the run counts as paused by itself.
PauseRun ==
    /\ current # 0 /\ ~Returning
    /\ runPaused' = ~runPaused
    /\ UNCHANGED <<store, routing, carried, current, unwinding, started, dead, launch, faults,
                   fates, restored, asked, excused>>

\* teams:run: refused while a run works that is not paused, or another one starts.
UserStarts ==
    /\ starting = Idle /\ (current = 0 \/ runPaused) /\ ~Returning
    /\ started < MaxRuns
    /\ starting' = [by |-> ByUser, phase |-> "checked"]
    /\ UNCHANGED <<store, routing, carried, runs, launching, launched, faults, fates,
                   restored, asked, excused>>

\* The endpoint was resolved: the run of this conversation is stopped and forgotten.
Replace ==
    /\ starting.phase = "checked" /\ ~Returning
    /\ starting' = [starting EXCEPT !.phase = "cleared"]
    /\ unwinding' = unwinding \cup ({current} \ ({0} \cup dead))
    /\ current' = 0 /\ runPaused' = FALSE
    /\ UNCHANGED <<store, routing, carried, started, dead, launching, launched, faults, fates,
                   restored, asked, excused>>

\* The run is registered; a queued message has become its task.
Register ==
    /\ starting.phase = "cleared" /\ started < MaxRuns /\ ~Returning
    /\ started' = started + 1 /\ current' = started + 1
    /\ starting' = Idle
    /\ IF starting.by = ByUser THEN UNCHANGED <<launched, delivered>>
       ELSE /\ launched' = "ok"
            /\ delivered' = [delivered EXCEPT ![starting.by] = @ + 1]
    /\ UNCHANGED <<store, routing, carried, runPaused, unwinding, dead, launching, faults,
                   cancelled, overtaken, kept, restored, asked, excused>>

\* The run is registered, but saving its task throws: the message is in the history, and
\* queued again, and the run in teamRuns is never begun.
RegisterFails ==
    /\ faults < MaxFaults /\ faults' = faults + 1
    /\ starting.phase = "cleared" /\ started < MaxRuns /\ ~Returning
    /\ started' = started + 1 /\ current' = started + 1
    /\ dead' = dead \cup {started + 1}
    /\ starting' = Idle
    /\ excused' = TRUE
    /\ IF starting.by = ByUser THEN UNCHANGED <<launched, delivered, kept>>
       ELSE /\ launched' = "failed"
            /\ delivered' = [delivered EXCEPT ![starting.by] = @ + 1]
            /\ kept' = [kept EXCEPT ![starting.by] = IF Queued(starting.by) THEN @ + 1 ELSE @]
    /\ UNCHANGED <<store, routing, carried, runPaused, unwinding, launching, cancelled,
                   overtaken, restored, asked>>

\* Any of the awaits of runTeam may fail.
StartFails ==
    /\ starting # Idle /\ ~Returning
    /\ starting' = Idle
    /\ launched' = IF starting.by = ByUser THEN launched ELSE "failed"
    /\ excused' = TRUE
    /\ UNCHANGED <<store, routing, carried, runs, launching, faults, fates, restored, asked>>

HeldBack(m) == [item[m] EXCEPT !.state = "queued", !.hold = TRUE]

\* finished: a stopped or failed run holds its messages back, any other one goes on
\* with the queue.
FinishRun(r, continueQueue) ==
    LET left == [m \in Messages |->
            IF ~Queued(m) \/ item[m].run # r THEN item[m]
            ELSE IF ~continueQueue THEN HeldBack(m)
            ELSE IF item[m].state = "steering" THEN [item[m] EXCEPT !.state = "queued"]
            ELSE item[m]]
    IN /\ (r = current /\ r \notin dead) \/ r \in unwinding
       /\ continueQueue => r = current
       /\ current' = IF r = current THEN 0 ELSE current
       /\ runPaused' = (runPaused /\ r # current)
       /\ unwinding' = unwinding \ {r}
       /\ carried' = [m \in Messages |-> IF carried[m] = r THEN 0 ELSE carried[m]]
       /\ overtaken' = IF ~continueQueue /\ Dispatching /\ Queued(launching) /\ item[launching].run = r
                       THEN overtaken \cup {launching} ELSE overtaken
       /\ IF continueQueue /\ ~Dispatching /\ MayStart(queue, left, FALSE)
          THEN Launch(queue[1], left, FALSE)
          ELSE /\ item' = left
               /\ excused' = (excused \/ ~continueQueue)
               /\ UNCHANGED <<launch, asked>>
       /\ UNCHANGED <<queue, routing, started, dead, faults, delivered, cancelled, kept, restored>>

\* Studio is closed or dies, and lists the stored queue again.
Restore ==
    /\ faults < MaxFaults
    /\ faults' = faults + 1
    /\ item' = [m \in Messages |-> IF Queued(m) THEN HeldBack(m) ELSE item[m]]
    /\ restored' = Range(queue)
    /\ routing' = {} /\ carried' = [m \in Messages |-> 0]
    /\ current' = 0 /\ runPaused' = FALSE /\ unwinding' = {} /\ dead' = {}
    /\ starting' = Idle /\ launching' = NoMessage /\ launched' = "none"
    /\ asked' = FALSE /\ excused' = FALSE
    /\ UNCHANGED <<queue, started, cancelled, overtaken>>

\* A message whose run was registered is still stored if drain has not gone on.
Restart ==
    /\ Restore
    /\ kept' = [m \in Messages |-> IF m = launching /\ launched = "ok" /\ Queued(m)
                                  THEN kept[m] + 1 ELSE kept[m]]
    /\ UNCHANGED delivered

\* Guidance is in the history, and Studio dies before the queue is saved without it.
DiesApplying(m) ==
    /\ carried[m] # 0 /\ Queued(m) /\ ~Returning
    /\ Restore
    /\ delivered' = [delivered EXCEPT ![m] = @ + 1]
    /\ kept' = [kept EXCEPT ![m] = @ + 1]

-----------------------------------------------------------------------------
QueueNext ==
    \/ \E m \in Messages : \/ Enqueue(m) \/ Route(m) \/ RouteFails(m) \/ Promote(m)
                           \/ Applied(m) \/ Cancel(m) \/ DiesApplying(m)
    \/ SendNow \/ Dispatched \/ RetrySteering
    \/ PauseRun \/ UserStarts \/ Replace \/ Register \/ RegisterFails \/ StartFails \/ Restart
    \/ \E r \in 1..MaxRuns, continueQueue \in BOOLEAN : FinishRun(r, continueQueue)

QueueSpec == QueueInit /\ [][QueueNext]_queueVars

-----------------------------------------------------------------------------
(* Properties *)

\* An accepted message is never lost, and it is delivered at most once, by guidance, launch
\* or both, but for the times it stayed stored when it was delivered: Studio died before
\* the queue was saved, or the launch failed after its task was.  And it is in one place:
\* queued, delivered or removed, where a launch may just be returning, or a stopped run
\* finished so late that it took the message back while it was being launched.
Accounted ==
    \A m \in Messages : item[m].state # "new" =>
        LET fate == {f \in {"queued", "delivered", "removed"} :
                        \/ f = "queued" /\ Queued(m)
                        \/ f = "delivered" /\ delivered[m] > kept[m]
                        \/ f = "removed" /\ m \in cancelled}
        IN /\ fate # {} /\ delivered[m] <= 1 + kept[m]
           /\ (\E f \in fate : fate = {f}) \/ m = launching \/ m \in overtaken

\* After a restart no message starts a paid run unless the user sends it, whatever
\* failed or finished since ("recovery never automatically starts paid work").
RecoveryPaysNothing == launching \in restored => asked

\* The queue does not fall asleep: when nothing runs, starts or is judged, the message
\* at its head is held back, or the last launch failed, a run was stopped, or the
\* user removed what was ahead of it.
HeadIsServed ==
    current = 0 /\ unwinding = {} /\ starting = Idle /\ ~Dispatching /\ routing = {} /\ queue # <<>>
        => item[queue[1]].hold \/ excused
=============================================================================
