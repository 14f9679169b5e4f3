------------------------------- MODULE Relay -------------------------------
(***************************************************************************)
(* The relay's request path (server/reachd): handle_chat runs chat_execute *)
(* and chat_finalize in one thread per request; support.execute shares its *)
(* limits.  The threads share the concurrency gate, a circuit breaker per  *)
(* upstream, the response cache and the keys' daily token budgets; every   *)
(* access to one of them is atomic (each holds its own lock), and every    *)
(* network call of a request is a point where other requests run.          *)
(*                                                                         *)
(* An alias is a model a client may name: it has an upstream, so a breaker *)
(* (CircuitOf), and may have a fallback alias.  Requests of one alias and  *)
(* one key carry the same prompt, so they share a cache entry.  The shared *)
(* per-address and global limits and the checks of the request's body only *)
(* refuse: they are the choice Refuse.                                     *)
(***************************************************************************)
EXTENDS Naturals, FiniteSets

CONSTANTS
    Requests,        \* the relay's request threads; one serves many requests
    Shapes,          \* what a request asks for: kind, alias, key, metered
    Keys,            \* API keys with a daily token budget
    Aliases, Circuits,
    CircuitOf,       \* CircuitOf[a]: the breaker of the upstream behind a
    FallbackOf,      \* FallbackOf[a]: its fallback alias, or NoAlias
    MaxConcurrency,  \* settings: max_concurrency
    Threshold,       \* settings: circuit_threshold
    Retries,         \* settings: upstream_retries
    DayLimit,        \* tokens_day of every key
    Usages,          \* tokens one answer may cost
    NoAlias, NoShape

Kinds == {"answer", "stream", "support"}
Shape == [kind : Kinds, alias : Aliases, key : Keys, metered : BOOLEAN]

ASSUME RelayAssumption ==
    /\ IsFiniteSet(Requests)
    /\ Shapes \subseteq Shape /\ NoShape \notin Shape
    /\ CircuitOf \in [Aliases -> Circuits]
    /\ NoAlias \notin Aliases
    /\ FallbackOf \in [Aliases -> Aliases \cup {NoAlias}]
    /\ \A a \in Aliases : FallbackOf[a] # a
    /\ MaxConcurrency \in Nat \ {0} /\ Threshold \in Nat \ {0}
    /\ Retries \in Nat /\ DayLimit \in Nat \ {0}
    /\ Usages \subseteq Nat

VARIABLES
    at,       \* at[r]: where thread r is
    shape,    \* shape[r]: its request
    alias,    \* alias[r]: the alias whose answer it is waiting for or sending
    circuit,  \* circuit[r]: the breaker it will report to
    tries,    \* tries[r]: attempts it has left, while it connects
    active,   \* the gate's count
    lost,     \* history: the slots no thread will give back any more
    breaker,  \* breaker[c]: consecutive failures (up to Threshold), cooling down
    spent,    \* spent[k]: tokens counted for the key today
    cached    \* the pairs of a key and an alias whose answer is cached

thread == <<at, shape, alias, circuit, tries>>
vars == <<thread, active, lost, breaker, spent, cached>>

\* The stages in which a thread holds a slot of the gate.
Holding == {"calling", "falling", "probing", "retelling", "streaming", "supporting"}
Stages == {"idle", "admitted", "waiting", "reading"} \cup Holding
Closed == [failures |-> 0, cooling |-> FALSE]

TypeOK ==
    /\ at \in [Requests -> Stages]
    /\ shape \in [Requests -> Shapes \cup {NoShape}]
    /\ \A r \in Requests : at[r] # "idle" => shape[r] \in Shapes
    /\ alias \in [Requests -> Aliases \cup {NoAlias}]
    /\ circuit \in [Requests -> Circuits \cup {NoAlias}]
    /\ tries \in [Requests -> 0..(Retries + 1)]
    /\ active \in 0..MaxConcurrency
    /\ lost \in 0..MaxConcurrency
    /\ breaker \in [Circuits -> [failures : 0..Threshold, cooling : BOOLEAN]]
    /\ spent \in [Keys -> Nat]
    /\ cached \subseteq Keys \X Aliases

Init ==
    /\ at = [r \in Requests |-> "idle"]
    /\ shape = [r \in Requests |-> NoShape]
    /\ alias = [r \in Requests |-> NoAlias]
    /\ circuit = [r \in Requests |-> NoAlias]
    /\ tries = [r \in Requests |-> 0]
    /\ active = 0
    /\ lost = 0
    /\ breaker = [c \in Circuits |-> Closed]
    /\ spent = [k \in Keys |-> 0]
    /\ cached = {}

-----------------------------------------------------------------------------
(* The shared state *)

\* The thread answers its client; end_request.
End(r) ==
    /\ at' = [at EXCEPT ![r] = "idle"]
    /\ shape' = [shape EXCEPT ![r] = NoShape]
    /\ alias' = [alias EXCEPT ![r] = NoAlias]
    /\ circuit' = [circuit EXCEPT ![r] = NoAlias]
    /\ tries' = [tries EXCEPT ![r] = 0]

Goto(r, stage) ==
    /\ at' = [at EXCEPT ![r] = stage]
    /\ UNCHANGED <<shape, alias, circuit, tries>>

\* Slip: the slot is never given back.
KeepSlot == UNCHANGED active

Release == active' = IF active > 0 THEN active - 1 ELSE 0

HasSlot == active < MaxConcurrency

NoteFailure(c) ==
    LET n == IF breaker[c].failures < Threshold THEN breaker[c].failures + 1 ELSE Threshold
    IN breaker' = [breaker EXCEPT ![c] =
           [failures |-> n, cooling |-> n = Threshold \/ breaker[c].cooling]]

NoteSuccess(c) == breaker' = [breaker EXCEPT ![c] = Closed]

\* Slip: the budget is only looked at once the answer is back.
AnyBudget(k) == TRUE

\* A key that is already over its allowance does not buy another completion.
BudgetLeft(k) == spent[k] < DayLimit

Cacheable(r) == shape[r].kind = "answer" /\ ~shape[r].metered
CacheKey(r) == <<shape[r].key, shape[r].alias>>

\* The alias a request falls back to when `a` fails.
Fallback(r, a) == IF shape[r].metered THEN NoAlias ELSE FallbackOf[a]

-----------------------------------------------------------------------------
(* chat_execute: limits, breaker, cache, gate *)

\* The per-key budget is checked before the body is read.
Admit(r, s) ==
    /\ at[r] = "idle"
    /\ BudgetLeft(s.key)
    /\ at' = [at EXCEPT ![r] = "admitted"]
    /\ shape' = [shape EXCEPT ![r] = s]
    /\ UNCHANGED <<alias, circuit, tries, active, lost, breaker, spent, cached>>

\* A shared limit, the pace of the key or the model, or a check of the body.
Refuse(r) ==
    /\ at[r] = "admitted"
    /\ End(r)
    /\ UNCHANGED <<active, lost, breaker, spent, cached>>

\* What keeps a request from the gate: an open breaker or a cached answer; a support
\* operation looks at its budget again.
Spared(r) ==
    IF shape[r].kind = "support" THEN ~BudgetLeft(shape[r].key)
    ELSE breaker[CircuitOf[shape[r].alias]].cooling \/ (Cacheable(r) /\ CacheKey(r) \in cached)

TurnAway(r) ==
    /\ at[r] = "admitted"
    /\ Spared(r)
    /\ End(r)
    /\ UNCHANGED <<active, lost, breaker, spent, cached>>

Queue(r) ==
    /\ at[r] = "admitted"
    /\ ~Spared(r)
    /\ at' = [at EXCEPT ![r] = "waiting"]
    /\ alias' = [alias EXCEPT ![r] = shape[r].alias]
    /\ circuit' = [circuit EXCEPT ![r] = CircuitOf[shape[r].alias]]
    /\ UNCHANGED <<shape, tries, active, lost, breaker, spent, cached>>

\* A stream connects once; a metered request is not tried again.
Attempts(r) ==
    IF shape[r].kind = "answer" /\ ~shape[r].metered THEN Retries + 1 ELSE 1

\* gate.acquire polls until there is room ...
Acquire(r) ==
    /\ at[r] = "waiting"
    /\ HasSlot
    /\ active' = active + 1
    /\ at' = [at EXCEPT ![r] = IF shape[r].kind = "support" THEN "supporting" ELSE "calling"]
    /\ tries' = [tries EXCEPT ![r] = IF shape[r].kind = "support" THEN 0 ELSE Attempts(r)]
    /\ UNCHANGED <<shape, alias, circuit, lost, breaker, spent, cached>>

\* ... or the deadline passes.
GateTimeout(r) ==
    /\ at[r] = "waiting"
    /\ ~HasSlot
    /\ End(r)
    /\ UNCHANGED <<active, lost, breaker, spent, cached>>

-----------------------------------------------------------------------------
(* chat_execute: the upstream call *)

\* Slip: the slot of a stream is given back when it has connected, too.
ReleaseOnConnect(r) == Release

\* `finally`: only a stream that connected keeps its slot.
SlotAfterConnect(r) == IF shape[r].kind = "stream" THEN UNCHANGED active ELSE Release

\* Slip: the fallback's answer is credited to the alias that failed.
CircuitStays(r, a) == circuit[r]

\* The breaker of the upstream that answered.
AnsweringCircuit(r, a) == CircuitOf[a]

\* `a` answered the call.
Connected(r, a) ==
    /\ at' = [at EXCEPT ![r] = IF shape[r].kind = "stream" THEN "probing" ELSE "reading"]
    /\ alias' = [alias EXCEPT ![r] = a]
    /\ circuit' = [circuit EXCEPT ![r] = AnsweringCircuit(r, a)]
    /\ tries' = [tries EXCEPT ![r] = 0]
    /\ SlotAfterConnect(r)
    /\ UNCHANGED <<shape, lost, breaker, spent, cached>>

Connect(r) == at[r] = "calling" /\ Connected(r, alias[r])

\* The context cannot be prepared: answered without blaming the upstream.
Unprepared(r) ==
    /\ at[r] \in {"calling", "falling"}
    /\ End(r)
    /\ Release
    /\ UNCHANGED <<lost, breaker, spent, cached>>

\* A 5xx answer or no connection, with an attempt left.
Retry(r) ==
    /\ at[r] = "calling"
    /\ tries[r] > 1
    /\ tries' = [tries EXCEPT ![r] = @ - 1]
    /\ UNCHANGED <<at, shape, alias, circuit, active, lost, breaker, spent, cached>>

\* The last attempt failed, or a 4xx answer: the fallback alias, if there is one.
ConnectFails(r) ==
    /\ at[r] = "calling"
    /\ IF Fallback(r, alias[r]) # NoAlias
       THEN /\ at' = [at EXCEPT ![r] = "falling"]
            /\ tries' = [tries EXCEPT ![r] = 0]
            /\ UNCHANGED <<shape, alias, circuit, active, breaker>>
       ELSE End(r) /\ Release /\ NoteFailure(circuit[r])
    /\ UNCHANGED <<lost, spent, cached>>

FallbackConnects(r) == at[r] = "falling" /\ Connected(r, Fallback(r, alias[r]))

\* The failure is the first upstream's.
FallbackFails(r) ==
    /\ at[r] = "falling"
    /\ End(r)
    /\ Release
    /\ NoteFailure(circuit[r])
    /\ UNCHANGED <<lost, spent, cached>>

-----------------------------------------------------------------------------
(* chat_finalize: an answer in one piece *)

\* The body is read without a slot and its tokens are counted.  An answer that takes a
\* budget over its limit is withheld and not cached: a shared budget, which is counted
\* first, the key's, or the model's (the parameter names one that is full).
Answer(r, tokens, full) ==
    LET k == shape[r].key
        total == spent[k] + tokens
    IN /\ at[r] = "reading"
       /\ tokens = 0 => full = "none"
       /\ NoteSuccess(circuit[r])
       /\ spent' = IF full = "shared" THEN spent ELSE [spent EXCEPT ![k] = total]
       /\ cached' = IF Cacheable(r) /\ full = "none" /\ (tokens = 0 \/ total <= DayLimit)
                    THEN cached \cup {CacheKey(r)} ELSE cached
       /\ End(r)
       /\ UNCHANGED <<active, lost>>

\* upstream.read raises: the connection is lost inside the body.
BodyLost(r) ==
    /\ at[r] = "reading"
    /\ End(r)
    /\ UNCHANGED <<active, lost, breaker, spent, cached>>

-----------------------------------------------------------------------------
(* chat_finalize: a stream *)

\* The prefix holds the start of an answer.
ProbeAnswers(r) ==
    /\ at[r] = "probing"
    /\ Goto(r, "streaming")
    /\ UNCHANGED <<active, lost, breaker, spent, cached>>

\* A failure is noted unless the upstream only had no capacity.
NoteUnless(capacity, c) == IF capacity THEN UNCHANGED breaker ELSE NoteFailure(c)

\* chat_execute already used a fallback to connect.
FellBack(r) == alias[r] # shape[r].alias

\* Nobody answers.  The failure is told and the slot given back, but only if no
\* fallback was used before: otherwise what did arrive is sent as a stream, or the
\* thread dies on it, a body without SSE lines, and takes the slot with it.
GivesUp(r) ==
    \/ ~FellBack(r) /\ End(r) /\ Release /\ UNCHANGED lost
    \/ FellBack(r) /\ Goto(r, "streaming") /\ UNCHANGED <<active, lost>>
    \/ FellBack(r) /\ End(r) /\ lost' = lost + 1 /\ UNCHANGED active

ProbeFails(r, capacity) ==
    /\ at[r] = "probing"
    /\ NoteUnless(capacity, circuit[r])
    /\ IF Fallback(r, alias[r]) # NoAlias
       THEN Goto(r, "retelling") /\ UNCHANGED <<active, lost>>
       ELSE GivesUp(r)
    /\ UNCHANGED <<spent, cached>>

FallbackAnswers(r) ==
    LET a == Fallback(r, alias[r])
    IN /\ at[r] = "retelling"
       /\ at' = [at EXCEPT ![r] = "streaming"]
       /\ alias' = [alias EXCEPT ![r] = a]
       /\ circuit' = [circuit EXCEPT ![r] = AnsweringCircuit(r, a)]
       /\ UNCHANGED <<shape, tries, active, lost, breaker, spent, cached>>

FallbackSilent(r, capacity) ==
    /\ at[r] = "retelling"
    /\ NoteUnless(capacity, CircuitOf[Fallback(r, alias[r])])
    /\ GivesUp(r)
    /\ UNCHANGED <<spent, cached>>

\* The stream ends well, with an error, for want of capacity, or because the
\* client is gone.  Nothing counts its tokens for the key: chat_finalize returns.
StreamEnds(r, how) ==
    /\ at[r] = "streaming"
    /\ CASE how = "answered" -> NoteSuccess(circuit[r])
         [] how = "failed" -> NoteFailure(circuit[r])
         [] OTHER -> UNCHANGED breaker
    /\ End(r)
    /\ Release
    /\ UNCHANGED <<lost, spent, cached>>

-----------------------------------------------------------------------------
(* support.execute, and everything else that happens to the shared state *)

\* The operation holds its slot to the end, and counts its tokens if it succeeds.
Support(r, tokens) ==
    /\ at[r] = "supporting"
    /\ spent' = [spent EXCEPT ![shape[r].key] = @ + tokens]
    /\ End(r)
    /\ Release
    /\ UNCHANGED <<lost, breaker, cached>>

SupportFails(r) ==
    /\ at[r] = "supporting"
    /\ End(r)
    /\ Release
    /\ UNCHANGED <<lost, breaker, spent, cached>>

\* The cool-down of a breaker is over; its failures stay.
Cooldown(c) ==
    /\ breaker[c].cooling
    /\ breaker' = [breaker EXCEPT ![c].cooling = FALSE]
    /\ UNCHANGED <<thread, active, lost, spent, cached>>

\* An entry expires or makes room for another; the owner clears the cache.
Evict(e) ==
    /\ cached' = cached \ {e}
    /\ UNCHANGED <<thread, active, lost, breaker, spent>>

ClearCache ==
    /\ cached' = {}
    /\ UNCHANGED <<thread, active, lost, breaker, spent>>

\* 00:00 UTC.
NewDay ==
    /\ spent' = [k \in Keys |-> 0]
    /\ UNCHANGED <<thread, active, lost, breaker, cached>>

-----------------------------------------------------------------------------
Endings == {"answered", "failed", "capacity", "gone"}

\* What thread r does once it has a request.
Step(r) ==
    \/ Refuse(r) \/ TurnAway(r) \/ Queue(r) \/ Acquire(r) \/ GateTimeout(r)
    \/ Connect(r) \/ Unprepared(r) \/ Retry(r) \/ ConnectFails(r)
    \/ FallbackConnects(r) \/ FallbackFails(r)
    \/ \E n \in Usages, full \in {"none", "shared", "model"} : Answer(r, n, full)
    \/ BodyLost(r)
    \/ ProbeAnswers(r) \/ FallbackAnswers(r)
    \/ \E capacity \in BOOLEAN : ProbeFails(r, capacity) \/ FallbackSilent(r, capacity)
    \/ \E how \in Endings : StreamEnds(r, how)
    \/ \E n \in Usages : Support(r, n)
    \/ SupportFails(r)

Next ==
    \/ \E r \in Requests : Step(r) \/ \E s \in Shapes : Admit(r, s)
    \/ \E c \in Circuits : Cooldown(c)
    \/ \E e \in cached : Evict(e)
    \/ ClearCache
    \/ NewDay

Spec == Init /\ [][Next]_vars

\* Here a thread reads what an upstream sends.  A timeout is one of a single read, and a
\* browser chat has none, so an upstream that trickles holds the thread for ever.
Reading == {"calling", "falling", "reading", "probing", "retelling", "streaming"}

\* Every other wait ends: the gate polls for 15 seconds, the support service sends at
\* most 2 MB, and each write to a client has a timeout.
FairSpec == Spec /\ \A r \in Requests : WF_vars(at[r] \notin Reading /\ Step(r))

-----------------------------------------------------------------------------
(* Properties *)

\* The gate counts exactly the threads that hold a slot, and the slots lost with
\* their threads (chat.py takes a slot at one place and gives it back at three,
\* support.py at a fourth).
SlotsExact == active = Cardinality({r \in Requests : at[r] \in Holding}) + lost

\* A breaker is cleared only by an answer of its own upstream, and only a request
\* that called that upstream in vain adds to its failures, fallbacks included.
BreakerJudgesItsOwn ==
    [][\A c \in Circuits :
        /\ breaker'[c].failures < breaker[c].failures =>
               \E r \in Requests :
                   /\ at[r] \in {"reading", "streaming"} /\ at'[r] = "idle"
                   /\ CircuitOf[alias[r]] = c
        /\ breaker'[c].failures > breaker[c].failures =>
               \E r \in Requests :
                   /\ at[r] \in Holding /\ at'[r] # at[r]
                   /\ \/ CircuitOf[alias[r]] = c
                      \/ at[r] = "retelling" /\ CircuitOf[FallbackOf[alias[r]]] = c]_vars

\* What a budget counts - answers in one piece and support operations - goes over it by
\* less than what the requests in flight cost: it is checked long before an answer is
\* counted.  It is no bound on what a key gets: a stream is never counted (StreamEnds), so
\* a key that streams goes over its budget without end.
OvershootBounded ==
    \A k \in Keys : \A most \in Usages :
        (\A n \in Usages : n <= most) =>
            spent[k] < DayLimit + most * Cardinality(Requests)

\* If no upstream holds a thread and its slot for ever, the relay is not at capacity for good, unless
\* all its slots are lost: no way out of a request keeps the slot it took.
SlotsComeBack ==
    (\A r \in Requests : []<>(at[r] \notin Reading \cap Holding)) =>
        ((active = MaxConcurrency) ~> (active < MaxConcurrency \/ lost = MaxConcurrency))
=============================================================================
