---------------------------- MODULE GatewayProofs -----------------------------
(***************************************************************************)
(* Safety of the gateway for any number of requests and keys and any limit,*)
(* with lost, late and unanswered store calls, aborts and crashes.         *)
(*                                                                         *)
(* A request owns a key's hold from the moment the store opened the hold   *)
(* for it until the hold is given back.  Calls that resolve a hold are on  *)
(* the wire only for owners, and a release is the only call of its request *)
(* then; so nobody else can open the hold while a call for it is under way.*)
(***************************************************************************)
EXTENDS Gateway, FiniteSetTheorems, TLAPS

\* The request opened the key's hold last, and it was not given back.
Owns(r) == holder[key[r]] = r /\ hold[key[r]] \in {"reserved", "uncertain", "settled"}

\* None of its calls is on the wire.
Silent(r) == \A c \in wire : c.by # r

\* The hold may not be given back: the work may have been paid for.
Committed(r) == r \in IF key[r] \in RequestKeys THEN attempted ELSE dispatched

\* What EndedIsResolved asks of a request.
Resolved(r) ==
    holder[key[r]] = r =>
        hold[key[r]] \in IF key[r] \in RequestKeys THEN {"settled", "released"}
                         ELSE IF r \in dispatched THEN {"settled", "uncertain"}
                         ELSE {"released"}

\* What holds while a handler is at its place.
NewAt(r) ==
    /\ pc[r] = "new" <=> key[r] = NoKey
    /\ pc[r] = "new" => /\ answer[r] = "none" /\ Silent(r) /\ \A k \in Keys : holder[k] # r
                        /\ r \notin dispatched /\ r \notin attempted
ReservingAt(r) ==
    pc[r] = "reserving" =>
        /\ r \notin dispatched /\ r \notin attempted
        /\ answer[r] # "none" => Silent(r)
        /\ answer[r] \notin {"none", "fresh"} => holder[key[r]] # r
FreshAt(r) ==
    (pc[r] = "reserving" /\ answer[r] = "fresh") \/ pc[r] = "upstream" =>
        holder[key[r]] = r /\ hold[key[r]] = "reserved" /\ Silent(r)
UpstreamAt(r) ==
    pc[r] = "upstream" => answer[r] = "none" /\ r \in dispatched /\ r \notin attempted
SettlingAt(r) ==
    pc[r] = "settling" =>
        /\ Owns(r) /\ r \in dispatched /\ Committed(r)
        /\ \A c \in wire : c.by = r => c.op = "settle"
        /\ answer[r] \in {"none", "ok", "refused"}
        /\ answer[r] = "ok" => hold[key[r]] = "settled"
        /\ answer[r] = "refused" => r \in troubled
ResolvingAt(r) ==
    pc[r] = "resolving" =>
        /\ answer[r] \in {"none", "ok", "refused"}
        /\ answer[r] = "refused" => r \in troubled
EndedAt(r) ==
    (pc[r] = "done" \/ (pc[r] = "resolving" /\ answer[r] = "ok")) /\ r \notin troubled
        => Resolved(r)
At(r) ==
    NewAt(r) /\ ReservingAt(r) /\ FreshAt(r) /\ UpstreamAt(r) /\ SettlingAt(r) /\ ResolvingAt(r)
    /\ EndedAt(r)

\* What a call on the wire still means.
Meant(c) ==
    /\ pc[c.by] # "new"
    /\ c.op = "reserve" =>
          /\ holder[key[c.by]] # c.by
          /\ \A d \in wire : d.by = c.by => d = c
          /\ (pc[c.by] = "reserving" /\ answer[c.by] = "none")
             \/ (pc[c.by] = "done" /\ c.by \in troubled)
    /\ c.op # "reserve" => Owns(c.by) /\ pc[c.by] \in {"settling", "resolving", "done"}
    /\ c.op = "settle" => c.by \in dispatched /\ Committed(c.by)
    /\ c.op \in {"release", "mark"} => pc[c.by] # "settling"
    /\ c.op = "mark" =>
          /\ Committed(c.by)
          /\ key[c.by] \in RequestKeys => c.by \in troubled
    /\ c.op = "release" =>
          /\ ~Committed(c.by)
          /\ \A d \in wire : d.by = c.by => d = c

\* Metered work that was dispatched keeps its hold, so its key is sent once.
MeteredOnce ==
    /\ \A r \in dispatched : key[r] \notin RequestKeys => Owns(r)
    /\ \A k \in Keys \ RequestKeys :
          sent[k] = 0 \/ (sent[k] = 1 /\ \E r \in dispatched : key[r] = k)

IInv ==
    /\ TypeOK
    /\ \A r \in Requests : At(r)
    /\ \A c \in wire : Meant(c)
    /\ MeteredOnce
    /\ CapacityExact

-----------------------------------------------------------------------------
(* What the invariant implies *)

LEMMA Initial == Init => IInv
<1>. SUFFICES ASSUME Init
              PROVE  IInv
  OBVIOUS
<1>1. TypeOK
  BY GatewayAssumption DEF Init, TypeOK, Store!HoldsInit, Store!HoldsTypeOK, Store!Status, Answers
<1>2. \A r \in Requests : At(r)
  BY GatewayAssumption DEF Init, At, NewAt, ReservingAt, FreshAt, UpstreamAt, SettlingAt, ResolvingAt,
     EndedAt, Silent
<1>3. (\A c \in wire : Meant(c)) /\ MeteredOnce
  BY DEF Init, MeteredOnce
<1>4. CapacityExact
  <2>1. {r \in dispatched : pc[r] \in Running} = {}
    BY DEF Init
  <2>2. QED
    BY <2>1, FS_EmptySet, GatewayAssumption DEF CapacityExact, Init
<1>5. QED
  BY <1>1, <1>2, <1>3, <1>4 DEF IInv

LEMMA NoStray == IInv => NoStrayCall
  BY DEF IInv, Meant, NoStrayCall, Owns

LEMMA Ended == IInv => EndedIsResolved
  BY DEF IInv, At, EndedAt, Resolved, EndedIsResolved, RequestMode

LEMMA Once == IInv => OneGeneration
<1>. SUFFICES ASSUME IInv, NEW k \in Keys
              PROVE  /\ Cardinality({r \in Requests : pc[r] \in {"upstream", "settling"} /\ key[r] = k}) <= 1
                     /\ k \notin RequestKeys => sent[k] <= 1
  BY DEF OneGeneration
<1>. DEFINE G == {r \in Requests : pc[r] \in {"upstream", "settling"} /\ key[r] = k}
<1>1. \A r \in G : holder[k] = r
  BY DEF IInv, At, FreshAt, SettlingAt, Owns
<1>2. Cardinality(G) <= 1
  <2>1. CASE G = {}
    BY <2>1, FS_EmptySet
  <2>2. CASE G # {}
    <3>1. G = {holder[k]}
      BY <1>1, <2>2
    <3>2. Cardinality(G) = 1
      BY <3>1, FS_Singleton
    <3>3. QED
      BY <3>2
  <2>3. QED
    BY <2>1, <2>2
<1>3. k \notin RequestKeys => sent[k] <= 1
  BY DEF IInv, MeteredOnce, TypeOK
<1>4. QED
  BY <1>2, <1>3

-----------------------------------------------------------------------------
(* Steps of a handler *)

\* The other requests and their calls are as they were.
LEMMA OthersKeep ==
    ASSUME IInv, NEW r \in Requests, UNCHANGED store, wire' \subseteq Call,
           \A q \in Requests \ {r} :
               /\ pc'[q] = pc[q] /\ key'[q] = key[q] /\ answer'[q] = answer[q]
               /\ q \in dispatched' <=> q \in dispatched
               /\ q \in attempted' <=> q \in attempted
               /\ q \in troubled' <=> q \in troubled,
           \A c \in Call : c.by # r => (c \in wire' <=> c \in wire)
    PROVE  /\ \A q \in Requests \ {r} : At(q)'
           /\ \A c \in wire' : c.by # r => Meant(c)'
<1>1. ASSUME NEW q \in Requests \ {r}
      PROVE  /\ Owns(q)' <=> Owns(q)
             /\ Committed(q)' <=> Committed(q)
             /\ Resolved(q)' <=> Resolved(q)
  BY DEF store, Owns, Committed, Resolved
<1>2. ASSUME NEW q \in Requests \ {r}
      PROVE  At(q)'
  <2>1. At(q) /\ \A c \in wire' : c.by = q => c \in wire
    BY DEF IInv, Call
  <2>2. NewAt(q)' /\ ReservingAt(q)' /\ FreshAt(q)' /\ UpstreamAt(q)'
    BY <2>1 DEF store, At, NewAt, ReservingAt, FreshAt, UpstreamAt, Silent
  <2>3. SettlingAt(q)' /\ ResolvingAt(q)' /\ EndedAt(q)'
    BY <1>1, <2>1 DEF store, At, SettlingAt, ResolvingAt, EndedAt
  <2>4. QED
    BY <2>2, <2>3 DEF At
<1>3. ASSUME NEW c \in wire', c.by # r
      PROVE  Meant(c)'
  <2>1. c \in Call /\ c \in wire /\ Meant(c) /\ c.by \in Requests \ {r}
    BY <1>3 DEF IInv, Call
  <2>2. \A d \in wire' : d.by = c.by => d \in wire
    BY <2>1 DEF Call
  <2>3. QED
    BY <1>1, <2>1, <2>2 DEF store, Meant
<1>4. QED
  BY <1>2, <1>3

\* The requests that are counted.
Counted == {r \in dispatched : pc[r] \in Running}

LEMMA SameCount ==
    ASSUME IInv, Counted' = Counted, active' = active
    PROVE  CapacityExact'
  BY DEF IInv, CapacityExact, Counted

LEMMA CountedFinite ==
    ASSUME IInv
    PROVE  IsFiniteSet(Counted) /\ Cardinality(Counted) \in Nat
<1>1. Counted \subseteq Requests
  BY DEF IInv, TypeOK, Counted
<1>2. QED
  BY <1>1, FS_Subset, FS_CardinalityType, GatewayAssumption

\* A request ends and is uncounted if it was counted.
LEMMA EndsUncounted ==
    ASSUME IInv, NEW r \in Requests, pc[r] \in Running, pc' = [pc EXCEPT ![r] = "done"],
           dispatched' = dispatched, Uncount(r)
    PROVE  CapacityExact' /\ active' \in 0..MaxConcurrency
<1>1. Counted' = Counted \ {r}
  BY DEF Counted, IInv, TypeOK, Running
<1>2. CASE r \in dispatched
  <2>1. r \in Counted
    BY <1>2 DEF Counted
  <2>2. Cardinality(Counted') = Cardinality(Counted) - 1
    BY <1>1, <2>1, CountedFinite, FS_RemoveElement
  <2>3. active = Cardinality(Counted) /\ active' = active - 1 /\ active > 0
    <3>1. Cardinality(Counted) # 0
      BY <2>1, CountedFinite, FS_EmptySet
    <3>2. QED
      BY <1>2, <3>1, CountedFinite DEF Uncount, IInv, CapacityExact, Counted, TypeOK
  <2>4. QED
    BY <2>2, <2>3, GatewayAssumption DEF IInv, TypeOK, CapacityExact, Counted
<1>3. CASE r \notin dispatched
  <2>1. Counted' = Counted /\ active' = active
    BY <1>1, <1>3 DEF Uncount, Counted
  <2>2. QED
    BY <2>1, SameCount DEF IInv, TypeOK
<1>4. QED
  BY <1>2, <1>3

LEMMA MeteredKeeps ==
    ASSUME IInv, UNCHANGED <<store, dispatched, sent>>,
           \A q \in dispatched : key'[q] = key[q]
    PROVE  MeteredOnce'
  BY DEF IInv, MeteredOnce, store, Owns

\* A request with a hold of its own sends the call that resolves it.
LEMMA FailKeeps ==
    ASSUME IInv, NEW r \in Requests, pc[r] \in {"reserving", "upstream", "settling"},
           Owns(r), Fail(r), UNCHANGED <<key, aborted, dispatched, attempted, active, store, sent>>,
           \A c \in wire : c.by = r => c.op = "settle",
           Committed(r) \/ Silent(r),
           key[r] \in RequestKeys /\ r \in attempted => r \in troubled',
           troubled' = troubled \/ troubled' = troubled \cup {r}
    PROVE  IInv'
<1>. DEFINE c0 == [by |-> r, op |-> Resolution(r)]
<1>1. /\ pc' = [pc EXCEPT ![r] = "resolving"]
      /\ answer' = [answer EXCEPT ![r] = "none"]
      /\ wire' = wire \cup {c0}
      /\ c0 \in Call /\ c0.by = r /\ c0.op \in {"mark", "release"}
      /\ c0.op = "mark" <=> Committed(r)
  BY DEF Fail, Goto, Send, Await, Resolution, RequestMode, Committed, Call
<1>2. TypeOK'
  <2>1. pc' \in [Requests -> Running \cup {"new", "done"}] /\ answer' \in [Requests -> Answers]
    BY <1>1 DEF IInv, TypeOK, Running, Answers
  <2>2. QED
    BY <1>1, <2>1 DEF IInv, TypeOK, store, Store!HoldsTypeOK
<1>3. /\ \A q \in Requests \ {r} : At(q)'
      /\ \A c \in wire' : c.by # r => Meant(c)'
  BY <1>1, <1>2, OthersKeep DEF TypeOK, IInv
<1>4. pc'[r] = "resolving" /\ answer'[r] = "none"
  BY <1>1 DEF IInv, TypeOK
<1>5. At(r)'
  <2>1. key[r] # NoKey
    BY DEF IInv, At, NewAt
  <2>2. QED
    BY <1>4, <2>1 DEF At, NewAt, ReservingAt, FreshAt, UpstreamAt, SettlingAt, ResolvingAt, EndedAt
<1>6. Owns(r)' /\ (Committed(r)' <=> Committed(r))
  BY DEF Owns, Committed, store
<1>7. ASSUME NEW c \in wire', c.by = r
      PROVE  Meant(c)'
  <2>1. CASE c = c0
    <3>1. c.op = "mark" => (key[r] \in RequestKeys => r \in troubled')
      BY <1>1, <2>1 DEF Committed
    <3>2. c.op = "release" => \A d \in wire' : d.by = r => d = c
      BY <1>1, <2>1 DEF Silent
    <3>3. QED
      BY <1>1, <1>4, <1>6, <1>7, <2>1, <3>1, <3>2 DEF Meant
  <2>2. CASE c # c0
    <3>1. c \in wire /\ c.op = "settle" /\ Meant(c)
      BY <1>1, <1>7, <2>2 DEF IInv
    <3>2. QED
      BY <1>4, <1>6, <1>7, <3>1 DEF Meant
  <2>3. QED
    BY <2>1, <2>2
<1>8. CapacityExact'
  <2>1. Counted' = Counted
    BY <1>1 DEF Counted, IInv, TypeOK, Running
  <2>2. QED
    BY <2>1, SameCount
<1>9. QED
  BY <1>2, <1>3, <1>5, <1>7, <1>8, MeteredKeeps DEF IInv

LEMMA ArriveKeeps ==
    ASSUME IInv, NEW r \in Requests, NEW k \in Keys, Arrive(r, k)
    PROVE  IInv'
<1>. DEFINE c0 == [by |-> r, op |-> "reserve"]
<1>. USE DEF Arrive, Goto, Send
<1>1. c0 \in Call /\ wire' = wire \cup {c0} /\ Silent(r) /\ pc[r] = "new"
  BY DEF Call, IInv, At, NewAt
<1>2. TypeOK'
  <2>1. pc' \in [Requests -> Running \cup {"new", "done"}] /\ key' \in [Requests -> Keys \cup {NoKey}]
    BY DEF IInv, TypeOK, Running
  <2>2. QED
    BY <1>1, <2>1 DEF IInv, TypeOK, store, Store!HoldsTypeOK
<1>3. /\ \A q \in Requests \ {r} : At(q)'
      /\ \A c \in wire' : c.by # r => Meant(c)'
  BY <1>1, <1>2, OthersKeep DEF TypeOK, IInv
<1>4. pc'[r] = "reserving" /\ key'[r] = k /\ answer'[r] = "none" /\ k # NoKey
  BY GatewayAssumption DEF IInv, TypeOK, At, NewAt
<1>5. r \notin dispatched /\ r \notin attempted /\ holder[k] # r
  BY DEF IInv, At, NewAt
<1>6. At(r)'
  BY <1>4, <1>5 DEF At, NewAt, ReservingAt, FreshAt, UpstreamAt, SettlingAt, ResolvingAt, EndedAt
<1>7. ASSUME NEW c \in wire', c.by = r
      PROVE  Meant(c)'
  <2>1. c = c0 /\ \A d \in wire' : d.by = r => d = c
    BY <1>1, <1>7 DEF Silent
  <2>2. QED
    BY <1>4, <1>5, <2>1 DEF Meant, store
<1>8. MeteredOnce'
  <2>1. \A q \in dispatched : key'[q] = key[q]
    BY <1>5 DEF IInv, TypeOK
  <2>2. QED
    BY <2>1, MeteredKeeps
<1>9. CapacityExact'
  <2>1. Counted' = Counted
    BY <1>5 DEF Counted, IInv, TypeOK
  <2>2. QED
    BY <2>1, SameCount
<1>10. QED
  BY <1>2, <1>3, <1>6, <1>7, <1>8, <1>9 DEF IInv

LEMMA AbortKeeps ==
    ASSUME IInv, NEW r \in Requests, Abort(r)
    PROVE  IInv'
<1>. USE DEF Abort, store
<1>1. TypeOK'
  BY DEF IInv, TypeOK, Store!HoldsTypeOK
<1>2. \A q \in Requests : At(q)'
  BY DEF IInv, At, NewAt, ReservingAt, FreshAt, UpstreamAt, SettlingAt, ResolvingAt, EndedAt, Silent, Owns,
     Committed, Resolved
<1>3. \A c \in wire' : Meant(c)'
  BY DEF IInv, Meant, Owns, Committed
<1>4. MeteredOnce' /\ CapacityExact'
  BY MeteredKeeps DEF IInv, CapacityExact
<1>5. QED
  BY <1>1, <1>2, <1>3, <1>4 DEF IInv

LEMMA DispatchKeeps ==
    ASSUME IInv, NEW r \in Requests, Dispatch(r)
    PROVE  IInv'
<1>. USE DEF Dispatch, Goto, Await, HasRoom
<1>1. /\ pc' = [pc EXCEPT ![r] = "upstream"] /\ dispatched' = dispatched \cup {r}
      /\ answer' = [answer EXCEPT ![r] = "none"] /\ wire' = wire /\ key' = key /\ UNCHANGED store
  OBVIOUS
<1>2. /\ holder[key[r]] = r /\ hold[key[r]] = "reserved" /\ Silent(r)
      /\ key[r] \in Keys /\ r \notin dispatched /\ r \notin attempted
  BY DEF IInv, TypeOK, At, NewAt, FreshAt, ReservingAt
<1>3. TypeOK'
  <2>1. pc' \in [Requests -> Running \cup {"new", "done"}] /\ answer' \in [Requests -> Answers]
    BY <1>1 DEF IInv, TypeOK, Running, Answers
  <2>2. active' \in 0..MaxConcurrency /\ sent' \in [Keys -> Nat]
    BY <1>2, GatewayAssumption DEF IInv, TypeOK
  <2>3. QED
    BY <1>1, <2>1, <2>2 DEF IInv, TypeOK, store, Store!HoldsTypeOK
<1>4. /\ \A q \in Requests \ {r} : At(q)'
      /\ \A c \in wire' : c.by # r => Meant(c)'
  BY <1>1, <1>3, OthersKeep DEF TypeOK, IInv
<1>5. pc'[r] = "upstream" /\ answer'[r] = "none" /\ Silent(r)'
  BY <1>1, <1>2 DEF IInv, TypeOK, Silent
<1>6. At(r)'
  <2>1. key[r] # NoKey
    BY DEF IInv, At, NewAt
  <2>2. QED
    BY <1>1, <1>2, <1>5, <2>1
    DEF At, NewAt, ReservingAt, FreshAt, UpstreamAt, SettlingAt, ResolvingAt, EndedAt, store
<1>7. \A c \in wire' : c.by # r
  BY <1>5 DEF Silent
<1>8. MeteredOnce'
  <2>1. ASSUME NEW q \in dispatched', key[q] \notin RequestKeys
        PROVE  Owns(q)'
    BY <1>1, <1>2, <2>1 DEF IInv, MeteredOnce, Owns, store
  <2>2. ASSUME NEW k \in Keys \ RequestKeys
        PROVE  sent'[k] = 0 \/ (sent'[k] = 1 /\ \E q \in dispatched' : key[q] = k)
    <3>1. CASE k = key[r]
      <4>1. \A q \in dispatched : key[q] # k
        BY <1>2, <2>2, <3>1 DEF IInv, MeteredOnce, Owns
      <4>2. sent[k] = 0
        BY <4>1, <2>2 DEF IInv, MeteredOnce
      <4>3. QED
        BY <1>1, <3>1, <4>2 DEF IInv, TypeOK
    <3>2. CASE k # key[r]
      BY <1>1, <1>2, <2>2, <3>2 DEF IInv, TypeOK, MeteredOnce
    <3>3. QED
      BY <3>1, <3>2
  <2>3. QED
    BY <1>1, <2>1, <2>2 DEF MeteredOnce
<1>9. CapacityExact'
  <2>1. Counted' = Counted \cup {r} /\ r \notin Counted
    BY <1>1, <1>2 DEF Counted, IInv, TypeOK, Running
  <2>2. Cardinality(Counted') = Cardinality(Counted) + 1
    BY <2>1, CountedFinite, FS_AddElement
  <2>3. QED
    BY <2>2, CountedFinite, GatewayAssumption DEF IInv, TypeOK, CapacityExact, Counted
<1>10. QED
  BY <1>3, <1>4, <1>6, <1>7, <1>8, <1>9 DEF IInv

LEMMA DeclineKeeps ==
    ASSUME IInv, NEW r \in Requests, Decline(r) \/ UpstreamFails(r)
    PROVE  IInv'
<1>1. /\ pc[r] \in {"reserving", "upstream"}
      /\ holder[key[r]] = r /\ hold[key[r]] = "reserved" /\ Silent(r) /\ r \notin attempted
  BY DEF Decline, UpstreamFails, IInv, At, FreshAt, ReservingAt, UpstreamAt
<1>2. Owns(r) /\ \A c \in wire : c.by = r => c.op = "settle"
  BY <1>1 DEF Owns, Silent
<1>3. QED
  BY <1>1, <1>2, FailKeeps DEF Decline, UpstreamFails

LEMMA CompletesKeeps ==
    ASSUME IInv, NEW r \in Requests, UpstreamCompletes(r)
    PROVE  IInv'
<1>. DEFINE c0 == [by |-> r, op |-> "settle"]
<1>. USE DEF UpstreamCompletes, Goto, Send, RequestMode
<1>1. /\ pc' = [pc EXCEPT ![r] = "settling"] /\ wire' = wire \cup {c0} /\ c0 \in Call
      /\ key' = key /\ dispatched' = dispatched /\ answer' = answer /\ UNCHANGED store
  BY DEF Call
<1>2. /\ holder[key[r]] = r /\ hold[key[r]] = "reserved" /\ Silent(r)
      /\ answer[r] = "none" /\ r \in dispatched
  BY DEF IInv, At, FreshAt, UpstreamAt
<1>3. TypeOK'
  <2>1. pc' \in [Requests -> Running \cup {"new", "done"}]
    BY <1>1 DEF IInv, TypeOK, Running
  <2>2. wire' \subseteq Call
    BY <1>1 DEF IInv, TypeOK
  <2>3. attempted' \subseteq Requests
    BY DEF IInv, TypeOK
  <2>4. QED
    BY <1>1, <2>1, <2>2, <2>3 DEF IInv, TypeOK, store, Store!HoldsTypeOK
<1>4. /\ \A q \in Requests \ {r} : At(q)'
      /\ \A c \in wire' : c.by # r => Meant(c)'
  BY <1>1, <1>3, OthersKeep DEF TypeOK, IInv
<1>5. pc'[r] = "settling" /\ Owns(r)' /\ Committed(r)'
  BY <1>1, <1>2 DEF IInv, TypeOK, Owns, Committed, store
<1>6. \A c \in wire' : c.by = r => c = c0
  BY <1>1, <1>2 DEF Silent
<1>7. At(r)'
  <2>1. key[r] # NoKey
    BY DEF IInv, At, NewAt
  <2>2. QED
    BY <1>1, <1>2, <1>5, <1>6, <2>1
    DEF At, NewAt, ReservingAt, FreshAt, UpstreamAt, SettlingAt, ResolvingAt, EndedAt
<1>8. \A c \in wire' : c.by = r => Meant(c)'
  BY <1>1, <1>2, <1>5, <1>6 DEF Meant
<1>9. CapacityExact'
  <2>1. Counted' = Counted
    BY <1>1 DEF Counted, IInv, TypeOK, Running
  <2>2. QED
    BY <2>1, SameCount
<1>10. QED
  BY <1>3, <1>4, <1>7, <1>8, <1>9, MeteredKeeps DEF IInv

\* A request ends without another call to the store.
LEMMA EndKeeps ==
    ASSUME IInv, NEW r \in Requests, pc[r] \in Running, Goto(r, "done"), Await(r),
           UNCHANGED <<key, aborted, dispatched, attempted, wire, store, sent>>,
           CapacityExact' /\ active' \in 0..MaxConcurrency,
           troubled' = troubled \/ troubled' = troubled \cup {r},
           r \notin troubled' => Resolved(r),
           pc[r] = "reserving" /\ ~Silent(r) => r \in troubled'
    PROVE  IInv'
<1>1. pc' = [pc EXCEPT ![r] = "done"] /\ answer' = [answer EXCEPT ![r] = "none"]
  BY DEF Goto, Await
<1>2. TypeOK'
  <2>1. pc' \in [Requests -> Running \cup {"new", "done"}] /\ answer' \in [Requests -> Answers]
    BY <1>1 DEF IInv, TypeOK, Answers
  <2>2. QED
    BY <2>1 DEF IInv, TypeOK, store, Store!HoldsTypeOK
<1>3. /\ \A q \in Requests \ {r} : At(q)'
      /\ \A c \in wire' : c.by # r => Meant(c)'
  BY <1>1, <1>2, OthersKeep DEF TypeOK, IInv
<1>4. pc'[r] = "done" /\ answer'[r] = "none" /\ pc[r] # "new"
  BY <1>1 DEF IInv, TypeOK, Running
<1>5. (Owns(r)' <=> Owns(r)) /\ (Committed(r)' <=> Committed(r)) /\ (Resolved(r)' <=> Resolved(r))
  BY DEF Owns, Committed, Resolved, store
<1>6. At(r)'
  <2>1. key[r] # NoKey
    BY <1>4 DEF IInv, At, NewAt
  <2>2. QED
    BY <1>4, <1>5, <2>1 DEF At, NewAt, ReservingAt, FreshAt, UpstreamAt, SettlingAt, ResolvingAt, EndedAt
<1>7. ASSUME NEW c \in wire', c.by = r
      PROVE  Meant(c)'
  <2>1. Meant(c) /\ ~Silent(r)
    BY <1>7 DEF IInv, Silent
  <2>2. c.op = "reserve" => r \in troubled'
    BY <1>7, <2>1 DEF Meant, Running
  <2>3. QED
    BY <1>4, <1>5, <1>7, <2>1, <2>2 DEF Meant, store
<1>8. QED
  BY <1>2, <1>3, <1>6, <1>7, MeteredKeeps DEF IInv

LEMMA UnservedKeeps ==
    ASSUME IInv, NEW r \in Requests, EndUnserved(r)
    PROVE  IInv'
<1>. USE DEF EndUnserved
<1>1. r \notin dispatched /\ Silent(r) /\ holder[key[r]] # r
  BY DEF IInv, At, ReservingAt
<1>2. Uncount(r) /\ pc[r] \in Running
  BY <1>1 DEF Uncount, Running
<1>3. CapacityExact' /\ active' \in 0..MaxConcurrency
  BY <1>2, EndsUncounted DEF Goto
<1>4. Resolved(r)
  BY <1>1 DEF Resolved
<1>5. QED
  BY <1>1, <1>2, <1>3, <1>4, EndKeeps

LEMMA SettlementKeeps ==
    ASSUME IInv, NEW r \in Requests, SettlementKnown(r)
    PROVE  IInv'
<1>. USE DEF SettlementKnown
<1>1. Owns(r) /\ Committed(r) /\ \A c \in wire : c.by = r => c.op = "settle"
  BY DEF IInv, At, SettlingAt
<1>2. CASE answer[r] = "ok" /\ Goto(r, "done") /\ Uncount(r) /\ Await(r) /\ UNCHANGED wire
  <2>1. Resolved(r)
    BY <1>2 DEF IInv, At, SettlingAt, Resolved
  <2>2. CapacityExact' /\ active' \in 0..MaxConcurrency
    BY <1>2, EndsUncounted DEF Goto, Running
  <2>3. QED
    BY <1>2, <2>1, <2>2, EndKeeps DEF Running
<1>3. CASE answer[r] = "refused" /\ Fail(r) /\ UNCHANGED active
  <2>1. r \in troubled
    BY <1>3 DEF IInv, At, SettlingAt
  <2>2. QED
    BY <1>1, <1>3, <2>1, FailKeeps
<1>4. QED
  BY <1>2, <1>3

LEMMA ResolutionKeeps ==
    ASSUME IInv, NEW r \in Requests, ResolutionKnown(r)
    PROVE  IInv'
<1>. USE DEF ResolutionKnown
<1>1. r \notin troubled' => Resolved(r)
  BY DEF IInv, At, ResolvingAt, EndedAt
<1>2. CapacityExact' /\ active' \in 0..MaxConcurrency
  BY EndsUncounted DEF Goto, Running
<1>3. QED
  BY <1>1, <1>2, EndKeeps DEF Running

LEMMA GiveUpKeeps ==
    ASSUME IInv, NEW r \in Requests, GiveUp(r)
    PROVE  IInv'
<1>. USE DEF GiveUp
<1>1. CASE pc[r] = "settling" /\ Fail(r) /\ UNCHANGED active
  <2>1. Owns(r) /\ Committed(r) /\ \A c \in wire : c.by = r => c.op = "settle"
    BY <1>1 DEF IInv, At, SettlingAt
  <2>2. QED
    BY <1>1, <2>1, FailKeeps
<1>2. CASE pc[r] # "settling" /\ Goto(r, "done") /\ Uncount(r) /\ Await(r) /\ UNCHANGED wire
  <2>1. pc[r] \in Running
    BY DEF Timed, Running
  <2>2. CapacityExact' /\ active' \in 0..MaxConcurrency
    BY <1>2, <2>1, EndsUncounted DEF Goto
  <2>3. QED
    BY <1>2, <2>1, <2>2, EndKeeps
<1>3. QED
  BY <1>1, <1>2

-----------------------------------------------------------------------------
(* Steps of the store *)

\* What a step of the store for another request leaves alone of q's hold.
Aside(q, r) ==
    /\ holder'[key[q]] = q => holder[key[q]] = q /\ hold'[key[q]] = hold[key[q]]
    /\ Owns(q) => holder'[key[q]] = q /\ hold'[key[q]] = hold[key[q]]
    /\ \A k \in Keys : holder'[k] \in {holder[k], r}

LEMMA OthersAside ==
    ASSUME IInv, NEW c \in wire, UNCHANGED <<handlers, sent>>, wire' = wire \ {c}, TypeOK',
           \A q \in Requests \ {c.by} :
               /\ pc[q] # "new" => Aside(q, c.by)
               /\ \A k \in Keys : holder'[k] \in {holder[k], c.by}
               /\ answer'[q] = answer[q] /\ (q \in troubled' <=> q \in troubled),
           c.by \in dispatched /\ key[c.by] \notin RequestKeys => Owns(c.by)',
           At(c.by)', \A d \in wire' : d.by = c.by => Meant(d)'
    PROVE  IInv'
<1>. USE DEF handlers
<1>1. ASSUME NEW q \in Requests \ {c.by}
      PROVE  At(q)'
  <2>1. At(q) /\ (Silent(q) => Silent(q)') /\ (Committed(q)' <=> Committed(q))
    BY DEF IInv, Silent, Committed
  <2>2. CASE pc[q] = "new"
    BY <2>1, <2>2 DEF At, NewAt, ReservingAt, FreshAt, UpstreamAt, SettlingAt, ResolvingAt, EndedAt
  <2>3. CASE pc[q] # "new"
    <3>1. Aside(q, c.by) /\ (Owns(q) => Owns(q)') /\ (Resolved(q) => Resolved(q)')
      BY <2>3 DEF Aside, Owns, Resolved
    <3>2. NewAt(q)' /\ ReservingAt(q)' /\ FreshAt(q)' /\ UpstreamAt(q)'
      BY <2>1, <2>3, <3>1 DEF At, NewAt, ReservingAt, FreshAt, UpstreamAt, Aside, Owns
    <3>3. SettlingAt(q)' /\ ResolvingAt(q)' /\ EndedAt(q)'
      BY <2>1, <2>3, <3>1 DEF At, SettlingAt, ResolvingAt, EndedAt, Aside
    <3>4. QED
      BY <3>2, <3>3 DEF At
  <2>4. QED
    BY <2>2, <2>3
<1>2. ASSUME NEW d \in wire', d.by # c.by
      PROVE  Meant(d)'
  <2>1. d \in wire /\ Meant(d) /\ d.by \in Requests \ {c.by} /\ pc[d.by] # "new"
    BY <1>2 DEF IInv, TypeOK, Call, Meant
  <2>2. (Owns(d.by) => Owns(d.by)') /\ (Committed(d.by)' <=> Committed(d.by))
    BY <2>1 DEF Aside, Owns, Committed
  <2>3. QED
    BY <2>1, <2>2 DEF Meant, Aside
<1>3. MeteredOnce'
  <2>1. ASSUME NEW q \in dispatched, key[q] \notin RequestKeys
        PROVE  Owns(q)'
    <3>1. q \in Requests /\ Owns(q) /\ pc[q] # "new"
      BY <2>1 DEF IInv, TypeOK, MeteredOnce, At, NewAt
    <3>2. QED
      BY <2>1, <3>1 DEF Aside, Owns
  <2>2. QED
    BY <2>1 DEF IInv, MeteredOnce
<1>4. CapacityExact'
  BY DEF IInv, CapacityExact
<1>5. QED
  BY <1>1, <1>2, <1>3, <1>4 DEF IInv

\* The answer to a reserve call.
LEMMA Reserved ==
    ASSUME IInv, NEW c \in wire, c.op = "reserve", NEW x \in Answers \ {"none"}, Reply(c, x),
           x = "fresh" => holder'[key[c.by]] = c.by /\ hold'[key[c.by]] = "reserved",
           x # "fresh" => holder'[key[c.by]] # c.by,
           troubled' = troubled
    PROVE  /\ At(c.by)'
           /\ \A d \in wire' : d.by # c.by
<1>. DEFINE r == c.by
<1>. USE DEF Reply, Consumed, handlers
<1>1. Meant(c) /\ At(r) /\ r \in Requests /\ pc[r] # "new"
  BY DEF IInv, TypeOK, Call, Meant
<1>2. Silent(r)' /\ \A d \in wire' : d.by # r
  BY <1>1 DEF Meant, Silent
<1>3. CASE pc[r] = "reserving" /\ answer[r] = "none"
  <2>1. answer'[r] = x
    BY <1>1, <1>3 DEF Awaited, IInv, TypeOK
  <2>2. QED
    BY <1>1, <1>2, <1>3, <2>1
    DEF At, NewAt, ReservingAt, FreshAt, UpstreamAt, SettlingAt, ResolvingAt, EndedAt
<1>4. CASE pc[r] = "done" /\ r \in troubled
  BY <1>1, <1>2, <1>4 DEF At, NewAt, ReservingAt, FreshAt, UpstreamAt, SettlingAt, ResolvingAt, EndedAt
<1>5. QED
  BY <1>1, <1>2, <1>3, <1>4 DEF Meant

\* The answer to a call that resolves a hold.
LEMMA Resolving ==
    ASSUME IInv, NEW c \in wire, c.op # "reserve", NEW x \in {"ok", "refused"}, Reply(c, x),
           troubled \subseteq troubled', x = "refused" => c.by \in troubled',
           pc[c.by] = "settling" /\ (x = "ok" \/ answer[c.by] = "ok") => hold'[key[c.by]] = "settled",
           c.op = "release" \/ Owns(c.by)',
           x = "ok" /\ c.by \notin troubled /\ pc[c.by] # "settling" => Resolved(c.by)'
    PROVE  At(c.by)' /\ \A d \in wire' : d.by = c.by => Meant(d)'
<1>. DEFINE r == c.by
<1>. USE DEF Reply, Consumed, handlers
<1>1. /\ Meant(c) /\ At(r) /\ r \in Requests /\ key[r] # NoKey
      /\ pc[r] \in {"settling", "resolving", "done"}
  BY DEF IInv, TypeOK, Call, Meant, At, NewAt
<1>2. answer'[r] = x \/ answer'[r] = answer[r]
  BY <1>1 DEF IInv, TypeOK
<1>3. Committed(r)' <=> Committed(r)
  BY DEF Committed
<1>4. SettlingAt(r)'
  BY <1>1, <1>2, <1>3 DEF At, SettlingAt, Meant, Call, IInv, TypeOK
<1>5. ResolvingAt(r)' /\ EndedAt(r)'
  <2>1. ResolvingAt(r)'
    BY <1>1, <1>2 DEF At, ResolvingAt
  <2>2. ASSUME pc[r] # "settling", r \notin troubled'
        PROVE  Resolved(r)'
    BY <1>1, <2>2
  <2>3. QED
    BY <2>1, <2>2 DEF EndedAt
<1>6. At(r)'
  BY <1>1, <1>4, <1>5 DEF At, NewAt, ReservingAt, FreshAt, UpstreamAt
<1>7. ASSUME NEW d \in wire', d.by = r
      PROVE  Meant(d)'
  <2>1. d \in wire /\ d # c /\ Meant(d) /\ c.op # "release" /\ d.op # "reserve" /\ d.op # "release"
    BY <1>1, <1>7 DEF IInv, Meant
  <2>2. QED
    BY <1>1, <1>3, <1>7, <2>1 DEF Meant
<1>8. QED
  BY <1>6, <1>7

\* The call on the wire comes from a request that is under way, and its key is known.
LEMMA Caller ==
    ASSUME IInv, NEW c \in wire
    PROVE  /\ c \in Call /\ c.by \in Requests /\ Meant(c) /\ key[c.by] \in Keys
           /\ \A q \in Requests : pc[q] # "new" => key[q] \in Keys
           /\ hold \in [Keys -> Store!Status] /\ holder \in [Keys -> Requests \cup {Nobody}]
  BY DEF IInv, TypeOK, Call, Meant, At, NewAt, Store!HoldsTypeOK

LEMMA ReplyTypes ==
    ASSUME IInv, NEW c \in wire, NEW x \in Answers, Reply(c, x),
           troubled' = troubled \/ troubled' = troubled \cup {c.by},
           hold' \in [Keys -> Store!Status], holder' \in [Keys -> Requests \cup {Nobody}]
    PROVE  TypeOK'
<1>1. answer' \in [Requests -> Answers] /\ wire' \subseteq Call
  BY Caller DEF Reply, Consumed, IInv, TypeOK
<1>2. troubled' \subseteq Requests
  BY Caller DEF IInv, TypeOK
<1>3. QED
  BY <1>1, <1>2 DEF Reply, handlers, IInv, TypeOK, Store!HoldsTypeOK

LEMMA OpensKeeps ==
    ASSUME IInv, NEW c \in wire, StoreOpens(c)
    PROVE  IInv'
<1>. DEFINE r == c.by
            k == key[r]
<1>. USE DEF StoreOpens
<1>1. /\ c.op = "reserve" /\ hold[k] \in {"none", "released"}
      /\ hold' = [hold EXCEPT ![k] = "reserved"] /\ holder' = [holder EXCEPT ![k] = r]
      /\ troubled' = troubled /\ Reply(c, "fresh")
  BY DEF Store!Open
<1>2. TypeOK'
  BY <1>1, Caller, ReplyTypes DEF Answers, Store!Status
<1>3. holder'[k] = r /\ hold'[k] = "reserved"
  BY <1>1, Caller
<1>4. At(r)' /\ \A d \in wire' : d.by # r
  BY <1>1, <1>3, Reserved DEF Answers
<1>5. ASSUME NEW q \in Requests \ {r}
      PROVE  /\ pc[q] # "new" => Aside(q, r)
             /\ \A l \in Keys : holder'[l] \in {holder[l], r}
             /\ answer'[q] = answer[q]
  BY <1>1, Caller DEF Aside, Owns, Reply, IInv, TypeOK
<1>6. Owns(r)'
  BY <1>1, <1>3 DEF Owns, Reply, handlers
<1>7. QED
  BY <1>1, <1>2, <1>4, <1>5, <1>6, OthersAside DEF Reply, Consumed

\* An answer that changes nothing in the store.
LEMMA SameStore ==
    ASSUME IInv, NEW c \in wire, UNCHANGED store, NEW x \in Answers, Reply(c, x)
    PROVE  /\ \A q \in Requests \ {c.by} :
                  /\ pc[q] # "new" => Aside(q, c.by)
                  /\ \A l \in Keys : holder'[l] \in {holder[l], c.by}
                  /\ answer'[q] = answer[q]
           /\ Owns(c.by) <=> Owns(c.by)'
           /\ Resolved(c.by) <=> Resolved(c.by)'
           /\ c.by \in dispatched /\ key[c.by] \notin RequestKeys => Owns(c.by)'
  BY Caller DEF Aside, Owns, Resolved, Reply, handlers, store, IInv, TypeOK, MeteredOnce

LEMMA KnowsKeeps ==
    ASSUME IInv, NEW c \in wire, StoreKnows(c)
    PROVE  IInv'
<1>. DEFINE x == hold[key[c.by]]
<1>. USE DEF StoreKnows
<1>1. x \in Answers \ {"none", "fresh"}
  BY Caller DEF Answers, Store!Status
<1>2. TypeOK'
  BY <1>1, Caller, ReplyTypes DEF store
<1>3. At(c.by)' /\ \A d \in wire' : d.by # c.by
  <2>1. holder'[key[c.by]] # c.by
    BY Caller DEF Meant, store
  <2>2. QED
    BY <1>1, <2>1, Reserved
<1>4. QED
  BY <1>1, <1>2, <1>3, SameStore, OthersAside DEF Reply, Consumed

LEMMA RefusesKeeps ==
    ASSUME IInv, NEW c \in wire, StoreRefuses(c)
    PROVE  IInv'
<1>. USE DEF StoreRefuses
<1>1. TypeOK'
  BY Caller, ReplyTypes DEF store, Answers
<1>2. At(c.by)' /\ \A d \in wire' : d.by = c.by => Meant(d)'
  <2>1. CASE c.op = "reserve"
    <3>1. holder'[key[c.by]] # c.by
      BY <2>1, Caller DEF Meant, store
    <3>2. QED
      BY <2>1, <3>1, Reserved DEF Answers
  <2>2. CASE c.op # "reserve"
    <3>1. Owns(c.by)'
      BY <2>2, Caller, SameStore DEF Meant, Answers
    <3>2. pc[c.by] = "settling" /\ answer[c.by] = "ok" => hold'[key[c.by]] = "settled"
      BY Caller DEF IInv, At, SettlingAt, store
    <3>3. QED
      BY <2>2, <3>1, <3>2, Resolving
  <2>3. QED
    BY <2>1, <2>2
<1>3. QED
  BY <1>1, <1>2, SameStore, OthersAside DEF Reply, Consumed, Answers

\* A step on the hold of the caller, which others do not own.
LEMMA OwnHold ==
    ASSUME IInv, NEW c \in wire, c.op # "reserve", NEW s \in Store!Status,
           hold' = [hold EXCEPT ![key[c.by]] = s], holder' = holder, NEW x \in Answers, Reply(c, x)
    PROVE  /\ \A q \in Requests \ {c.by} :
                  /\ pc[q] # "new" => Aside(q, c.by)
                  /\ \A l \in Keys : holder'[l] \in {holder[l], c.by}
                  /\ answer'[q] = answer[q]
           /\ hold'[key[c.by]] = s /\ holder'[key[c.by]] = c.by
           /\ hold' \in [Keys -> Store!Status] /\ holder' \in [Keys -> Requests \cup {Nobody}]
<1>1. holder[key[c.by]] = c.by
  BY Caller DEF Meant, Owns
<1>2. QED
  BY <1>1, Caller DEF Aside, Owns, Reply, IInv, TypeOK

LEMMA ChargesKeeps ==
    ASSUME IInv, NEW c \in wire, StoreCharges(c)
    PROVE  IInv'
<1>. DEFINE r == c.by
<1>. USE DEF StoreCharges, Store!Charge
<1>1. "settled" \in Store!Status /\ "ok" \in Answers
  BY DEF Store!Status, Answers
<1>2. TypeOK'
  BY <1>1, OwnHold, ReplyTypes
<1>3. Owns(r)'
  BY <1>1, OwnHold DEF Owns, Reply, handlers
<1>4. Resolved(r)'
  BY <1>1, OwnHold, Caller DEF Resolved, Reply, handlers, Meant
<1>5. At(r)' /\ \A d \in wire' : d.by = r => Meant(d)'
  BY <1>1, <1>3, <1>4, OwnHold, Resolving
<1>6. QED
  BY <1>1, <1>2, <1>3, <1>5, OwnHold, OthersAside DEF Reply, Consumed

LEMMA DoubtsKeeps ==
    ASSUME IInv, NEW c \in wire, StoreDoubts(c)
    PROVE  IInv'
<1>. DEFINE r == c.by
<1>. USE DEF StoreDoubts, Store!Doubt
<1>1. "uncertain" \in Store!Status /\ "ok" \in Answers
  BY DEF Store!Status, Answers
<1>2. TypeOK'
  BY <1>1, OwnHold, ReplyTypes
<1>3. Owns(r)'
  BY <1>1, OwnHold DEF Owns, Reply, handlers
<1>4. pc[r] # "settling" /\ (r \notin troubled => Resolved(r)')
  BY <1>1, OwnHold, Caller DEF Resolved, Reply, handlers, Meant, Committed
<1>5. At(r)' /\ \A d \in wire' : d.by = r => Meant(d)'
  BY <1>1, <1>3, <1>4, Resolving
<1>6. QED
  BY <1>1, <1>2, <1>3, <1>5, OwnHold, OthersAside, ZenonT(40) DEF Reply, Consumed

LEMMA GivesBackKeeps ==
    ASSUME IInv, NEW c \in wire, StoreGivesBack(c)
    PROVE  IInv'
<1>. DEFINE r == c.by
<1>. USE DEF StoreGivesBack, Store!GiveBack
<1>1. "released" \in Store!Status /\ "ok" \in Answers
  BY DEF Store!Status, Answers
<1>2. TypeOK'
  BY <1>1, OwnHold, ReplyTypes
<1>3. /\ pc[r] # "settling" /\ Resolved(r)'
      /\ ~(r \in dispatched /\ key[r] \notin RequestKeys)
  BY <1>1, OwnHold, Caller DEF Resolved, Reply, handlers, Meant, Committed
<1>4. At(r)' /\ \A d \in wire' : d.by = r => Meant(d)'
  BY <1>1, <1>3, Resolving
<1>5. QED
  BY <1>1, <1>2, <1>3, <1>4, OwnHold, OthersAside, ZenonT(40) DEF Reply, Consumed

LEMMA RepeatsKeeps ==
    ASSUME IInv, NEW c \in wire, StoreRepeats(c)
    PROVE  IInv'
<1>. DEFINE r == c.by
<1>. USE DEF StoreRepeats
<1>1. /\ c.op \in {"settle", "mark"} /\ Owns(r)
      /\ c.op = "settle" => hold[key[r]] = "settled"
      /\ c.op = "mark" => hold[key[r]] # "reserved" /\ pc[r] # "settling"
  BY Caller DEF Meant, Owns
<1>2. TypeOK'
  BY Caller, ReplyTypes DEF store, Answers
<1>3. Owns(r)'
  BY <1>1, SameStore DEF Answers
<1>4. r \notin troubled => Resolved(r)'
  BY <1>1, Caller, SameStore DEF Resolved, Meant, Committed, Owns, Answers
<1>5. pc[r] = "settling" => hold'[key[r]] = "settled"
  BY <1>1 DEF store
<1>6. At(r)' /\ \A d \in wire' : d.by = r => Meant(d)'
  BY <1>1, <1>3, <1>4, <1>5, Resolving
<1>7. QED
  BY <1>2, <1>6, SameStore, OthersAside DEF Reply, Consumed, Answers

LEMMA LoseKeeps ==
    ASSUME IInv, NEW c \in wire, LoseCall(c)
    PROVE  IInv'
<1>. USE DEF LoseCall, handlers, store
<1>1. TypeOK'
  BY Caller DEF IInv, TypeOK, Store!HoldsTypeOK
<1>2. ASSUME NEW q \in Requests
      PROVE  At(q)'
  <2>1. /\ At(q) /\ (Silent(q) => Silent(q)') /\ (Owns(q)' <=> Owns(q))
        /\ (Committed(q)' <=> Committed(q)) /\ (Resolved(q)' <=> Resolved(q))
    BY DEF IInv, Silent, Owns, Committed, Resolved
  <2>2. QED
    BY <2>1 DEF At, NewAt, ReservingAt, FreshAt, UpstreamAt, SettlingAt, ResolvingAt, EndedAt
<1>3. \A d \in wire' : Meant(d)'
  BY DEF IInv, Meant, Owns, Committed
<1>4. MeteredOnce' /\ CapacityExact'
  BY MeteredKeeps DEF IInv, CapacityExact
<1>5. QED
  BY <1>1, <1>2, <1>3, <1>4 DEF IInv

LEMMA CrashKeeps ==
    ASSUME IInv, Crash
    PROVE  IInv'
<1>. USE DEF Crash
<1>1. TypeOK'
  BY GatewayAssumption DEF IInv, TypeOK, Answers, Running, store, Store!HoldsTypeOK
<1>2. ASSUME NEW q \in Requests
      PROVE  /\ answer'[q] = "none"
             /\ pc[q] = "new" => pc'[q] = "new"
             /\ pc[q] # "new" => pc'[q] = "done" /\ (pc[q] = "done" \/ q \in troubled')
  BY DEF IInv, TypeOK, Running
<1>3. ASSUME NEW q \in Requests
      PROVE  At(q)'
  <2>1. At(q) /\ (Silent(q)' <=> Silent(q)) /\ (Resolved(q)' <=> Resolved(q))
    BY DEF IInv, Silent, Resolved, store
  <2>2. NewAt(q)'
    BY <1>2, <2>1 DEF At, NewAt, store
  <2>3. EndedAt(q)'
    BY <1>2, <2>1 DEF At, EndedAt
  <2>4. QED
    BY <1>2, <2>2, <2>3 DEF At, ReservingAt, FreshAt, UpstreamAt, SettlingAt, ResolvingAt
<1>4. ASSUME NEW d \in wire'
      PROVE  Meant(d)'
  <2>1. /\ Meant(d) /\ d.by \in Requests /\ wire' = wire
        /\ (Owns(d.by)' <=> Owns(d.by)) /\ (Committed(d.by)' <=> Committed(d.by))
    BY Caller DEF Owns, Committed, store
  <2>2. pc'[d.by] = "done" /\ (pc[d.by] = "reserving" => d.by \in troubled') /\ troubled \subseteq troubled'
    BY <1>2, <2>1 DEF Meant
  <2>3. QED
    BY <2>1, <2>2 DEF Meant, store
<1>5. CapacityExact'
  <2>1. {r \in dispatched' : pc'[r] \in Running} = {}
    <3>1. \A r \in dispatched' : pc'[r] \in {"new", "done"}
      BY <1>2 DEF IInv, TypeOK
    <3>2. QED
      BY <3>1 DEF Running
  <2>2. QED
    BY <2>1, FS_EmptySet, GatewayAssumption DEF CapacityExact
<1>6. QED
  BY <1>1, <1>3, <1>4, <1>5, MeteredKeeps DEF IInv

-----------------------------------------------------------------------------
(* Every step *)

LEMMA StepKeeps == IInv /\ [Next]_vars => IInv'
<1>. SUFFICES ASSUME IInv, [Next]_vars
              PROVE  IInv'
  OBVIOUS
<1>1. ASSUME NEW r \in Requests, NEW k \in Keys, Arrive(r, k)
      PROVE  IInv'
  BY <1>1, ArriveKeeps
<1>2. ASSUME NEW r \in Requests, Abort(r)
      PROVE  IInv'
  BY <1>2, AbortKeeps
<1>3. ASSUME NEW r \in Requests, Continue(r)
      PROVE  IInv'
  BY <1>3, UnservedKeeps, DeclineKeeps, DispatchKeeps, SettlementKeeps, ResolutionKeeps DEF Continue
<1>4. ASSUME NEW r \in Requests, UpstreamEnds(r)
      PROVE  IInv'
  BY <1>4, DeclineKeeps, CompletesKeeps DEF UpstreamEnds
<1>5. ASSUME NEW r \in Requests, GiveUp(r)
      PROVE  IInv'
  BY <1>5, GiveUpKeeps
<1>6. ASSUME NEW c \in wire, StoreStep(c)
      PROVE  IInv'
  BY <1>6, OpensKeeps, KnowsKeeps, ChargesKeeps, DoubtsKeeps, GivesBackKeeps, RepeatsKeeps, RefusesKeeps
  DEF StoreStep
<1>7. ASSUME NEW c \in wire, LoseCall(c)
      PROVE  IInv'
  BY <1>7, LoseKeeps
<1>8. ASSUME Crash
      PROVE  IInv'
  BY <1>8, CrashKeeps
<1>9. ASSUME UNCHANGED vars
      PROVE  IInv'
  <2>. USE <1>9 DEF vars, handlers, store
  <2>1. TypeOK' /\ CapacityExact' /\ MeteredOnce'
    BY MeteredKeeps DEF IInv, TypeOK, CapacityExact, Store!HoldsTypeOK
  <2>2. \A q \in Requests : At(q)'
    BY DEF IInv, At, NewAt, ReservingAt, FreshAt, UpstreamAt, SettlingAt, ResolvingAt, EndedAt, Silent,
       Owns, Committed, Resolved
  <2>3. \A c \in wire' : Meant(c)'
    BY DEF IInv, Meant, Owns, Committed
  <2>4. QED
    BY <2>1, <2>2, <2>3 DEF IInv
<1>10. QED
  BY <1>1, <1>2, <1>3, <1>4, <1>5, <1>6, <1>7, <1>8, <1>9 DEF Next

\* The inductive invariant holds in every state of the gateway and its store
\* (handle in model-gateway.mjs, _rpc in supabase-store.mjs).
THEOREM Invariant == Spec => []IInv
<1>1. Init => IInv
  BY Initial
<1>2. IInv /\ [Next]_vars => IInv'
  BY StepKeeps
<1>3. QED
  BY <1>1, <1>2, PTL DEF Spec

\* The handlers, the calls under way and the holds keep their types, and the count of
\* running generations never leaves its limits (`active` in model-gateway.mjs).
THEOREM TypeCorrect == Spec => []TypeOK
<1>1. IInv => TypeOK
  BY DEF IInv
<1>2. QED
  BY <1>1, Invariant, PTL

\* A settle, release or mark that arrives late meets its own hold or a closed one, however
\* often the key's row was opened again (_rpc's unrepeated calls in supabase-store.mjs).
THEOREM NoStrayCalls == Spec => []NoStrayCall
<1>1. QED
  BY NoStray, Invariant, PTL

\* One key never has two generations at once, and a metered key is dispatched at most once
\* over every retry, lost answer and restart (handle in model-gateway.mjs).
THEOREM GeneratesOnce == Spec => []OneGeneration
<1>1. QED
  BY Once, Invariant, PTL

\* `active` counts exactly the dispatched requests that run, through every catch and
\* finally of handle in model-gateway.mjs.
THEOREM CountIsExact == Spec => []CapacityExact
<1>1. IInv => CapacityExact
  BY DEF IInv
<1>2. QED
  BY <1>1, Invariant, PTL

\* Unless storage failed it, a request that has ended left its hold settled, given back or
\* uncertain as its billing asks (the catch of handle in model-gateway.mjs).
THEOREM EndedAreResolved == Spec => []EndedIsResolved
<1>1. QED
  BY Ended, Invariant, PTL

=============================================================================
