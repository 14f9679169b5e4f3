------------------------------- MODULE SignIn -------------------------------
(***************************************************************************)
(* Sign-in by wallet or e-mail and the linking of a second identity: the   *)
(* /v1/auth and link routes of server.mjs, and the flows, challenges,      *)
(* email_challenges, sessions and accounts of store.mjs.                   *)
(*                                                                         *)
(* An app starts a flow; a browser page proves a wallet (by a signature)   *)
(* or an address (by an e-mailed code) on it; the app exchanges the flow   *)
(* for a session.  Each store call is a transaction; the check of a        *)
(* signature or of a Supabase code is an await between two of them.        *)
(*                                                                         *)
(* Lifetimes: a flow, challenge, code or session may lapse at any moment.  *)
(* Only the e-mail limits look at the clock.  Deleting a lapsed row is what*)
(* its lapse means already, but for codes, whose rows the limits count.    *)
(***************************************************************************)
EXTENDS Naturals, FiniteSets

CONSTANTS
    Flows, Wallets, Emails,
    Challenges,     \* IDs of wallet challenges
    Codes,          \* IDs of e-mail challenges
    Pages,          \* verification requests that await a check
    Attempts,       \* EMAIL_CODE_ATTEMPTS
    Cooldown, Window, PerAddress, PerService,   \* the limits of email.mjs
    MaxTime,        \* bound of the clock
    None

ASSUME SignInAssumption ==
    /\ IsFiniteSet(Codes)
    /\ Wallets \cap Emails = {} /\ Challenges \cap Codes = {}
    /\ Attempts \in Nat \ {0}
    /\ Cooldown \in Nat \ {0} /\ Window \in Nat /\ Cooldown <= Window
    /\ PerAddress \in Nat \ {0} /\ PerService \in Nat /\ MaxTime \in Nat
    /\ None \notin Flows \cup Wallets \cup Emails \cup Challenges \cup Codes

\* An account is named after the identity it was created with; its ID is random.
Accounts == Wallets \cup Emails

VARIABLES
    now,
    supabase,   \* Supabase sends and checks codes; else they are our own
    wallet,     \* accounts.wallet
    email,      \* accounts.email
    flow,       \* flow[f]: stage, account, and whether a signed-in account opened it
    asked,      \* asked[c]: a wallet challenge
    code,       \* code[k]: an e-mail challenge; "pending" in memory, then a row
    sessions,   \* live sessions, [flow, account]
    page,       \* page[p]: what a verification request awaits
    proved,     \* (flow, identity) pairs that were proved (history)
    used,       \* the challenges and codes by which something was proved (history)
    newest,     \* newest[f]: the challenge and code the flow requested last (history)
    issued,     \* (address, time, code) of each code that was sent (history)
    exchanged   \* exchanged[f]: sessions obtained from f (history)

identities == <<wallet, email>>
history == <<proved, used, newest, issued, exchanged>>
vars == <<now, supabase, wallet, email, flow, asked, code, sessions, page, history>>

Flow == [stage : {"unused", "open", "ended"}, account : Accounts \cup {None}, link : BOOLEAN]
Challenge == [stage : {"unused", "open", "void"}, flow : Flows \cup {None}, wallet : Wallets \cup {None}]
Code == [stage : {"unused", "pending", "open", "void", "deleted"}, flow : Flows \cup {None},
         email : Emails \cup {None}, created : Nat, wrong : 0..Attempts]
Page == [place : {"idle", "signing", "checking", "stored"}, flow : Flows \cup {None},
         proof : Challenges \cup Codes \cup {None}]
Session == [flow : Flows, account : Accounts]

Idle == [place |-> "idle", flow |-> None, proof |-> None]

TypeOK ==
    /\ now \in 0..MaxTime /\ supabase \in BOOLEAN
    /\ wallet \in [Accounts -> Wallets \cup {None}]
    /\ email \in [Accounts -> Emails \cup {None}]
    /\ flow \in [Flows -> Flow]
    /\ asked \in [Challenges -> Challenge]
    /\ code \in [Codes -> Code]
    /\ sessions \subseteq Session
    /\ page \in [Pages -> Page]
    /\ proved \subseteq Flows \X (Wallets \cup Emails)
    /\ used \subseteq Challenges \cup Codes
    /\ newest \in [Flows -> [wallet : Challenges \cup {None}, email : Codes \cup {None}]]
    /\ issued \subseteq Emails \X (0..MaxTime) \X Codes
    /\ exchanged \in [Flows -> Nat]

Init ==
    /\ now = 0 /\ supabase \in BOOLEAN
    /\ wallet = [a \in Accounts |-> None] /\ email = [a \in Accounts |-> None]
    /\ flow = [f \in Flows |-> [stage |-> "unused", account |-> None, link |-> FALSE]]
    /\ asked = [c \in Challenges |-> [stage |-> "unused", flow |-> None, wallet |-> None]]
    /\ code = [k \in Codes |-> [stage |-> "unused", flow |-> None, email |-> None, created |-> 0, wrong |-> 0]]
    /\ sessions = {}
    /\ page = [p \in Pages |-> Idle]
    /\ proved = {} /\ used = {}
    /\ newest = [f \in Flows |-> [wallet |-> None, email |-> None]]
    /\ issued = {}
    /\ exchanged = [f \in Flows |-> 0]

-----------------------------------------------------------------------------
(* Flows *)

\* getFlow
Live(f) == flow[f].stage = "open"

\* The account of the flow already has the identity that is to be proved.
HasWallet(f) == flow[f].account # None /\ wallet[flow[f].account] # None
HasEmail(f) == flow[f].account # None /\ email[flow[f].account] # None

StartFlow(f) ==
    /\ flow[f].stage = "unused"
    /\ flow' = [flow EXCEPT ![f] = [stage |-> "open", account |-> None, link |-> FALSE]]
    /\ UNCHANGED <<now, supabase, identities, asked, code, sessions, page, history>>

\* link-wallet and link-email/start: a flow that is bound to the session's account.
\* Its proof key is random, so nobody can exchange it.
LinkFlow(f) ==
    /\ flow[f].stage = "unused"
    /\ \E s \in sessions :
          flow' = [flow EXCEPT ![f] = [stage |-> "open", account |-> s.account, link |-> TRUE]]
    /\ UNCHANGED <<now, supabase, identities, asked, code, sessions, page, history>>

\* Slip: the flow can be exchanged again.
KeptOpen(f) == flow

Consumed(f) == [flow EXCEPT ![f].stage = "ended"]

Exchange(f) ==
    /\ Live(f) /\ ~flow[f].link
    /\ flow[f].account # None
    /\ flow' = Consumed(f)
    /\ sessions' = sessions \cup {[flow |-> f, account |-> flow[f].account]}
    /\ exchanged' = [exchanged EXCEPT ![f] = @ + 1]
    /\ UNCHANGED <<now, supabase, identities, asked, code, page, proved, used, newest, issued>>

\* logout, or an hour
EndSession(s) ==
    /\ sessions' = sessions \ {s}
    /\ UNCHANGED <<now, supabase, identities, flow, asked, code, page, history>>

-----------------------------------------------------------------------------
(* Proofs *)

\* The account that holds identity i in `column`, or a new one.
AccountOf(column, i) ==
    IF \E a \in Accounts : column[a] = i THEN CHOOSE a \in Accounts : column[a] = i ELSE i

\* attachWallet, attachEmail: the flow's account has no such identity, or this one, and
\* nobody else has it; accounts are never merged.
Attachable(f, column, i) ==
    LET a == flow[f].account
    IN  a # None => column[a] \in {None, i} /\ \A b \in Accounts : column[b] = i => b = a

\* Slip: the flow always goes to the account of the identity.
AccountOfLast(f, column, i) == AccountOf(column, i)

\* The account a proof is for: the flow's, once it has one.
Proves(f, column, i) == IF flow[f].account # None THEN flow[f].account ELSE AccountOf(column, i)

\* Identity i is proved for account a by the challenge or code x.
Record(f, i, a, x) ==
    /\ flow' = [flow EXCEPT ![f].account = a]
    /\ proved' = proved \cup {<<f, i>>}
    /\ used' = used \cup {x}

\* challenge: a new wallet challenge voids the flow's earlier ones.
Ask(f, w, c) ==
    /\ asked[c].stage = "unused"
    /\ Live(f) /\ ~HasWallet(f)
    /\ asked' = [d \in Challenges |->
                    IF d = c THEN [stage |-> "open", flow |-> f, wallet |-> w]
                    ELSE IF asked[d].flow = f THEN [asked[d] EXCEPT !.stage = "void"]
                    ELSE asked[d]]
    /\ newest' = [newest EXCEPT ![f].wallet = c]
    /\ UNCHANGED <<now, supabase, identities, flow, code, sessions, page, proved, used, issued, exchanged>>

\* Slip: the challenge is not looked at again after the signature was checked.
StoodBefore(f, c) == TRUE

\* getChallenge
Stands(f, c) == Live(f) /\ asked[c].stage = "open" /\ asked[c].flow = f

BeginVerify(p, f, c) ==
    /\ page[p] = Idle
    /\ Live(f) /\ asked[c].stage = "open" /\ asked[c].flow = f
    /\ page' = [page EXCEPT ![p] = [place |-> "signing", flow |-> f, proof |-> c]]
    /\ UNCHANGED <<now, supabase, identities, flow, asked, code, sessions, history>>

\* The signature was right: authorize, which may find that the challenge has gone or
\* that the wallet is another account's.
Authorize(p) ==
    LET f == page[p].flow
        c == page[p].proof
        w == asked[c].wallet
    IN  /\ page[p].place = "signing"
        /\ page' = [page EXCEPT ![p] = Idle]
        /\ IF Live(f) /\ Stands(f, c) /\ Attachable(f, wallet, w)
           THEN LET a == Proves(f, wallet, w)
                IN  /\ wallet' = [wallet EXCEPT ![a] = w]
                    /\ asked' = [asked EXCEPT ![c].stage = "void"]
                    /\ Record(f, w, a, c)
           ELSE UNCHANGED <<wallet, asked, flow, proved, used>>
        /\ UNCHANGED <<now, supabase, email, code, sessions, newest, issued, exchanged>>

-----------------------------------------------------------------------------
(* E-mailed codes *)

\* Rows of email_challenges.
Rows == {k \in Codes : code[k].stage \in {"open", "void"}}

\* The rows that the limits count.
Recent == {k \in Rows : now < code[k].created + Window}
RecentOf(e) == {k \in Recent : code[k].email = e}

Rationed(e) ==
    /\ \A k \in RecentOf(e) : code[k].created + Cooldown <= now
    /\ Cardinality(RecentOf(e)) < PerAddress
    /\ Cardinality(Recent) < PerService

\* The flow requests a code for e, and code k is sent.
Request(f, e, k) ==
    /\ newest' = [newest EXCEPT ![f].email = k]
    /\ issued' = issued \cup {<<e, now, k>>}

\* createEmailChallenge: a row for code k, if the limits allow; the flow's earlier
\* codes are void.
Store(f, e, k) ==
    /\ Live(f) /\ ~HasEmail(f) /\ Rationed(e)
    /\ code' = [l \in Codes |->
                   IF l = k
                   THEN [stage |-> "open", flow |-> f, email |-> e, created |-> now, wrong |-> 0]
                   ELSE IF l \in Rows /\ code[l].flow = f THEN [code[l] EXCEPT !.stage = "void"]
                   ELSE code[l]]

\* verifyEmailChallenge with the right code.
ProveEmail(f, k) ==
    LET e == code[k].email
        a == Proves(f, email, e)
    IN  /\ Live(f) /\ code[k].stage = "open" /\ code[k].flow = f
        /\ Attachable(f, email, e)
        /\ email' = [email EXCEPT ![a] = e]
        /\ code' = [code EXCEPT ![k].stage = "void"]
        /\ Record(f, e, a, k)

\* email/start with our own codes; the e-mail is sent when the row is stored.
SendCode(f, e, k) ==
    /\ ~supabase
    /\ code[k].stage = "unused"
    /\ Store(f, e, k)
    /\ Request(f, e, k)
    /\ UNCHANGED <<now, supabase, identities, flow, asked, sessions, page, proved, used, exchanged>>

RightCode(f, k) ==
    /\ ~supabase
    /\ ProveEmail(f, k)
    /\ UNCHANGED <<now, supabase, wallet, asked, sessions, page, newest, issued, exchanged>>

\* A wrong code is counted; the last one voids the challenge.
WrongCode(f, k) ==
    LET tries == code[k].wrong + 1
    IN  /\ ~supabase
        /\ Live(f) /\ code[k].stage = "open" /\ code[k].flow = f
        /\ code' = [code EXCEPT ![k].wrong = tries,
                                ![k].stage = IF tries >= Attempts THEN "void" ELSE "open"]
        /\ UNCHANGED <<now, supabase, identities, flow, asked, sessions, page, history>>

\* email/start with Supabase, which sends the code: none of the limits is looked at, and
\* the challenge waits in memory beside the flow's earlier ones.
SendOtp(f, e, k) ==
    /\ supabase
    /\ code[k].stage = "unused"
    /\ Live(f)
    /\ code' = [code EXCEPT ![k] = [stage |-> "pending", flow |-> f, email |-> e, created |-> 0, wrong |-> 0]]
    /\ Request(f, e, k)
    /\ UNCHANGED <<now, supabase, identities, flow, asked, sessions, page, proved, used, exchanged>>

EnterOtp(p, f, k) ==
    /\ page[p] = Idle
    /\ code[k].stage = "pending" /\ code[k].flow = f
    /\ page' = [page EXCEPT ![p] = [place |-> "checking", flow |-> f, proof |-> k]]
    /\ UNCHANGED <<now, supabase, identities, flow, asked, code, sessions, history>>

\* Supabase accepts the code: a row is made for it now, and its limits apply now.
StoreOtp(p) ==
    LET k == page[p].proof
    IN  /\ supabase /\ page[p].place = "checking"
        /\ code[k].stage = "pending"
        /\ Store(page[p].flow, code[k].email, k)
        /\ page' = [page EXCEPT ![p].place = "stored"]
        /\ UNCHANGED <<now, supabase, identities, flow, asked, sessions, history>>

ProveOtp(p) ==
    /\ page[p].place = "stored"
    /\ ProveEmail(page[p].flow, page[p].proof)
    /\ page' = [page EXCEPT ![p] = Idle]
    /\ UNCHANGED <<now, supabase, wallet, asked, sessions, newest, issued, exchanged>>

\* A wrong signature or code, a refusal, or a failed call.
Refuse(p) ==
    /\ page[p] # Idle
    /\ page' = [page EXCEPT ![p] = Idle]
    /\ UNCHANGED <<now, supabase, identities, flow, asked, code, sessions, history>>

-----------------------------------------------------------------------------
(* Time *)

Lapse ==
    /\ \/ \E f \in Flows : Live(f) /\ flow' = [flow EXCEPT ![f].stage = "ended"] /\ UNCHANGED <<asked, code>>
       \/ \E c \in Challenges : asked[c].stage = "open" /\ asked' = [asked EXCEPT ![c].stage = "void"]
                                /\ UNCHANGED <<flow, code>>
       \/ \E k \in Codes : code[k].stage = "open" /\ code' = [code EXCEPT ![k].stage = "void"]
                           /\ UNCHANGED <<flow, asked>>
    /\ UNCHANGED <<now, supabase, identities, sessions, page, history>>

\* Slip: rows of codes go like the other rows, when they have lapsed.
Lapsed(k) == code[k].stage = "void"

\* Rows are kept for as long as the limits count them.
Uncounted(k) == code[k].created + Window <= now

\* pruneExpiredAuthentication
Prune ==
    /\ code' = [k \in Codes |-> IF k \in Rows /\ Uncounted(k) THEN [code[k] EXCEPT !.stage = "deleted"]
                                ELSE code[k]]
    /\ UNCHANGED <<now, supabase, identities, flow, asked, sessions, page, history>>

\* The service restarts; requests and pending Supabase codes are lost.
Restart ==
    /\ page' = [p \in Pages |-> Idle]
    /\ code' = [k \in Codes |-> IF code[k].stage = "pending" THEN [code[k] EXCEPT !.stage = "deleted"]
                                ELSE code[k]]
    /\ UNCHANGED <<now, supabase, identities, flow, asked, sessions, history>>

Tick ==
    /\ now < MaxTime
    /\ now' = now + 1
    /\ UNCHANGED <<supabase, identities, flow, asked, code, sessions, page, history>>

-----------------------------------------------------------------------------

FlowStep(f) ==
    \/ StartFlow(f) \/ LinkFlow(f) \/ Exchange(f)
    \/ \E w \in Wallets, c \in Challenges : Ask(f, w, c)
    \/ \E e \in Emails, k \in Codes : SendCode(f, e, k) \/ SendOtp(f, e, k)
    \/ \E k \in Codes : RightCode(f, k) \/ WrongCode(f, k)

PageStep(p) ==
    \/ \E f \in Flows, c \in Challenges : BeginVerify(p, f, c)
    \/ \E f \in Flows, k \in Codes : EnterOtp(p, f, k)
    \/ Authorize(p) \/ StoreOtp(p) \/ ProveOtp(p) \/ Refuse(p)

Next ==
    \/ \E f \in Flows : FlowStep(f)
    \/ \E p \in Pages : PageStep(p)
    \/ \E s \in sessions : EndSession(s)
    \/ Lapse \/ Prune \/ Restart \/ Tick

Spec == Init /\ [][Next]_vars

-----------------------------------------------------------------------------
(* Properties *)

\* "Two existing accounts are never merged, so one login cannot take over another
\* balance": whatever is proved on whichever flow, an identity stays with its account,
\* an account with its identities, and a flow with the account it was first for.
IdentityIsFinal ==
    [][ /\ \A a \in Accounts : /\ wallet[a] # None => wallet'[a] = wallet[a]
                               /\ email[a] # None => email'[a] = email[a]
        /\ \A f \in Flows : flow[f].account # None => flow'[f].account = flow[f].account ]_vars

\* A session is obtained once from its flow, for an account that alone holds each
\* identity that was proved on the flow, and at least one was.
SessionIsProved ==
    /\ \A s \in sessions :
          /\ \E x \in proved : x[1] = s.flow
          /\ \A x \in proved : x[1] = s.flow =>
                \A a \in Accounts : x[2] \in {wallet[a], email[a]} <=> a = s.account
    /\ \A f \in Flows : exchanged[f] <= 1

\* "Requesting a new code cancels the previous one", and so for wallet challenges: only
\* the challenge, and of our own codes only the code, that the flow requested last proves
\* anything on it, although a signature is checked between two reads of its challenge.
\* With Supabase it is not so: a code asked for earlier still proves its address (SendOtp).
ReplacedProofIsVoid ==
    [][ /\ \A c \in (used' \ used) \cap Challenges : newest[asked[c].flow].wallet = c
        /\ ~supabase =>
              \A k \in (used' \ used) \cap Codes : newest[code[k].flow].email = k ]_vars

\* "One code a minute and five an hour per address, and 500 an hour for the whole service.
\* A refused request sends nothing": no code is sent that the limits forbid, over all
\* flows, lapses, restarts and prunings of the rows that they count.
EveryCodeRationed ==
    \A x \in issued :
        LET before == {y \in issued : y[2] <= x[2] /\ x[2] < y[2] + Window}
            same   == {y \in before : y[1] = x[1]}
        IN  /\ \A y \in same \ {x} : y[2] + Cooldown <= x[2]
            /\ Cardinality(same) <= PerAddress
            /\ Cardinality(before) <= PerService

\* This is so of our own codes; those that Supabase sends are not limited (SendOtp).
CodesRationed == ~supabase => EveryCodeRationed
=============================================================================
