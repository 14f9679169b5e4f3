---------------------------- MODULE SignInProofs ----------------------------
(***************************************************************************)
(* Safety of sign-in for any number of flows, identities, challenges,      *)
(* codes and concurrent requests, and any limits on e-mailed codes.        *)
(*                                                                         *)
(* Identities are never lost, so the account that is founded with an       *)
(* identity is new; an open challenge, or code of our own, is the one its  *)
(* flow requested last; and every code of our own that a limit may have to *)
(* count still has its row.                                                *)
(***************************************************************************)
EXTENDS SignIn, FiniteSetTheorems, TLAPS

Founded(a) == wallet[a] # None \/ email[a] # None

\* What is written in a challenge, a code and a request while they are in use.
Filled ==
    /\ \A c \in Challenges : asked[c].stage = "open" =>
          asked[c].flow \in Flows /\ asked[c].wallet \in Wallets /\ newest[asked[c].flow].wallet = c
    /\ \A k \in Codes : code[k].stage \in {"pending", "open", "void"} =>
          code[k].flow \in Flows /\ code[k].email \in Emails
    /\ \A k \in Codes : code[k].stage = "open" =>
          code[k].wrong < Attempts /\ (~supabase => newest[code[k].flow].email = k)
    /\ \A p \in Pages :
          /\ page[p].place # "idle" => page[p].flow \in Flows
          /\ page[p].place = "signing" => page[p].proof \in Challenges
          /\ page[p].place \in {"checking", "stored"} => page[p].proof \in Codes

\* An account keeps the identity it is named after, and nobody shares one.
Identities ==
    /\ \A a \in Accounts : Founded(a) =>
          (a \in Wallets => wallet[a] = a) /\ (a \in Emails => email[a] = a)
    /\ \A a, b \in Accounts : wallet[a] # None /\ wallet[a] = wallet[b] => a = b
    /\ \A a, b \in Accounts : email[a] # None /\ email[a] = email[b] => a = b

\* What a flow's account stands for.
Bound ==
    /\ \A f \in Flows :
          /\ flow[f].stage = "unused" => flow[f].account = None
          /\ flow[f].account # None => Founded(flow[f].account)
          /\ flow[f].account # None /\ ~flow[f].link => \E x \in proved : x[1] = f
          /\ flow[f].stage # "ended" => exchanged[f] = 0
          /\ exchanged[f] <= 1
    /\ \A x \in proved :
          /\ flow[x[1]].account # None
          /\ x[2] \in {wallet[flow[x[1]].account], email[flow[x[1]].account]}
    /\ \A s \in sessions : flow[s.flow].account = s.account /\ ~flow[s.flow].link

\* Code y was sent to an address at a time, and its row says so.
HasRow(y) == y[3] \in Rows /\ code[y[3]].email = y[1] /\ code[y[3]].created = y[2]

\* The rows that the limits count are all of our own codes of their window.
Counted ==
    /\ \A k \in Rows : code[k].created <= now
    /\ \A y \in issued : y[2] <= now
    /\ ~supabase => \A y \in issued : now < y[2] + Window => HasRow(y)
    /\ CodesRationed

IInv == TypeOK /\ Filled /\ Identities /\ Bound /\ Counted

USE SignInAssumption

-----------------------------------------------------------------------------

LEMMA Initial == Init => IInv
<1>. SUFFICES ASSUME Init
              PROVE  IInv
  OBVIOUS
<1>1. TypeOK
  BY DEF Init, TypeOK, Flow, Challenge, Code, Page, Idle
<1>2. Filled
  BY DEF Init, Filled, Idle
<1>3. Identities /\ Bound
  BY DEF Init, Identities, Bound, Founded
<1>4. Counted
  BY DEF Init, Counted, CodesRationed, EveryCodeRationed, Rows
<1>5. QED
  BY <1>1, <1>2, <1>3, <1>4 DEF IInv

\* The account a wallet is proved for is new, or the flow's, or already has it.
LEMMA ForWallet ==
  ASSUME IInv, NEW f \in Flows, NEW w \in Wallets, Attachable(f, wallet, w)
  PROVE  LET a == Proves(f, wallet, w)
         IN  /\ a \in Accounts
             /\ flow[f].account # None => a = flow[f].account
             /\ wallet[a] \in {None, w}
             /\ \A b \in Accounts : wallet[b] = w => b = a
             /\ flow[f].account = None => (~Founded(a) /\ a = w) \/ wallet[a] = w
<1>. DEFINE a == Proves(f, wallet, w)
<1>1. CASE flow[f].account # None
  BY <1>1 DEF Proves, Attachable, IInv, TypeOK, Flow
<1>2. CASE flow[f].account = None /\ \E b \in Accounts : wallet[b] = w
  <2>1. a \in Accounts /\ wallet[a] = w
    BY <1>2 DEF Proves, AccountOf
  <2>2. QED
    BY <1>2, <2>1 DEF IInv, Identities
<1>3. CASE flow[f].account = None /\ ~\E b \in Accounts : wallet[b] = w
  <2>1. a = w /\ w \in Accounts
    BY <1>3 DEF Proves, AccountOf, Accounts
  <2>2. ~Founded(w)
    BY <1>3, <2>1 DEF IInv, Identities
  <2>3. QED
    BY <1>3, <2>1, <2>2 DEF Founded
<1>4. QED
  BY <1>1, <1>2, <1>3

LEMMA ForEmail ==
  ASSUME IInv, NEW f \in Flows, NEW e \in Emails, Attachable(f, email, e)
  PROVE  LET a == Proves(f, email, e)
         IN  /\ a \in Accounts
             /\ flow[f].account # None => a = flow[f].account
             /\ email[a] \in {None, e}
             /\ \A b \in Accounts : email[b] = e => b = a
             /\ flow[f].account = None => (~Founded(a) /\ a = e) \/ email[a] = e
<1>. DEFINE a == Proves(f, email, e)
<1>1. CASE flow[f].account # None
  BY <1>1 DEF Proves, Attachable, IInv, TypeOK, Flow
<1>2. CASE flow[f].account = None /\ \E b \in Accounts : email[b] = e
  <2>1. a \in Accounts /\ email[a] = e
    BY <1>2 DEF Proves, AccountOf
  <2>2. QED
    BY <1>2, <2>1 DEF IInv, Identities
<1>3. CASE flow[f].account = None /\ ~\E b \in Accounts : email[b] = e
  <2>1. a = e /\ e \in Accounts
    BY <1>3 DEF Proves, AccountOf, Accounts
  <2>2. ~Founded(e)
    BY <1>3, <2>1 DEF IInv, Identities
  <2>3. QED
    BY <1>3, <2>1, <2>2 DEF Founded
<1>4. QED
  BY <1>1, <1>2, <1>3

\* A proved wallet is recorded with its account and its flow.
LEMMA WalletProved ==
  ASSUME IInv, NEW f \in Flows, NEW w \in Wallets, NEW id, Live(f), Attachable(f, wallet, w),
         Record(f, w, Proves(f, wallet, w), id),
         wallet' = [wallet EXCEPT ![Proves(f, wallet, w)] = w],
         UNCHANGED <<email, sessions, exchanged>>
  PROVE  /\ Identities' /\ Bound'
         /\ wallet' \in [Accounts -> Wallets \cup {None}]
         /\ flow' \in [Flows -> Flow]
         /\ proved' \subseteq Flows \X (Wallets \cup Emails)
         /\ \A b \in Accounts : wallet[b] # None => wallet'[b] = wallet[b]
         /\ \A g \in Flows : flow[g].account # None => flow'[g].account = flow[g].account
<1>. DEFINE a == Proves(f, wallet, w)
<1>a. /\ a \in Accounts
      /\ flow[f].account # None => a = flow[f].account
      /\ wallet[a] \in {None, w}
      /\ \A b \in Accounts : wallet[b] = w => b = a
      /\ flow[f].account = None => (~Founded(a) /\ a = w) \/ wallet[a] = w
  BY ForWallet
<1>. HIDE DEF a
<1>b. /\ wallet' = [wallet EXCEPT ![a] = w]
      /\ flow' = [flow EXCEPT ![f].account = a]
      /\ proved' = proved \cup {<<f, w>>}
  BY DEF a, Record
<1>c. a # None /\ w # None /\ flow[f].stage = "open"
  BY <1>a DEF Accounts, Live
<1>1. wallet' \in [Accounts -> Wallets \cup {None}]
  BY <1>a, <1>b DEF IInv, TypeOK
<1>2. flow' \in [Flows -> Flow]
  <2>1. flow[f] \in Flow /\ flow \in [Flows -> Flow]
    BY DEF IInv, TypeOK
  <2>2. [flow[f] EXCEPT !.account = a] \in Flow
    BY <2>1, <1>a DEF Flow
  <2>3. QED
    BY <2>1, <2>2, <1>b
<1>3. proved' \subseteq Flows \X (Wallets \cup Emails)
  BY <1>b DEF IInv, TypeOK
<1>4. \A b \in Accounts : wallet[b] # None => wallet'[b] = wallet[b]
  BY <1>a, <1>b DEF IInv, TypeOK
<1>5. \A g \in Flows : /\ flow[g].account # None => flow'[g].account = flow[g].account
                       /\ g # f => flow'[g] = flow[g]
                       /\ flow'[g].stage = flow[g].stage /\ flow'[g].link = flow[g].link
  BY <1>a, <1>b DEF IInv, TypeOK, Flow
<1>6. flow'[f].account = a /\ wallet'[a] = w
  BY <1>a, <1>b DEF IInv, TypeOK, Flow
<1>7. Identities'
  <2>1. ASSUME NEW b \in Accounts, Founded(b)'
        PROVE  (b \in Wallets => wallet'[b] = b) /\ (b \in Emails => email'[b] = b)
    <3>1. CASE Founded(b)
      <4>1. (b \in Wallets => wallet[b] = b) /\ (b \in Emails => email[b] = b)
        BY <3>1 DEF IInv, Identities
      <4>2. QED
        BY <4>1, <1>4, <1>c
    <3>2. CASE ~Founded(b)
      <4>1. b = a
        BY <3>2, <2>1, <1>b DEF Founded, IInv, TypeOK
      <4>2. a = w
        <5>1. flow[f].account = None
          BY <3>2, <4>1, <1>a DEF IInv, Bound
        <5>2. QED
          BY <5>1, <3>2, <4>1, <1>a, <1>c DEF Founded
      <4>3. QED
        BY <4>1, <4>2, <1>6
    <3>3. QED
      BY <3>1, <3>2
  <2>2. ASSUME NEW b \in Accounts, NEW d \in Accounts, wallet'[b] # None, wallet'[b] = wallet'[d]
        PROVE  b = d
    <3>1. \A u \in Accounts : wallet'[u] = w => u = a
      BY <1>a, <1>b DEF IInv, TypeOK
    <3>2. CASE wallet'[b] = w
      BY <3>1, <3>2, <2>2
    <3>3. CASE wallet'[b] # w
      <4>1. b # a /\ d # a
        BY <3>3, <1>6, <2>2
      <4>2. wallet'[b] = wallet[b] /\ wallet'[d] = wallet[d]
        BY <4>1, <1>b DEF IInv, TypeOK
      <4>3. QED
        BY <4>2, <2>2 DEF IInv, Identities
    <3>4. QED
      BY <3>2, <3>3
  <2>3. \A b, d \in Accounts : email'[b] # None /\ email'[b] = email'[d] => b = d
    BY DEF IInv, Identities
  <2>4. QED
    BY <2>1, <2>2, <2>3 DEF Identities
<1>8. Bound'
  <2>1. ASSUME NEW g \in Flows
        PROVE  /\ flow'[g].stage = "unused" => flow'[g].account = None
               /\ flow'[g].account # None =>
                     wallet'[flow'[g].account] # None \/ email'[flow'[g].account] # None
               /\ flow'[g].account # None /\ ~flow'[g].link => \E x \in proved' : x[1] = g
               /\ flow'[g].stage # "ended" => exchanged'[g] = 0
               /\ exchanged'[g] <= 1
    <3>1. CASE g = f
      <4>1. <<f, w>> \in proved' /\ <<f, w>>[1] = f
        BY <1>b
      <4>2. QED
        BY <3>1, <4>1, <1>c, <1>5, <1>6 DEF IInv, Bound
    <3>2. CASE g # f
      <4>1. flow'[g] = flow[g]
        BY <3>2, <1>5
      <4>2. flow[g].account # None =>
                wallet'[flow[g].account] # None \/ email'[flow[g].account] # None
        <5>1. flow[g].account \in Accounts \cup {None}
          BY DEF IInv, TypeOK, Flow
        <5>2. QED
          BY <5>1, <1>4 DEF Founded, IInv, Bound
      <4>3. flow[g].account # None /\ ~flow[g].link => \E x \in proved' : x[1] = g
        BY <1>b DEF IInv, Bound
      <4>4. QED
        BY <4>1, <4>2, <4>3 DEF IInv, Bound
    <3>3. QED
      BY <3>1, <3>2
  <2>2. ASSUME NEW x \in proved'
        PROVE  /\ flow'[x[1]].account # None
               /\ x[2] \in {wallet'[flow'[x[1]].account], email'[flow'[x[1]].account]}
    <3>1. CASE x = <<f, w>>
      BY <3>1, <1>6, <1>c
    <3>2. CASE x \in proved
      <4>1. x[1] \in Flows /\ x[2] # None
        BY <3>2 DEF IInv, TypeOK
      <4>2. /\ flow[x[1]].account # None
            /\ x[2] \in {wallet[flow[x[1]].account], email[flow[x[1]].account]}
        BY <3>2 DEF IInv, Bound
      <4>3. flow[x[1]].account \in Accounts
        BY <4>1, <4>2 DEF IInv, TypeOK, Flow
      <4>4. QED
        BY <4>1, <4>2, <4>3, <1>4, <1>5
    <3>3. QED
      BY <3>1, <3>2, <1>b
  <2>3. ASSUME NEW s \in sessions'
        PROVE  flow'[s.flow].account = s.account /\ ~flow'[s.flow].link
    <3>1. s.flow \in Flows /\ s.account # None
      BY DEF IInv, TypeOK, Session, Accounts
    <3>2. QED
      BY <3>1, <1>5 DEF IInv, Bound
  <2>4. QED
    BY <2>1, <2>2, <2>3 DEF Bound, Founded
<1>9. QED
  BY <1>1, <1>2, <1>3, <1>4, <1>5, <1>7, <1>8
\* A proved address, in the same way.
LEMMA EmailProved ==
  ASSUME IInv, NEW f \in Flows, NEW e \in Emails, NEW id, Live(f), Attachable(f, email, e),
         Record(f, e, Proves(f, email, e), id),
         email' = [email EXCEPT ![Proves(f, email, e)] = e],
         UNCHANGED <<wallet, sessions, exchanged>>
  PROVE  /\ Identities' /\ Bound'
         /\ email' \in [Accounts -> Emails \cup {None}]
         /\ flow' \in [Flows -> Flow]
         /\ proved' \subseteq Flows \X (Wallets \cup Emails)
         /\ \A b \in Accounts : email[b] # None => email'[b] = email[b]
         /\ \A g \in Flows : flow[g].account # None => flow'[g].account = flow[g].account
<1>. DEFINE a == Proves(f, email, e)
<1>a. /\ a \in Accounts
      /\ flow[f].account # None => a = flow[f].account
      /\ email[a] \in {None, e}
      /\ \A b \in Accounts : email[b] = e => b = a
      /\ flow[f].account = None => (~Founded(a) /\ a = e) \/ email[a] = e
  BY ForEmail
<1>. HIDE DEF a
<1>b. /\ email' = [email EXCEPT ![a] = e]
      /\ flow' = [flow EXCEPT ![f].account = a]
      /\ proved' = proved \cup {<<f, e>>}
  BY DEF a, Record
<1>c. a # None /\ e # None /\ flow[f].stage = "open"
  BY <1>a DEF Accounts, Live
<1>1. email' \in [Accounts -> Emails \cup {None}]
  BY <1>a, <1>b DEF IInv, TypeOK
<1>2. flow' \in [Flows -> Flow]
  <2>1. flow[f] \in Flow /\ flow \in [Flows -> Flow]
    BY DEF IInv, TypeOK
  <2>2. [flow[f] EXCEPT !.account = a] \in Flow
    BY <2>1, <1>a DEF Flow
  <2>3. QED
    BY <2>1, <2>2, <1>b
<1>3. proved' \subseteq Flows \X (Wallets \cup Emails)
  BY <1>b DEF IInv, TypeOK
<1>4. \A b \in Accounts : email[b] # None => email'[b] = email[b]
  BY <1>a, <1>b DEF IInv, TypeOK
<1>5. \A g \in Flows : /\ flow[g].account # None => flow'[g].account = flow[g].account
                       /\ g # f => flow'[g] = flow[g]
                       /\ flow'[g].stage = flow[g].stage /\ flow'[g].link = flow[g].link
  BY <1>a, <1>b DEF IInv, TypeOK, Flow
<1>6. flow'[f].account = a /\ email'[a] = e
  BY <1>a, <1>b DEF IInv, TypeOK, Flow
<1>7. Identities'
  <2>1. ASSUME NEW b \in Accounts, Founded(b)'
        PROVE  (b \in Emails => email'[b] = b) /\ (b \in Wallets => wallet'[b] = b)
    <3>1. CASE Founded(b)
      <4>1. (b \in Emails => email[b] = b) /\ (b \in Wallets => wallet[b] = b)
        BY <3>1 DEF IInv, Identities
      <4>2. QED
        BY <4>1, <1>4, <1>c
    <3>2. CASE ~Founded(b)
      <4>1. b = a
        BY <3>2, <2>1, <1>b DEF Founded, IInv, TypeOK
      <4>2. a = e
        <5>1. flow[f].account = None
          BY <3>2, <4>1, <1>a DEF IInv, Bound
        <5>2. QED
          BY <5>1, <3>2, <4>1, <1>a, <1>c DEF Founded
      <4>3. QED
        BY <4>1, <4>2, <1>6
    <3>3. QED
      BY <3>1, <3>2
  <2>2. ASSUME NEW b \in Accounts, NEW d \in Accounts, email'[b] # None, email'[b] = email'[d]
        PROVE  b = d
    <3>1. \A u \in Accounts : email'[u] = e => u = a
      BY <1>a, <1>b DEF IInv, TypeOK
    <3>2. CASE email'[b] = e
      BY <3>1, <3>2, <2>2
    <3>3. CASE email'[b] # e
      <4>1. b # a /\ d # a
        BY <3>3, <1>6, <2>2
      <4>2. email'[b] = email[b] /\ email'[d] = email[d]
        BY <4>1, <1>b DEF IInv, TypeOK
      <4>3. QED
        BY <4>2, <2>2 DEF IInv, Identities
    <3>4. QED
      BY <3>2, <3>3
  <2>3. \A b, d \in Accounts : wallet'[b] # None /\ wallet'[b] = wallet'[d] => b = d
    BY DEF IInv, Identities
  <2>4. QED
    BY <2>1, <2>2, <2>3 DEF Identities
<1>8. Bound'
  <2>1. ASSUME NEW g \in Flows
        PROVE  /\ flow'[g].stage = "unused" => flow'[g].account = None
               /\ flow'[g].account # None =>
                     email'[flow'[g].account] # None \/ wallet'[flow'[g].account] # None
               /\ flow'[g].account # None /\ ~flow'[g].link => \E x \in proved' : x[1] = g
               /\ flow'[g].stage # "ended" => exchanged'[g] = 0
               /\ exchanged'[g] <= 1
    <3>1. CASE g = f
      <4>1. <<f, e>> \in proved' /\ <<f, e>>[1] = f
        BY <1>b
      <4>2. QED
        BY <3>1, <4>1, <1>c, <1>5, <1>6 DEF IInv, Bound
    <3>2. CASE g # f
      <4>1. flow'[g] = flow[g]
        BY <3>2, <1>5
      <4>2. flow[g].account # None =>
                email'[flow[g].account] # None \/ wallet'[flow[g].account] # None
        <5>1. flow[g].account \in Accounts \cup {None}
          BY DEF IInv, TypeOK, Flow
        <5>2. QED
          BY <5>1, <1>4 DEF Founded, IInv, Bound
      <4>3. flow[g].account # None /\ ~flow[g].link => \E x \in proved' : x[1] = g
        BY <1>b DEF IInv, Bound
      <4>4. QED
        BY <4>1, <4>2, <4>3 DEF IInv, Bound
    <3>3. QED
      BY <3>1, <3>2
  <2>2. ASSUME NEW x \in proved'
        PROVE  /\ flow'[x[1]].account # None
               /\ x[2] \in {email'[flow'[x[1]].account], wallet'[flow'[x[1]].account]}
    <3>1. CASE x = <<f, e>>
      BY <3>1, <1>6, <1>c
    <3>2. CASE x \in proved
      <4>1. x[1] \in Flows /\ x[2] # None
        BY <3>2 DEF IInv, TypeOK
      <4>2. /\ flow[x[1]].account # None
            /\ x[2] \in {email[flow[x[1]].account], wallet[flow[x[1]].account]}
        BY <3>2 DEF IInv, Bound
      <4>3. flow[x[1]].account \in Accounts
        BY <4>1, <4>2 DEF IInv, TypeOK, Flow
      <4>4. QED
        BY <4>1, <4>2, <4>3, <1>4, <1>5
    <3>3. QED
      BY <3>1, <3>2, <1>b
  <2>3. ASSUME NEW s \in sessions'
        PROVE  flow'[s.flow].account = s.account /\ ~flow'[s.flow].link
    <3>1. s.flow \in Flows /\ s.account # None
      BY DEF IInv, TypeOK, Session, Accounts
    <3>2. QED
      BY <3>1, <1>5 DEF IInv, Bound
  <2>4. QED
    BY <2>1, <2>2, <2>3 DEF Bound, Founded
<1>9. QED
  BY <1>1, <1>2, <1>3, <1>4, <1>5, <1>7, <1>8

-----------------------------------------------------------------------------
(* Codes *)

\* Every member of T is found at some member of S.
LEMMA Covered ==
  ASSUME NEW S, NEW T, NEW g, IsFiniteSet(S), \A y \in T : \E k \in S : g[k] = y
  PROVE  IsFiniteSet(T) /\ Cardinality(T) <= Cardinality(S)
<1>. DEFINE f == [y \in T |-> CHOOSE k \in S : g[k] = y]
<1>1. \A y \in T : f[y] \in S /\ g[f[y]] = y
  OBVIOUS
<1>2. f \in [T -> S]
  BY <1>1
<1>3. \A y, z \in T : f[y] = f[z] => y = z
  BY <1>1
<1>4. f \in Injection(T, S)
  BY <1>2, <1>3 DEF Injection, IsInjective
<1>5. QED
  BY <1>4, FS_Injection

\* The codes that the window of the present still holds, of all and of one address.
LEMMA Windows ==
  ASSUME IInv, ~supabase, NEW e \in Emails
  PROVE  LET W == {y \in issued : now < y[2] + Window}
             V == {y \in W : y[1] = e}
         IN  /\ IsFiniteSet(W) /\ Cardinality(W) <= Cardinality(Recent)
             /\ IsFiniteSet(V) /\ Cardinality(V) <= Cardinality(RecentOf(e))
<1>. DEFINE W == {y \in issued : now < y[2] + Window}
            V == {y \in W : y[1] = e}
            g == [k \in Codes |-> <<code[k].email, code[k].created, k>>]
<1>1. IsFiniteSet(Recent) /\ IsFiniteSet(RecentOf(e))
  <2>1. Recent \in SUBSET Codes /\ RecentOf(e) \in SUBSET Codes
    BY DEF Recent, RecentOf, Rows
  <2>2. QED
    BY <2>1, FS_Subset
<1>2. ASSUME NEW y \in W
      PROVE  \E k \in Recent : g[k] = y /\ code[k].email = y[1]
  <2>1. y = <<y[1], y[2], y[3]>>
    BY DEF IInv, TypeOK
  <2>2. HasRow(y)
    BY DEF IInv, Counted
  <2>3. y[3] \in Recent /\ g[y[3]] = y
    BY <2>1, <2>2 DEF HasRow, Recent, Rows
  <2>4. QED
    BY <2>2, <2>3 DEF HasRow
<1>3. \A y \in W : \E k \in Recent : g[k] = y
  BY <1>2
<1>4. \A y \in V : \E k \in RecentOf(e) : g[k] = y
  BY <1>2 DEF RecentOf
<1>5. IsFiniteSet(W) /\ Cardinality(W) <= Cardinality(Recent)
  BY <1>1, <1>3, Covered
<1>6. IsFiniteSet(V) /\ Cardinality(V) <= Cardinality(RecentOf(e))
  BY <1>1, <1>4, Covered
<1>7. QED
  BY <1>5, <1>6

\* A subset of T with one more element is no larger than one more than T.
LEMMA OneMore ==
  ASSUME NEW T, NEW x, NEW B \in SUBSET (T \cup {x}), IsFiniteSet(T)
  PROVE  Cardinality(B) \in Nat /\ Cardinality(B) <= Cardinality(T) + 1
<1>1. /\ IsFiniteSet(T \cup {x}) /\ Cardinality(T) \in Nat
      /\ Cardinality(T \cup {x}) <= Cardinality(T) + 1
  <2>1. /\ IsFiniteSet(T \cup {x})
        /\ Cardinality(T \cup {x}) = IF x \in T THEN Cardinality(T) ELSE Cardinality(T) + 1
    BY FS_AddElement
  <2>2. Cardinality(T) \in Nat
    BY FS_CardinalityType
  <2>3. QED
    BY <2>1, <2>2
<1>2. IsFiniteSet(B) /\ Cardinality(B) <= Cardinality(T \cup {x})
  BY <1>1, FS_Subset
<1>3. Cardinality(B) \in Nat /\ Cardinality(T \cup {x}) \in Nat
  BY <1>1, <1>2, FS_CardinalityType
<1>4. QED
  BY <1>1, <1>2, <1>3

\* The limits hold again with one code more.
LEMMA Rations ==
  ASSUME IInv, ~supabase, NEW e \in Emails, NEW k \in Codes, Rationed(e), k \notin Rows,
         UNCHANGED now, issued' = issued \cup {<<e, now, k>>}
  PROVE  EveryCodeRationed'
<1>. DEFINE n == <<e, now, k>>
            W == {y \in issued : now < y[2] + Window}
            V == {y \in W : y[1] = e}
            Before(x) == {y \in issued : y[2] <= x[2] /\ x[2] < y[2] + Window}
            BeforeNow(x) == {y \in issued' : y[2] <= x[2] /\ x[2] < y[2] + Window}
            Same(S, x) == {y \in S : y[1] = x[1]}
<1>1. /\ now \in Nat /\ Window \in Nat /\ Window >= 1 /\ Cooldown >= 1 /\ Cooldown \in Nat
      /\ \A y \in issued : y[2] \in Nat /\ y[2] <= now
  BY DEF IInv, TypeOK, Counted
<1>2. n[1] = e /\ n[2] = now /\ issued' = issued \cup {n}
  OBVIOUS
<1>3. /\ IsFiniteSet(W) /\ Cardinality(W) <= Cardinality(Recent)
      /\ IsFiniteSet(V) /\ Cardinality(V) <= Cardinality(RecentOf(e))
  BY Windows
<1>4. /\ Cardinality(W) \in Nat /\ Cardinality(V) \in Nat
      /\ Cardinality(Recent) \in Nat /\ Cardinality(RecentOf(e)) \in Nat
  <2>1. Recent \in SUBSET Codes /\ RecentOf(e) \in SUBSET Codes
    BY DEF Recent, RecentOf, Rows
  <2>2. IsFiniteSet(Recent) /\ IsFiniteSet(RecentOf(e))
    BY <2>1, FS_Subset
  <2>3. QED
    BY <2>2, <1>3, FS_CardinalityType
<1>5. Cardinality(W) + 1 <= PerService /\ Cardinality(V) + 1 <= PerAddress
  BY <1>3, <1>4 DEF Rationed
<1>6. \A y \in V : y[2] + Cooldown <= now
  <2>. SUFFICES ASSUME NEW y \in V
                PROVE  y[2] + Cooldown <= now
    OBVIOUS
  <2>1. HasRow(y)
    BY DEF IInv, Counted
  <2>2. y[3] \in RecentOf(e)
    BY <2>1 DEF HasRow, RecentOf, Recent
  <2>3. QED
    BY <2>1, <2>2 DEF HasRow, Rationed
<1>. SUFFICES ASSUME NEW x \in issued'
              PROVE  /\ \A y \in Same(BeforeNow(x), x) \ {x} : y[2] + Cooldown <= x[2]
                     /\ Cardinality(Same(BeforeNow(x), x)) <= PerAddress
                     /\ Cardinality(BeforeNow(x)) <= PerService
  BY DEF EveryCodeRationed
<1>7. CASE x \in issued /\ x[2] # now
  <2>1. BeforeNow(x) = Before(x)
    BY <1>1, <1>2, <1>7
  <2>2. /\ \A y \in Same(Before(x), x) \ {x} : y[2] + Cooldown <= x[2]
        /\ Cardinality(Same(Before(x), x)) <= PerAddress
        /\ Cardinality(Before(x)) <= PerService
    BY <1>7 DEF IInv, Counted, CodesRationed, EveryCodeRationed
  <2>3. QED
    BY <2>1, <2>2
<1>8. CASE x[2] = now
  <2>1. BeforeNow(x) \in SUBSET (W \cup {n})
    BY <1>2, <1>8
  <2>2. Cardinality(BeforeNow(x)) <= PerService
    <3>1. Cardinality(BeforeNow(x)) \in Nat /\ Cardinality(BeforeNow(x)) <= Cardinality(W) + 1
      BY <2>1, <1>3, OneMore
    <3>2. QED
      BY <3>1, <1>4, <1>5
  <2>3. CASE x[1] = e
    <3>1. x = n
      <4>1. CASE x \in issued
        <5>1. x \in V
          BY <4>1, <1>1, <1>8, <2>3
        <5>2. QED
          BY <5>1, <1>1, <1>6, <1>8
      <4>2. QED
        BY <4>1, <1>2
    <3>2. Same(BeforeNow(x), x) \in SUBSET (V \cup {n})
      BY <2>1, <2>3, <1>2
    <3>3. Cardinality(Same(BeforeNow(x), x)) <= PerAddress
      <4>1. /\ Cardinality(Same(BeforeNow(x), x)) \in Nat
            /\ Cardinality(Same(BeforeNow(x), x)) <= Cardinality(V) + 1
        BY <3>2, <1>3, OneMore
      <4>2. QED
        BY <4>1, <1>4, <1>5
    <3>4. \A y \in Same(BeforeNow(x), x) \ {x} : y[2] + Cooldown <= x[2]
      BY <3>1, <3>2, <1>6, <1>8
    <3>5. QED
      BY <2>2, <3>3, <3>4
  <2>4. CASE x[1] # e
    <3>1. x \in issued
      BY <1>2, <2>4
    <3>2. Same(BeforeNow(x), x) = Same(Before(x), x)
      BY <1>2, <2>4
    <3>3. /\ \A y \in Same(Before(x), x) \ {x} : y[2] + Cooldown <= x[2]
          /\ Cardinality(Same(Before(x), x)) <= PerAddress
      BY <3>1 DEF IInv, Counted, CodesRationed, EveryCodeRationed
    <3>4. QED
      BY <2>2, <3>2, <3>3
  <2>5. QED
    BY <2>3, <2>4
<1>9. QED
  BY <1>2, <1>7, <1>8

-----------------------------------------------------------------------------
(* The steps *)

\* A step that keeps every row, whatever happens to its stage.
LEMMA RowsKept ==
  ASSUME IInv, UNCHANGED <<now, supabase, issued>>,
         \A k \in Codes : (code'[k].stage \in {"open", "void"}) = (code[k].stage \in {"open", "void"}),
         \A k \in Rows : code'[k].email = code[k].email /\ code'[k].created = code[k].created
  PROVE  Counted'
<1>1. Rows' = Rows
  BY DEF Rows
<1>2. CodesRationed'
  BY DEF IInv, Counted, CodesRationed, EveryCodeRationed
<1>3. \A y \in issued : HasRow(y) => HasRow(y)'
  BY <1>1 DEF HasRow
<1>4. QED
  BY <1>1, <1>2, <1>3 DEF IInv, Counted

LEMMA FlowKeeps ==
  ASSUME IInv, NEW f \in Flows, StartFlow(f) \/ LinkFlow(f) \/ Exchange(f)
  PROVE  IInv'
<1>1. CASE StartFlow(f)
  <2>. USE <1>1 DEF StartFlow
  <2>1. TypeOK'
    BY DEF IInv, TypeOK, history, identities, Flow
  <2>2. Filled' /\ Identities' /\ Counted'
    BY RowsKept DEF IInv, Filled, Identities, Founded, history, identities
  <2>3. Bound'
    BY DEF IInv, TypeOK, Bound, Founded, Flow, Session, history, identities
  <2>4. QED
    BY <2>1, <2>2, <2>3 DEF IInv
<1>2. CASE LinkFlow(f)
  <2>. USE <1>2 DEF LinkFlow
  <2>1. PICK s \in sessions :
            flow' = [flow EXCEPT ![f] = [stage |-> "open", account |-> s.account, link |-> TRUE]]
    OBVIOUS
  <2>2. s.account \in Accounts /\ s.account # None /\ Founded(s.account)
    BY DEF IInv, TypeOK, Session, Accounts, Bound
  <2>3. TypeOK'
    BY <2>1, <2>2 DEF IInv, TypeOK, history, identities, Flow
  <2>4. Filled' /\ Identities' /\ Counted'
    BY RowsKept DEF IInv, Filled, Identities, Founded, history, identities
  <2>5. Bound'
    <3>1. /\ flow'[f] = [stage |-> "open", account |-> s.account, link |-> TRUE]
          /\ \A g \in Flows : g # f => flow'[g] = flow[g]
          /\ UNCHANGED <<wallet, email, sessions, proved, exchanged>>
      BY <2>1 DEF IInv, TypeOK, history, identities
    <3>2. flow[f].account = None /\ exchanged[f] = 0
      BY DEF IInv, Bound
    <3>3. \A x \in proved : x[1] \in Flows /\ x[1] # f
      BY <3>2 DEF IInv, TypeOK, Bound
    <3>4. \A u \in sessions : u.flow \in Flows /\ u.flow # f
      BY <3>2 DEF IInv, TypeOK, Bound, Session, Accounts
    <3>5. \A g \in Flows :
              /\ flow'[g].stage = "unused" => flow'[g].account = None
              /\ flow'[g].account # None =>
                    wallet[flow'[g].account] # None \/ email[flow'[g].account] # None
              /\ flow'[g].account # None /\ ~flow'[g].link => \E x \in proved : x[1] = g
              /\ flow'[g].stage # "ended" => exchanged[g] = 0
              /\ exchanged[g] <= 1
      BY <2>2, <3>1, <3>2 DEF IInv, Bound, Founded
    <3>6. QED
      BY <3>1, <3>3, <3>4, <3>5 DEF IInv, Bound, Founded
  <2>6. QED
    BY <2>3, <2>4, <2>5 DEF IInv
<1>3. CASE Exchange(f)
  <2>. USE <1>3 DEF Exchange, Live, Consumed
  <2>1. TypeOK'
    <3>1. flow[f] \in Flow /\ flow[f].account \in Accounts
      BY DEF IInv, TypeOK, Flow
    <3>2. [flow[f] EXCEPT !.stage = "ended"] \in Flow
      BY <3>1 DEF Flow
    <3>3. flow' \in [Flows -> Flow]
      BY <3>2 DEF IInv, TypeOK
    <3>4. sessions' \subseteq Session
      BY <3>1 DEF IInv, TypeOK, Session
    <3>5. exchanged' \in [Flows -> Nat]
      BY DEF IInv, TypeOK
    <3>6. QED
      BY <3>3, <3>4, <3>5 DEF IInv, TypeOK, identities
  <2>2. Filled' /\ Identities' /\ Counted'
    BY RowsKept DEF IInv, Filled, Identities, Founded, identities
  <2>3. Bound'
    <3>1. \A g \in Flows : /\ flow'[g].account = flow[g].account /\ flow'[g].link = flow[g].link
                           /\ g # f => flow'[g] = flow[g] /\ exchanged'[g] = exchanged[g]
      BY DEF IInv, TypeOK, Flow
    <3>2. flow'[f].stage = "ended" /\ exchanged'[f] = 1
      BY DEF IInv, TypeOK, Flow, Bound
    <3>3. \A x \in proved : x[1] \in Flows
      BY DEF IInv, TypeOK
    <3>4. \A s \in sessions : s.flow \in Flows
      BY DEF IInv, TypeOK, Session
    <3>5. \A g \in Flows :
              /\ flow'[g].stage = "unused" => flow'[g].account = None
              /\ flow'[g].stage # "ended" => exchanged'[g] = 0
              /\ exchanged'[g] <= 1
      BY <3>1, <3>2 DEF IInv, Bound
    <3>6. QED
      BY <3>1, <3>3, <3>4, <3>5 DEF IInv, Bound, Founded, identities
  <2>4. QED
    BY <2>1, <2>2, <2>3 DEF IInv
<1>4. QED
  BY <1>1, <1>2, <1>3

LEMMA AskKeeps ==
  ASSUME IInv, NEW f \in Flows, NEW w \in Wallets, NEW c \in Challenges, Ask(f, w, c)
  PROVE  IInv'
<1>. USE DEF Ask
<1>1. \A d \in Challenges :
          /\ asked'[d] \in Challenge
          /\ d = c => asked'[d] = [stage |-> "open", flow |-> f, wallet |-> w]
          /\ d # c /\ asked[d].flow = f => asked'[d].stage = "void"
          /\ d # c /\ asked[d].flow # f => asked'[d] = asked[d]
  <2>. TAKE d \in Challenges
  <2>1. /\ asked[d] \in Challenge
        /\ asked'[d] = IF d = c THEN [stage |-> "open", flow |-> f, wallet |-> w]
                       ELSE IF asked[d].flow = f THEN [asked[d] EXCEPT !.stage = "void"]
                       ELSE asked[d]
    BY DEF IInv, TypeOK
  <2>2. /\ [stage |-> "open", flow |-> f, wallet |-> w] \in Challenge
        /\ [asked[d] EXCEPT !.stage = "void"] \in Challenge
        /\ [asked[d] EXCEPT !.stage = "void"].stage = "void"
    BY <2>1 DEF Challenge
  <2>. HIDE DEF Ask
  <2>3. QED
    BY <2>1, <2>2
<1>2. /\ asked' \in [Challenges -> Challenge]
      /\ newest' \in [Flows -> [wallet : Challenges \cup {None}, email : Codes \cup {None}]]
      /\ newest'[f].wallet = c
      /\ \A g \in Flows : newest'[g].email = newest[g].email /\ (g # f => newest'[g] = newest[g])
  <2>1. asked' \in [Challenges -> Challenge]
    BY <1>1
  <2>2. newest[f] \in [wallet : Challenges \cup {None}, email : Codes \cup {None}]
    BY DEF IInv, TypeOK
  <2>3. [newest[f] EXCEPT !.wallet = c] \in [wallet : Challenges \cup {None}, email : Codes \cup {None}]
    BY <2>2
  <2>4. QED
    BY <2>1, <2>2, <2>3 DEF IInv, TypeOK
<1>3. TypeOK'
  BY <1>2 DEF IInv, TypeOK, identities
<1>4. Filled'
  <2>1. ASSUME NEW d \in Challenges, asked'[d].stage = "open"
        PROVE  /\ asked'[d].flow \in Flows /\ asked'[d].wallet \in Wallets
               /\ newest'[asked'[d].flow].wallet = d
    BY <2>1, <1>1, <1>2 DEF IInv, Filled
  <2>2. \A k \in Codes : code[k].stage = "open" => (~supabase => newest'[code[k].flow].email = k)
    BY <1>2 DEF IInv, Filled
  <2>3. QED
    BY <2>1, <2>2 DEF IInv, Filled
<1>5. Identities' /\ Bound'
  BY DEF IInv, Identities, Bound, Founded, identities
<1>6. Counted'
  BY RowsKept
<1>7. QED
  BY <1>3, <1>4, <1>5, <1>6 DEF IInv

LEMMA AuthorizeKeeps ==
  ASSUME IInv, NEW p \in Pages, Authorize(p)
  PROVE  IInv'
<1>. DEFINE f == page[p].flow
            c == page[p].proof
            w == asked[c].wallet
<1>1. f \in Flows /\ c \in Challenges
  BY DEF Authorize, IInv, Filled
<1>2. /\ page' \in [Pages -> Page]
      /\ \A q \in Pages : page'[q] = Idle \/ page'[q] = page[q]
  BY DEF Authorize, IInv, TypeOK, Page, Idle
<1>3. CASE Live(f) /\ Stands(f, c) /\ Attachable(f, wallet, w)
  <2>1. /\ wallet' = [wallet EXCEPT ![Proves(f, wallet, w)] = w]
        /\ asked' = [asked EXCEPT ![c].stage = "void"]
        /\ Record(f, w, Proves(f, wallet, w), c)
        /\ UNCHANGED <<now, supabase, email, code, sessions, newest, issued, exchanged>>
    BY <1>3 DEF Authorize
  <2>2. w \in Wallets
    BY <1>1, <1>3 DEF Stands, IInv, Filled
  <2>3. /\ Identities' /\ Bound'
        /\ wallet' \in [Accounts -> Wallets \cup {None}]
        /\ flow' \in [Flows -> Flow]
        /\ proved' \subseteq Flows \X (Wallets \cup Emails)
    BY <1>1, <1>3, <2>1, <2>2, WalletProved
  <2>4. /\ asked' \in [Challenges -> Challenge]
        /\ \A d \in Challenges : asked'[d].stage = "open" => asked'[d] = asked[d]
    <3>1. asked[c] \in Challenge
      BY <1>1 DEF IInv, TypeOK
    <3>2. [asked[c] EXCEPT !.stage = "void"] \in Challenge
      BY <3>1 DEF Challenge
    <3>3. QED
      BY <1>1, <2>1, <3>1, <3>2 DEF IInv, TypeOK, Challenge
  <2>5. TypeOK'
    BY <1>1, <1>2, <2>1, <2>3, <2>4 DEF Record, IInv, TypeOK
  <2>6. Filled'
    BY <1>2, <2>1, <2>4, SMTT(30) DEF IInv, Filled, Idle
  <2>7. Counted'
    BY <2>1, RowsKept
  <2>8. QED
    BY <2>3, <2>5, <2>6, <2>7 DEF IInv
<1>4. CASE ~(Live(f) /\ Stands(f, c) /\ Attachable(f, wallet, w))
  <2>1. UNCHANGED <<now, supabase, wallet, email, flow, asked, code, sessions, proved, used, newest, issued, exchanged>>
    BY <1>4 DEF Authorize
  <2>2. TypeOK'
    BY <1>2, <2>1 DEF IInv, TypeOK
  <2>3. Filled'
    BY <1>2, <2>1 DEF IInv, Filled, Idle
  <2>4. Identities' /\ Bound'
    BY <2>1 DEF IInv, Identities, Bound, Founded
  <2>5. Counted'
    BY <2>1, RowsKept
  <2>6. QED
    BY <2>2, <2>3, <2>4, <2>5 DEF IInv
<1>5. QED
  BY <1>3, <1>4

\* The history of a request for a code.
LEMMA CodeRequested ==
  ASSUME IInv, NEW f \in Flows, NEW e \in Emails, NEW k \in Codes, Request(f, e, k)
  PROVE  /\ newest' \in [Flows -> [wallet : Challenges \cup {None}, email : Codes \cup {None}]]
         /\ newest'[f].email = k
         /\ \A g \in Flows : newest'[g].wallet = newest[g].wallet /\ (g # f => newest'[g] = newest[g])
         /\ issued' = issued \cup {<<e, now, k>>} /\ issued' \subseteq Emails \X (0..MaxTime) \X Codes
<1>1. newest[f] \in [wallet : Challenges \cup {None}, email : Codes \cup {None}]
  BY DEF IInv, TypeOK
<1>2. [newest[f] EXCEPT !.email = k] \in [wallet : Challenges \cup {None}, email : Codes \cup {None}]
  BY <1>1
<1>3. issued' = issued \cup {<<e, now, k>>} /\ <<e, now, k>> \in Emails \X (0..MaxTime) \X Codes
  BY DEF Request, IInv, TypeOK
<1>4. issued' \subseteq Emails \X (0..MaxTime) \X Codes
  BY <1>3 DEF IInv, TypeOK
<1>5. QED
  BY <1>1, <1>2, <1>3, <1>4 DEF Request, IInv, TypeOK

\* A stored code: its row is the one more that the limits allowed.  A code of our own is
\* requested with it; Supabase's was requested before.
LEMMA CodeStored ==
  ASSUME IInv, NEW f \in Flows, NEW e \in Emails, NEW k \in Codes, k \notin Rows,
         Store(f, e, k), UNCHANGED <<now, supabase, asked>>,
         \/ ~supabase /\ Request(f, e, k)
         \/ supabase /\ UNCHANGED <<newest, issued>>
  PROVE  /\ code' \in [Codes -> Code]
         /\ newest' \in [Flows -> [wallet : Challenges \cup {None}, email : Codes \cup {None}]]
         /\ issued' \subseteq Emails \X (0..MaxTime) \X Codes
         /\ Counted'
         /\ \A c \in Challenges : asked[c].stage = "open" => newest'[asked[c].flow].wallet = c
         /\ \A l \in Codes : code'[l].stage \in {"pending", "open", "void"} =>
               code'[l].flow \in Flows /\ code'[l].email \in Emails
         /\ \A l \in Codes : code'[l].stage = "open" =>
               code'[l].wrong < Attempts /\ (~supabase => newest'[code'[l].flow].email = l)
<1>1. /\ code'[k] = [stage |-> "open", flow |-> f, email |-> e, created |-> now, wrong |-> 0]
      /\ code'[k] \in Code
  BY DEF Store, IInv, TypeOK, Code
<1>2. ASSUME NEW l \in Codes, l # k
      PROVE  /\ code'[l] \in Code
             /\ code'[l].flow = code[l].flow /\ code'[l].email = code[l].email
             /\ code'[l].created = code[l].created
             /\ code'[l].stage = code[l].stage \/ (code[l].stage = "open" /\ code'[l].stage = "void")
             /\ code'[l].stage = "open" => code'[l] = code[l] /\ code[l].flow # f
  <2>1. code[l] \in Code
    BY DEF IInv, TypeOK
  <2>2. CASE l \in Rows /\ code[l].flow = f
    <3>1. code'[l] = [code[l] EXCEPT !.stage = "void"]
      BY <2>2, <1>2 DEF Store
    <3>2. QED
      BY <2>1, <2>2, <3>1 DEF Code, Rows
  <2>3. CASE ~(l \in Rows /\ code[l].flow = f)
    <3>1. code'[l] = code[l]
      BY <2>3, <1>2 DEF Store
    <3>2. QED
      BY <2>1, <2>3, <3>1 DEF Rows
  <2>4. QED
    BY <2>2, <2>3
<1>3. code' \in [Codes -> Code]
  BY <1>1, <1>2 DEF Store
<1>4. /\ newest' \in [Flows -> [wallet : Challenges \cup {None}, email : Codes \cup {None}]]
      /\ ~supabase => newest'[f].email = k
      /\ \A g \in Flows : newest'[g].wallet = newest[g].wallet /\ (g # f => newest'[g] = newest[g])
      /\ issued' \subseteq Emails \X (0..MaxTime) \X Codes
      /\ ~supabase => issued' = issued \cup {<<e, now, k>>}
  <2>1. CASE ~supabase /\ Request(f, e, k)
    BY <2>1, CodeRequested
  <2>2. CASE supabase /\ UNCHANGED <<newest, issued>>
    BY <2>2 DEF IInv, TypeOK
  <2>3. QED
    BY <2>1, <2>2
<1>5. now \in Nat /\ (supabase => issued' = issued)
  BY DEF IInv, TypeOK
<1>6. Counted'
  <2>1. CodesRationed'
    <3>1. CASE supabase
      BY <3>1 DEF CodesRationed
    <3>2. CASE ~supabase
      BY <3>2, <1>4, Rations DEF Store, CodesRationed
    <3>3. QED
      BY <3>1, <3>2
  <2>2. Rows' = Rows \cup {k}
    <3>1. k \in Rows'
      BY <1>1 DEF Rows
    <3>2. \A l \in Codes : l # k => (l \in Rows' <=> l \in Rows)
      BY <1>2 DEF Rows
    <3>3. QED
      BY <3>1, <3>2 DEF Rows
  <2>3. \A l \in Rows' : code'[l].created <= now
    BY <2>2, <1>1, <1>2, <1>5 DEF IInv, Counted, Rows
  <2>4. \A y \in issued' : y[2] <= now
    <3>1. \A y \in issued : y[2] <= now
      BY DEF IInv, Counted
    <3>2. <<e, now, k>>[2] <= now
      BY <1>5
    <3>3. QED
      BY <3>1, <3>2, <1>4, <1>5
  <2>5. ASSUME ~supabase, NEW y \in issued', now < y[2] + Window
        PROVE  HasRow(y)'
    <3>1. CASE y = <<e, now, k>>
      <4>1. y[1] = e /\ y[2] = now /\ y[3] = k
        BY <3>1
      <4>2. k \in Rows' /\ code'[k].email = e /\ code'[k].created = now
        BY <2>2, <1>1
      <4>3. QED
        BY <4>1, <4>2 DEF HasRow
    <3>2. CASE y \in issued
      <4>1. HasRow(y)
        BY <2>5, <3>2 DEF IInv, Counted
      <4>2. \A l \in Rows : l \in Rows' /\ code'[l].email = code[l].email /\ code'[l].created = code[l].created
        BY <2>2, <1>2 DEF Rows
      <4>3. QED
        BY <4>1, <4>2 DEF HasRow
    <3>3. QED
      BY <3>1, <3>2, <2>5, <1>4
  <2>6. QED
    BY <2>1, <2>3, <2>4, <2>5 DEF Counted
<1>7. \A c \in Challenges : asked[c].stage = "open" => newest'[asked[c].flow].wallet = c
  BY <1>4 DEF IInv, Filled
<1>8. \A l \in Codes : code'[l].stage \in {"pending", "open", "void"} =>
          code'[l].flow \in Flows /\ code'[l].email \in Emails
  BY <1>1, <1>2 DEF IInv, Filled
<1>9. ASSUME NEW l \in Codes, code'[l].stage = "open"
      PROVE  code'[l].wrong < Attempts /\ (~supabase => newest'[code'[l].flow].email = l)
  <2>1. CASE l = k
    BY <2>1, <1>1, <1>4
  <2>2. CASE l # k
    BY <2>2, <1>2, <1>4, <1>9 DEF IInv, Filled
  <2>3. QED
    BY <2>1, <2>2
<1>10. QED
  BY <1>3, <1>4, <1>6, <1>7, <1>8, <1>9

\* A proved code, in whichever way it was entered.
LEMMA CodeProved ==
  ASSUME IInv, NEW f \in Flows, NEW k \in Codes, ProveEmail(f, k),
         UNCHANGED <<now, supabase, wallet, asked, sessions, newest, issued, exchanged>>,
         page' \in [Pages -> Page], \A q \in Pages : page'[q] = Idle \/ page'[q] = page[q]
  PROVE  IInv'
<1>. DEFINE e == code[k].email
<1>1. e \in Emails
  BY DEF ProveEmail, IInv, Filled
<1>2. /\ Live(f) /\ Attachable(f, email, e)
      /\ email' = [email EXCEPT ![Proves(f, email, e)] = e]
      /\ code' = [code EXCEPT ![k].stage = "void"] /\ code[k].stage = "open"
      /\ Record(f, e, Proves(f, email, e), k)
  BY DEF ProveEmail
<1>3. /\ Identities' /\ Bound'
      /\ email' \in [Accounts -> Emails \cup {None}]
      /\ flow' \in [Flows -> Flow]
      /\ proved' \subseteq Flows \X (Wallets \cup Emails)
  BY <1>1, <1>2, EmailProved
<1>4. /\ code' \in [Codes -> Code]
      /\ \A l \in Codes : code'[l] = code[l] \/ code'[l].stage = "void"
      /\ \A l \in Codes : /\ code'[l].flow = code[l].flow /\ code'[l].email = code[l].email
                          /\ code'[l].created = code[l].created
                          /\ (code'[l].stage \in {"open", "void"}) = (code[l].stage \in {"open", "void"})
                          /\ code'[l].stage \in {"pending", "open", "void"} =>
                                code[l].stage \in {"pending", "open", "void"}
  <2>1. code[k] \in Code
    BY DEF IInv, TypeOK
  <2>2. [code[k] EXCEPT !.stage = "void"] \in Code
    BY <2>1 DEF Code
  <2>3. code \in [Codes -> Code]
    BY DEF IInv, TypeOK
  <2>4. QED
    BY <1>2, <2>1, <2>2, <2>3 DEF Code
<1>5. TypeOK'
  BY <1>2, <1>3, <1>4 DEF Record, IInv, TypeOK
<1>6. Filled'
  BY <1>4 DEF IInv, Filled, Idle
<1>7. Counted'
  BY <1>4, RowsKept DEF Rows
<1>8. QED
  BY <1>3, <1>5, <1>6, <1>7 DEF IInv

LEMMA CodeKeeps ==
  ASSUME IInv, NEW f \in Flows, NEW k \in Codes,
         \/ \E e \in Emails : SendCode(f, e, k) \/ SendOtp(f, e, k)
         \/ RightCode(f, k) \/ WrongCode(f, k)
  PROVE  IInv'
<1>0. code \in [Codes -> Code] /\ code[k] \in Code
  BY DEF IInv, TypeOK
<1>1. ASSUME NEW e \in Emails, SendCode(f, e, k)
      PROVE  IInv'
  <2>1. k \notin Rows
    BY <1>1 DEF SendCode, Rows
  <2>2. /\ code' \in [Codes -> Code]
        /\ newest' \in [Flows -> [wallet : Challenges \cup {None}, email : Codes \cup {None}]]
        /\ issued' \subseteq Emails \X (0..MaxTime) \X Codes
        /\ Counted'
        /\ \A c \in Challenges : asked[c].stage = "open" => newest'[asked[c].flow].wallet = c
        /\ \A l \in Codes : code'[l].stage \in {"pending", "open", "void"} =>
              code'[l].flow \in Flows /\ code'[l].email \in Emails
        /\ \A l \in Codes : code'[l].stage = "open" =>
              code'[l].wrong < Attempts /\ (~supabase => newest'[code'[l].flow].email = l)
    BY <1>1, <2>1, CodeStored DEF SendCode
  <2>3. TypeOK'
    BY <1>1, <2>2 DEF SendCode, IInv, TypeOK, identities
  <2>4. Filled'
    BY <1>1, <2>2 DEF SendCode, IInv, Filled
  <2>5. Identities' /\ Bound'
    BY <1>1 DEF SendCode, IInv, Identities, Bound, Founded, identities
  <2>6. QED
    BY <2>2, <2>3, <2>4, <2>5 DEF IInv
<1>2. CASE RightCode(f, k)
  BY <1>2, CodeProved DEF RightCode, IInv, TypeOK
<1>3. CASE WrongCode(f, k)
  <2>. DEFINE tries == code[k].wrong + 1
              s == IF tries >= Attempts THEN "void" ELSE "open"
              r == [code[k] EXCEPT !.wrong = tries, !.stage = s]
  <2>1. code[k].stage = "open" /\ tries \in 0..Attempts
    BY <1>3, <1>0 DEF WrongCode, IInv, Filled, Code
  <2>2. /\ r \in Code /\ r.flow = code[k].flow /\ r.email = code[k].email /\ r.created = code[k].created
        /\ r.stage = s /\ r.wrong = tries
    <3>1. s \in {"open", "void"}
      OBVIOUS
    <3>. HIDE DEF s, tries
    <3>2. QED
      BY <1>0, <2>1, <3>1 DEF Code
  <2>2a. s \in {"open", "void"} /\ (s = "open" => tries < Attempts)
    BY <2>1
  <2>3. code'[k] = r /\ \A l \in Codes : l # k => code'[l] = code[l]
    BY <1>3, <1>0 DEF WrongCode
  <2>. HIDE DEF r, s, tries
  <2>4. code' \in [Codes -> Code]
    BY <1>3, <1>0, <2>2, <2>3 DEF WrongCode
  <2>5. TypeOK'
    BY <1>3, <2>4 DEF WrongCode, IInv, TypeOK, identities, history
  <2>6. Filled'
    <3>1. ASSUME NEW l \in Codes
          PROVE  /\ code'[l].stage \in {"pending", "open", "void"} =>
                       code'[l].flow \in Flows /\ code'[l].email \in Emails
                 /\ code'[l].stage = "open" =>
                       code'[l].wrong < Attempts /\ (~supabase => newest[code'[l].flow].email = l)
      <4>1. CASE l = k
        BY <4>1, <2>1, <2>2, <2>2a, <2>3 DEF IInv, Filled
      <4>2. CASE l # k
        BY <4>2, <2>3 DEF IInv, Filled
      <4>3. QED
        BY <4>1, <4>2
    <3>2. UNCHANGED <<supabase, asked, newest, page>>
      BY <1>3 DEF WrongCode, history
    <3>3. QED
      BY <3>1, <3>2 DEF IInv, Filled
  <2>7. Counted'
    <3>1. \A l \in Codes :
              /\ code'[l].email = code[l].email /\ code'[l].created = code[l].created
              /\ (code'[l].stage \in {"open", "void"}) = (code[l].stage \in {"open", "void"})
      BY <2>1, <2>2, <2>2a, <2>3
    <3>2. QED
      BY <1>3, <3>1, RowsKept DEF WrongCode, history, Rows
  <2>8. Identities' /\ Bound'
    BY <1>3 DEF WrongCode, IInv, Identities, Bound, Founded, identities, history
  <2>9. QED
    BY <2>5, <2>6, <2>7, <2>8 DEF IInv
<1>4. ASSUME NEW e \in Emails, SendOtp(f, e, k)
      PROVE  IInv'
  <2>. DEFINE r == [stage |-> "pending", flow |-> f, email |-> e, created |-> 0, wrong |-> 0]
  <2>1. r \in Code
    BY DEF Code
  <2>2. code'[k] = r /\ \A l \in Codes : l # k => code'[l] = code[l]
    BY <1>4, <1>0 DEF SendOtp
  <2>3. code' \in [Codes -> Code]
    BY <1>4, <1>0, <2>1, <2>2 DEF SendOtp
  <2>3a. /\ newest' \in [Flows -> [wallet : Challenges \cup {None}, email : Codes \cup {None}]]
         /\ \A g \in Flows : newest'[g].wallet = newest[g].wallet
         /\ issued' = issued \cup {<<e, now, k>>} /\ issued' \subseteq Emails \X (0..MaxTime) \X Codes
    BY <1>4, CodeRequested DEF SendOtp
  <2>4. TypeOK'
    BY <1>4, <2>3, <2>3a DEF SendOtp, IInv, TypeOK, identities
  <2>5. Filled'
    <3>1. supabase /\ UNCHANGED <<supabase, asked, page>>
      BY <1>4 DEF SendOtp
    <3>2. QED
      BY <2>2, <2>3a, <3>1 DEF IInv, Filled
  <2>6. Counted'
    <3>1. supabase' /\ now' = now /\ now \in Nat
      BY <1>4 DEF SendOtp, IInv, TypeOK
    <3>2. \A l \in Rows' : l \in Rows /\ code'[l] = code[l]
      BY <2>2 DEF Rows
    <3>3. \A y \in issued' : y[2] <= now
      <4>1. \A y \in issued : y[2] <= now
        BY DEF IInv, Counted
      <4>2. <<e, now, k>>[2] <= now
        BY <3>1
      <4>3. QED
        BY <4>1, <4>2, <2>3a
    <3>4. QED
      BY <3>1, <3>2, <3>3 DEF IInv, Counted, CodesRationed
  <2>7. Identities' /\ Bound'
    BY <1>4 DEF SendOtp, IInv, Identities, Bound, Founded, identities
  <2>8. QED
    BY <2>4, <2>5, <2>6, <2>7 DEF IInv
<1>5. QED
  BY <1>1, <1>2, <1>3, <1>4

\* Requests that begin or end without an effect.
LEMMA PageKeeps ==
  ASSUME IInv, NEW p \in Pages,
         \/ \E f \in Flows, c \in Challenges : BeginVerify(p, f, c)
         \/ \E f \in Flows, k \in Codes : EnterOtp(p, f, k)
         \/ Refuse(p)
  PROVE  IInv'
<1>1. /\ UNCHANGED <<now, supabase, wallet, email, flow, asked, code, sessions, proved, used, newest, issued, exchanged>>
  BY DEF BeginVerify, EnterOtp, Refuse, identities, history
<1>2. PICK r \in Page :
          /\ page' = [page EXCEPT ![p] = r]
          /\ r.place # "idle" => r.flow \in Flows
          /\ r.place = "signing" => r.proof \in Challenges
          /\ r.place \in {"checking", "stored"} => r.proof \in Codes
  <2>1. CASE \E f \in Flows, c \in Challenges : BeginVerify(p, f, c)
    <3>1. PICK f \in Flows, c \in Challenges : page' = [page EXCEPT ![p] = [place |-> "signing", flow |-> f, proof |-> c]]
      BY <2>1 DEF BeginVerify
    <3>2. [place |-> "signing", flow |-> f, proof |-> c] \in Page
      BY DEF Page
    <3>3. QED
      BY <3>1, <3>2
  <2>2. CASE \E f \in Flows, k \in Codes : EnterOtp(p, f, k)
    <3>1. PICK f \in Flows, k \in Codes : page' = [page EXCEPT ![p] = [place |-> "checking", flow |-> f, proof |-> k]]
      BY <2>2 DEF EnterOtp
    <3>2. [place |-> "checking", flow |-> f, proof |-> k] \in Page
      BY DEF Page
    <3>3. QED
      BY <3>1, <3>2
  <2>3. CASE Refuse(p)
    <3>1. Idle \in Page
      BY DEF Page, Idle
    <3>2. QED
      BY <2>3, <3>1 DEF Refuse, Idle
  <2>4. QED
    BY <2>1, <2>2, <2>3
<1>3. TypeOK'
  BY <1>1, <1>2 DEF IInv, TypeOK
<1>4. Filled'
  BY <1>1, <1>2 DEF IInv, TypeOK, Filled
<1>5. Identities' /\ Bound'
  BY <1>1 DEF IInv, Identities, Bound, Founded
<1>6. Counted'
  BY <1>1, RowsKept
<1>7. QED
  BY <1>3, <1>4, <1>5, <1>6 DEF IInv

LEMMA OtpKeeps ==
  ASSUME IInv, NEW p \in Pages, StoreOtp(p) \/ ProveOtp(p)
  PROVE  IInv'
<1>1. page[p].flow \in Flows /\ page[p].proof \in Codes
  BY DEF StoreOtp, ProveOtp, IInv, Filled
<1>2. CASE StoreOtp(p)
  <2>. DEFINE f == page[p].flow
              k == page[p].proof
  <2>1. k \notin Rows /\ code[k].email \in Emails
    BY <1>1, <1>2 DEF StoreOtp, Rows, IInv, Filled
  <2>2. /\ code' \in [Codes -> Code]
        /\ newest' \in [Flows -> [wallet : Challenges \cup {None}, email : Codes \cup {None}]]
        /\ issued' \subseteq Emails \X (0..MaxTime) \X Codes
        /\ Counted'
        /\ \A c \in Challenges : asked[c].stage = "open" => newest'[asked[c].flow].wallet = c
        /\ \A l \in Codes : code'[l].stage \in {"pending", "open", "void"} =>
              code'[l].flow \in Flows /\ code'[l].email \in Emails
        /\ \A l \in Codes : code'[l].stage = "open" =>
              code'[l].wrong < Attempts /\ (~supabase => newest'[code'[l].flow].email = l)
    <3>1. supabase /\ UNCHANGED <<now, supabase, asked, newest, issued>> /\ Store(f, code[k].email, k)
      BY <1>2, <2>1 DEF StoreOtp, IInv, Filled, history
    <3>2. QED
      BY <1>1, <2>1, <3>1, CodeStored
  <2>3. /\ page' \in [Pages -> Page]
        /\ page'[p].flow \in Flows /\ page'[p].proof \in Codes /\ page'[p].place = "stored"
        /\ \A q \in Pages : q # p => page'[q] = page[q]
    <3>1. page[p] \in Page /\ page \in [Pages -> Page]
      BY DEF IInv, TypeOK
    <3>2. page' = [page EXCEPT ![p].place = "stored"]
      BY <1>2 DEF StoreOtp
    <3>3. [page[p] EXCEPT !.place = "stored"] \in Page
      BY <3>1 DEF Page
    <3>4. QED
      BY <1>1, <3>1, <3>2, <3>3 DEF Page
  <2>4. TypeOK'
    BY <1>2, <2>2, <2>3 DEF StoreOtp, IInv, TypeOK, identities, history
  <2>5. Filled'
    BY <1>2, <2>2, <2>3 DEF StoreOtp, IInv, Filled, history
  <2>6. Identities' /\ Bound'
    BY <1>2 DEF StoreOtp, IInv, Identities, Bound, Founded, identities, history
  <2>7. QED
    BY <2>2, <2>4, <2>5, <2>6 DEF IInv
<1>3. CASE ProveOtp(p)
  <2>1. page' \in [Pages -> Page] /\ \A q \in Pages : page'[q] = Idle \/ page'[q] = page[q]
    BY <1>3 DEF ProveOtp, IInv, TypeOK, Page, Idle
  <2>2. QED
    BY <1>1, <1>3, <2>1, CodeProved DEF ProveOtp
<1>4. QED
  BY <1>2, <1>3

\* Time, lapses, prunings, restarts and the end of a session.
LEMMA TimeKeeps ==
  ASSUME IInv,
         Lapse \/ Prune \/ Restart \/ Tick \/ \E s \in sessions : EndSession(s)
  PROVE  IInv'
<1>0. /\ code \in [Codes -> Code] /\ flow \in [Flows -> Flow] /\ asked \in [Challenges -> Challenge]
      /\ now \in Nat /\ Window \in Nat
  BY DEF IInv, TypeOK
<1>1. CASE Lapse
  <2>0. UNCHANGED <<now, supabase, wallet, email, sessions, page, proved, used, newest, issued, exchanged>>
    BY <1>1 DEF Lapse, identities, history
  <2>1. CASE \E f \in Flows : Live(f) /\ flow' = [flow EXCEPT ![f].stage = "ended"] /\ UNCHANGED <<asked, code>>
    <3>1. PICK f \in Flows : flow[f].stage = "open" /\ flow' = [flow EXCEPT ![f].stage = "ended"]
                             /\ UNCHANGED <<asked, code>>
      BY <2>1 DEF Live
    <3>2. [flow[f] EXCEPT !.stage = "ended"] \in Flow
      BY <1>0 DEF Flow
    <3>3. flow' \in [Flows -> Flow]
      BY <1>0, <3>1, <3>2
    <3>4. \A g \in Flows : /\ flow'[g].account = flow[g].account /\ flow'[g].link = flow[g].link
                           /\ flow'[g].stage = flow[g].stage \/ flow'[g].stage = "ended"
      BY <1>0, <3>1 DEF Flow
    <3>5. TypeOK'
      BY <2>0, <3>1, <3>3 DEF IInv, TypeOK
    <3>6. Filled' /\ Identities' /\ Counted'
      BY <2>0, <3>1, RowsKept DEF IInv, Filled, Identities, Founded
    <3>7. Bound'
      <4>1. \A x \in proved : x[1] \in Flows
        BY DEF IInv, TypeOK
      <4>2. \A s \in sessions : s.flow \in Flows
        BY DEF IInv, TypeOK, Session
      <4>3. \A g \in Flows :
                /\ flow'[g].stage = "unused" => flow'[g].account = None
                /\ flow'[g].stage # "ended" => exchanged[g] = 0
        BY <3>4 DEF IInv, Bound
      <4>4. QED
        BY <2>0, <3>4, <4>1, <4>2, <4>3 DEF IInv, Bound, Founded
    <3>8. QED
      BY <3>5, <3>6, <3>7 DEF IInv
  <2>2. CASE \E c \in Challenges : /\ asked[c].stage = "open" /\ asked' = [asked EXCEPT ![c].stage = "void"]
                                   /\ UNCHANGED <<flow, code>>
    <3>1. PICK c \in Challenges : asked' = [asked EXCEPT ![c].stage = "void"] /\ UNCHANGED <<flow, code>>
      BY <2>2
    <3>2. [asked[c] EXCEPT !.stage = "void"] \in Challenge
      BY <1>0 DEF Challenge
    <3>3. asked' \in [Challenges -> Challenge]
      BY <1>0, <3>1, <3>2
    <3>4. \A d \in Challenges : asked'[d].stage = "open" => asked'[d] = asked[d]
      BY <1>0, <3>1 DEF Challenge
    <3>5. TypeOK'
      BY <2>0, <3>1, <3>3 DEF IInv, TypeOK
    <3>6. Filled'
      BY <2>0, <3>1, <3>4 DEF IInv, Filled
    <3>7. Identities' /\ Bound' /\ Counted'
      BY <2>0, <3>1, RowsKept DEF IInv, Identities, Bound, Founded
    <3>8. QED
      BY <3>5, <3>6, <3>7 DEF IInv
  <2>3. CASE \E k \in Codes : /\ code[k].stage = "open" /\ code' = [code EXCEPT ![k].stage = "void"]
                              /\ UNCHANGED <<flow, asked>>
    <3>1. PICK k \in Codes : code[k].stage = "open" /\ code' = [code EXCEPT ![k].stage = "void"]
                             /\ UNCHANGED <<flow, asked>>
      BY <2>3
    <3>2. [code[k] EXCEPT !.stage = "void"] \in Code
      BY <1>0 DEF Code
    <3>3. code' \in [Codes -> Code]
      BY <1>0, <3>1, <3>2
    <3>4. \A l \in Codes : /\ code'[l].flow = code[l].flow /\ code'[l].email = code[l].email
                           /\ code'[l].created = code[l].created
                           /\ code'[l].stage = "open" => code'[l] = code[l]
                           /\ (code'[l].stage \in {"open", "void"}) = (code[l].stage \in {"open", "void"})
                           /\ code'[l].stage \in {"pending", "open", "void"} =>
                                 code[l].stage \in {"pending", "open", "void"}
      BY <1>0, <3>1 DEF Code
    <3>5. TypeOK'
      BY <2>0, <3>1, <3>3 DEF IInv, TypeOK
    <3>6. Filled'
      BY <2>0, <3>1, <3>4 DEF IInv, Filled
    <3>7. Identities' /\ Bound'
      BY <2>0, <3>1 DEF IInv, Identities, Bound, Founded
    <3>8. Counted'
      BY <2>0, <3>4, RowsKept DEF Rows
    <3>9. QED
      BY <3>5, <3>6, <3>7, <3>8 DEF IInv
  <2>4. QED
    BY <1>1, <2>1, <2>2, <2>3 DEF Lapse
<1>2. CASE Prune
  <2>0. UNCHANGED <<now, supabase, wallet, email, flow, asked, sessions, page, proved, used, newest, issued, exchanged>>
    BY <1>2 DEF Prune, identities, history
  <2>1. ASSUME NEW k \in Codes
        PROVE  /\ code'[k] \in Code
               /\ k \in Rows /\ Uncounted(k) => code'[k].stage = "deleted"
               /\ ~(k \in Rows /\ Uncounted(k)) => code'[k] = code[k]
    <3>1. [code[k] EXCEPT !.stage = "deleted"] \in Code /\ code[k] \in Code
      BY <1>0 DEF Code
    <3>2. QED
      BY <1>2, <3>1 DEF Prune, Code
  <2>2. code' \in [Codes -> Code]
    BY <1>2, <2>1 DEF Prune
  <2>3. TypeOK'
    BY <2>0, <2>2 DEF IInv, TypeOK
  <2>4. Filled'
    BY <2>0, <2>1 DEF IInv, Filled
  <2>5. Identities' /\ Bound'
    BY <2>0 DEF IInv, Identities, Bound, Founded
  <2>6. Counted'
    <3>1. \A k \in Rows' : k \in Rows /\ code'[k] = code[k]
      BY <2>1 DEF Rows
    <3>2. \A k \in Rows : now < code[k].created + Window => k \in Rows' /\ code'[k] = code[k]
      <4>1. \A k \in Rows : now < code[k].created + Window => ~Uncounted(k)
        BY <1>0 DEF Uncounted, Rows, Code
      <4>2. QED
        BY <2>1, <4>1 DEF Rows
    <3>3. CodesRationed'
      BY <2>0 DEF IInv, Counted, CodesRationed, EveryCodeRationed
    <3>4. ASSUME ~supabase, NEW y \in issued, now < y[2] + Window
          PROVE  HasRow(y)'
      <4>1. HasRow(y)
        BY <3>4 DEF IInv, Counted
      <4>2. QED
        BY <3>2, <3>4, <4>1 DEF HasRow
    <3>5. QED
      BY <2>0, <3>1, <3>3, <3>4 DEF IInv, Counted
  <2>7. QED
    BY <2>3, <2>4, <2>5, <2>6 DEF IInv
<1>3. CASE Restart
  <2>0. UNCHANGED <<now, supabase, wallet, email, flow, asked, sessions, proved, used, newest, issued, exchanged>>
    BY <1>3 DEF Restart, identities, history
  <2>1. ASSUME NEW k \in Codes
        PROVE  /\ code'[k] \in Code
               /\ code[k].stage = "pending" => code'[k].stage = "deleted"
               /\ code[k].stage # "pending" => code'[k] = code[k]
    <3>1. [code[k] EXCEPT !.stage = "deleted"] \in Code /\ code[k] \in Code
      BY <1>0 DEF Code
    <3>2. QED
      BY <1>3, <3>1 DEF Restart, Code
  <2>2. code' \in [Codes -> Code] /\ page' = [p \in Pages |-> Idle] /\ page' \in [Pages -> Page]
    BY <1>3, <2>1 DEF Restart, Page, Idle
  <2>3. TypeOK'
    BY <2>0, <2>2 DEF IInv, TypeOK
  <2>4. Filled'
    BY <2>0, <2>1, <2>2 DEF IInv, Filled, Idle
  <2>5. Identities' /\ Bound'
    BY <2>0 DEF IInv, Identities, Bound, Founded
  <2>6. Counted'
    <3>1. \A k \in Codes : (code'[k].stage \in {"open", "void"}) = (code[k].stage \in {"open", "void"})
      BY <2>1
    <3>2. \A k \in Rows : code'[k] = code[k]
      BY <2>1 DEF Rows
    <3>3. QED
      BY <2>0, <3>1, <3>2, RowsKept
  <2>7. QED
    BY <2>3, <2>4, <2>5, <2>6 DEF IInv
<1>4. CASE Tick
  <2>0. /\ now' = now + 1 /\ now < MaxTime
        /\ UNCHANGED <<supabase, wallet, email, flow, asked, code, sessions, page, proved, used, newest, issued, exchanged>>
    BY <1>4 DEF Tick, identities, history
  <2>1. TypeOK'
    BY <2>0 DEF IInv, TypeOK
  <2>2. Filled' /\ Identities' /\ Bound'
    BY <2>0 DEF IInv, Filled, Identities, Bound, Founded
  <2>3. Counted'
    <3>1. Rows' = Rows /\ CodesRationed'
      BY <2>0 DEF Rows, IInv, Counted, CodesRationed, EveryCodeRationed
    <3>2. \A k \in Rows : code[k].created \in Nat /\ code[k].created <= now
      BY <1>0 DEF Rows, Code, IInv, Counted
    <3>3. \A y \in issued : y[2] \in Nat /\ y[2] <= now
      BY DEF IInv, TypeOK, Counted
    <3>4. ASSUME ~supabase, NEW y \in issued, now + 1 < y[2] + Window
          PROVE  HasRow(y)'
      <4>1. now < y[2] + Window
        BY <1>0, <3>3, <3>4
      <4>2. HasRow(y)
        BY <3>4, <4>1 DEF IInv, Counted
      <4>3. QED
        BY <2>0, <3>1, <4>2 DEF HasRow
    <3>5. \A k \in Rows : code[k].created <= now + 1
      BY <1>0, <3>2
    <3>6. \A y \in issued : y[2] <= now + 1
      BY <1>0, <3>3
    <3>7. QED
      BY <2>0, <3>1, <3>4, <3>5, <3>6 DEF Counted
  <2>4. QED
    BY <2>1, <2>2, <2>3 DEF IInv
<1>5. CASE \E s \in sessions : EndSession(s)
  <2>0. /\ sessions' \subseteq sessions
        /\ UNCHANGED <<now, supabase, wallet, email, flow, asked, code, page, proved, used, newest, issued, exchanged>>
    BY <1>5 DEF EndSession, identities, history
  <2>1. TypeOK'
    BY <2>0 DEF IInv, TypeOK
  <2>2. Filled' /\ Identities' /\ Bound'
    BY <2>0 DEF IInv, Filled, Identities, Bound, Founded
  <2>3. Counted'
    BY <2>0, RowsKept
  <2>4. QED
    BY <2>1, <2>2, <2>3 DEF IInv
<1>6. QED
  BY <1>1, <1>2, <1>3, <1>4, <1>5

LEMMA Step == IInv /\ [Next]_vars => IInv'
<1>. SUFFICES ASSUME IInv, [Next]_vars
              PROVE  IInv'
  OBVIOUS
<1>1. ASSUME NEW f \in Flows, FlowStep(f)
      PROVE  IInv'
  BY <1>1, FlowKeeps, AskKeeps, CodeKeeps DEF FlowStep
<1>2. ASSUME NEW p \in Pages, PageStep(p)
      PROVE  IInv'
  BY <1>2, PageKeeps, AuthorizeKeeps, OtpKeeps DEF PageStep
<1>3. CASE Lapse \/ Prune \/ Restart \/ Tick \/ \E s \in sessions : EndSession(s)
  BY <1>3, TimeKeeps
<1>4. CASE UNCHANGED vars
  <2>1. UNCHANGED <<now, supabase, wallet, email, flow, asked, code, sessions, page, proved, used, newest, issued, exchanged>>
    BY <1>4 DEF vars, identities, history
  <2>2. TypeOK' /\ Filled' /\ Identities' /\ Bound'
    BY <2>1 DEF IInv, TypeOK, Filled, Identities, Bound, Founded
  <2>3. Counted'
    BY <2>1, RowsKept
  <2>4. QED
    BY <2>2, <2>3 DEF IInv
<1>5. QED
  BY <1>1, <1>2, <1>3, <1>4 DEF Next

-----------------------------------------------------------------------------
(* What the invariant and the steps imply *)

LEMMA Proven == IInv => SessionIsProved
<1>. SUFFICES ASSUME IInv
              PROVE  SessionIsProved
  OBVIOUS
<1>1. ASSUME NEW s \in sessions
      PROVE  \E x \in proved : x[1] = s.flow
  <2>1. s.flow \in Flows /\ s.account # None
    BY DEF IInv, TypeOK, Session, Accounts
  <2>2. QED
    BY <2>1 DEF IInv, Bound
<1>2. ASSUME NEW s \in sessions, NEW x \in proved, x[1] = s.flow, NEW a \in Accounts
      PROVE  x[2] \in {wallet[a], email[a]} <=> a = s.account
  <2>1. s.account \in Accounts /\ x[2] \in Wallets \cup Emails /\ x[2] # None
    BY DEF IInv, TypeOK, Session
  <2>2. x[2] \in {wallet[s.account], email[s.account]}
    BY <1>2 DEF IInv, Bound
  <2>3. \A b \in Accounts : /\ wallet[b] \in Wallets \cup {None} /\ wallet[b] \notin Emails
                            /\ email[b] \in Emails \cup {None} /\ email[b] \notin Wallets
    BY DEF IInv, TypeOK
  <2>4. QED
    BY <2>1, <2>2, <2>3 DEF IInv, Identities
<1>3. \A f \in Flows : exchanged[f] <= 1
  BY DEF IInv, Bound
<1>4. QED
  BY <1>1, <1>2, <1>3 DEF SessionIsProved

\* No step takes an identity from an account, or a flow from its account.
LEMMA FinalStep ==
  ASSUME IInv, [Next]_vars
  PROVE  /\ \A a \in Accounts : /\ wallet[a] # None => wallet'[a] = wallet[a]
                                /\ email[a] # None => email'[a] = email[a]
         /\ \A f \in Flows : flow[f].account # None => flow'[f].account = flow[f].account
<1>. DEFINE Goal == /\ \A a \in Accounts : /\ wallet[a] # None => wallet'[a] = wallet[a]
                                           /\ email[a] # None => email'[a] = email[a]
                    /\ \A f \in Flows : flow[f].account # None => flow'[f].account = flow[f].account
<1>0. flow \in [Flows -> Flow] /\ \A f \in Flows : flow[f].stage = "unused" => flow[f].account = None
  BY DEF IInv, TypeOK, Bound
<1>1. ASSUME NEW f \in Flows, StartFlow(f) \/ LinkFlow(f) \/ Exchange(f)
      PROVE  Goal
  <2>1. UNCHANGED <<wallet, email>>
    BY <1>1 DEF StartFlow, LinkFlow, Exchange, identities
  <2>2. \A g \in Flows : flow[g].account # None => flow'[g].account = flow[g].account
    BY <1>0, <1>1 DEF StartFlow, LinkFlow, Exchange, Consumed, Flow
  <2>3. QED
    BY <2>1, <2>2
<1>2. ASSUME NEW p \in Pages, Authorize(p)
      PROVE  Goal
  <2>. DEFINE f == page[p].flow
              c == page[p].proof
              w == asked[c].wallet
  <2>1. f \in Flows /\ c \in Challenges
    BY <1>2 DEF Authorize, IInv, Filled
  <2>2. CASE Live(f) /\ Stands(f, c) /\ Attachable(f, wallet, w)
    <3>1. /\ wallet' = [wallet EXCEPT ![Proves(f, wallet, w)] = w]
          /\ Record(f, w, Proves(f, wallet, w), c)
          /\ UNCHANGED <<email, sessions, exchanged>>
      BY <1>2, <2>2 DEF Authorize
    <3>2. w \in Wallets
      BY <2>1, <2>2 DEF Stands, IInv, Filled
    <3>3. QED
      BY <2>1, <2>2, <3>1, <3>2, WalletProved
  <2>3. CASE ~(Live(f) /\ Stands(f, c) /\ Attachable(f, wallet, w))
    BY <1>2, <2>3 DEF Authorize
  <2>4. QED
    BY <2>2, <2>3
<1>3. ASSUME NEW f \in Flows, NEW k \in Codes, ProveEmail(f, k), UNCHANGED <<wallet, sessions, exchanged>>
      PROVE  Goal
  <2>1. code[k].email \in Emails
    BY <1>3 DEF ProveEmail, IInv, Filled
  <2>2. QED
    BY <1>3, <2>1, EmailProved DEF ProveEmail
<1>4. ASSUME NEW p \in Pages, ProveOtp(p)
      PROVE  Goal
  <2>1. page[p].flow \in Flows /\ page[p].proof \in Codes
    BY <1>4 DEF ProveOtp, IInv, Filled
  <2>2. QED
    BY <1>3, <1>4, <2>1 DEF ProveOtp
<1>5. CASE Lapse
  BY <1>0, <1>5 DEF Lapse, Flow, identities
<1>6. QED
  BY <1>1, <1>2, <1>3, <1>4, <1>5
     DEF Next, FlowStep, PageStep, Ask, SendCode, RightCode, WrongCode, SendOtp, BeginVerify, EnterOtp,
         StoreOtp, Refuse, EndSession, Prune, Restart, Tick, vars, identities

\* A challenge by which a step proves something is the one its flow requested last, and so
\* is a code of our own.
LEMMA NewestStep ==
  ASSUME IInv, [Next]_vars
  PROVE  /\ \A c \in (used' \ used) \cap Challenges : newest[asked[c].flow].wallet = c
         /\ ~supabase => \A k \in (used' \ used) \cap Codes : newest[code[k].flow].email = k
<1>. DEFINE Latest(x) == /\ x \in Challenges => newest[asked[x].flow].wallet = x
                         /\ x \in Codes /\ ~supabase => newest[code[x].flow].email = x
<1>1. ASSUME NEW p \in Pages, Authorize(p), NEW x \in used' \ used
      PROVE  Latest(x)
  <2>. DEFINE f == page[p].flow
              c == page[p].proof
  <2>1. c \in Challenges /\ c \notin Codes
    BY <1>1 DEF Authorize, IInv, Filled
  <2>2. Stands(f, c) /\ x = c
    BY <1>1 DEF Authorize, Record
  <2>3. QED
    BY <2>1, <2>2 DEF Stands, IInv, Filled
<1>2. ASSUME NEW f \in Flows, NEW k \in Codes, ProveEmail(f, k), NEW x \in used' \ used
      PROVE  Latest(x)
  <2>1. x = k /\ code[k].stage = "open" /\ k \notin Challenges
    BY <1>2 DEF ProveEmail, Record
  <2>2. QED
    BY <2>1 DEF IInv, Filled
<1>3. ASSUME NEW p \in Pages, ProveOtp(p), NEW x \in used' \ used
      PROVE  Latest(x)
  <2>1. page[p].flow \in Flows /\ page[p].proof \in Codes
    BY <1>3 DEF ProveOtp, IInv, Filled
  <2>2. QED
    BY <1>2, <1>3, <2>1 DEF ProveOtp
<1>. HIDE DEF Latest
<1>4. \A x \in used' \ used : Latest(x)
  BY <1>1, <1>2, <1>3
     DEF Next, FlowStep, PageStep, StartFlow, LinkFlow, Exchange, Ask, SendCode, RightCode, WrongCode,
         SendOtp, BeginVerify, EnterOtp, StoreOtp, Refuse, EndSession, Lapse, Prune, Restart, Tick, vars,
         identities, history
<1>5. QED
  BY <1>4 DEF Latest

-----------------------------------------------------------------------------

\* The inductive invariant of sign-in.
THEOREM Invariant == Spec => []IInv
<1>1. Init => IInv
  BY Initial
<1>2. IInv /\ [Next]_vars => IInv'
  BY Step
<1>3. QED
  BY <1>1, <1>2, PTL DEF Spec

\* The variables of sign-in keep their types.
THEOREM TypeCorrect == Spec => []TypeOK
<1>1. IInv => TypeOK
  BY DEF IInv
<1>2. QED
  BY <1>1, Invariant, PTL

\* A session comes once from its flow and is for the account that alone holds what was
\* proved on it.
THEOREM SessionsAreProved == Spec => []SessionIsProved
<1>1. QED
  BY Proven, Invariant, PTL

\* While the service sends its own codes, it sends none that the limits forbid.
THEOREM CodesAreRationed == Spec => []CodesRationed
<1>1. IInv => CodesRationed
  BY DEF IInv, Counted
<1>2. QED
  BY <1>1, Invariant, PTL

\* Accounts are never merged, and no identity or flow changes its account.
THEOREM IdentitiesAreFinal == Spec => IdentityIsFinal
<1>1. IInv /\ [Next]_vars =>
          [ /\ \A a \in Accounts : /\ wallet[a] # None => wallet'[a] = wallet[a]
                                   /\ email[a] # None => email'[a] = email[a]
            /\ \A f \in Flows : flow[f].account # None => flow'[f].account = flow[f].account ]_vars
  BY FinalStep
<1>2. QED
  BY <1>1, Invariant, PTL DEF Spec, IdentityIsFinal

\* Only the challenge, or code of our own, that a flow requested last proves anything on it.
THEOREM OnlyLatestProves == Spec => ReplacedProofIsVoid
<1>1. IInv /\ [Next]_vars =>
          [ /\ \A c \in (used' \ used) \cap Challenges : newest[asked[c].flow].wallet = c
            /\ ~supabase =>
                  \A k \in (used' \ used) \cap Codes : newest[code[k].flow].email = k ]_vars
  BY NewestStep
<1>2. QED
  BY <1>1, Invariant, PTL DEF Spec, ReplacedProofIsVoid
=============================================================================
