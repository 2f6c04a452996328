----------------------- MODULE Authentication_proofs -----------------------
(***************************************************************************)
(* Theorems about Authentication, for any users, names, secrets, requests, *)
(* lifetimes and period: passwords that are mailed match the stored        *)
(* secret, and tokens speak only for users who had a password mailed, or   *)
(* who bear the name of the system.                                        *)
(***************************************************************************)
EXTENDS Authentication, TLAPS

\* The user whom r names, and that r knows the secret stored for it.
Addressee(r) == Named[call[r].name]
KnowsStored(r) == secret[r] # Nil /\ secret[r] = totp[Addressee(r)]

\* What a request has found out when it is about to execute a statement.
Progress ==
  \A r \in Request :
    /\ pc[r] \in {"filter", "handler"} /\ call[r].kind = "email" => call[r].name \in Name
    /\ pc[r] \in {"totp", "create", "send", "verify"} => call[r].name \in Name /\ Addressee(r) # Nil
    /\ pc[r] = "totp" /\ call[r].kind = "login" => call[r].code # Nil
    /\ pc[r] = "create" => secret[r] # Nil
    /\ pc[r] \in {"send", "verify"} => KnowsStored(r)
    /\ pc[r] = "verify" => call[r].code # Nil

\* No two users share a secret, and a secret that is not stored yet is known
\* only to the request that generated it.
SecretsDiffer ==
  /\ \A u, v \in User : totp[u] = totp[v] /\ totp[u] # Nil => u = v
  /\ \A r \in Request : pc[r] = "create" =>
       /\ \A u \in User : totp[u] # secret[r]
       /\ \A q \in Request : q # r => secret[q] # secret[r]

\* Clients send passwords and tokens that were given out, or the system token; a
\* token that any endpoint accepts is the system's or speaks for a user who had a
\* password mailed.
ClientsHonest ==
  /\ \A r \in Request : call[r].code # Nil =>
       call[r].name \in Name /\ \E m \in mailed : m.code = call[r].code
  /\ \A r \in Request : call[r].token \in tokens \cup {SystemToken, Nil}
  /\ \A t \in tokens : t.sid = SessionIdentifier =>
       t.sub = SystemName \/ \E m \in mailed : m.to = Named[t.sub]

IInv ==
  /\ TypeOK /\ Progress /\ SecretsDiffer
  /\ MailedPasswordsMatch /\ ClientsHonest /\ ServedAsMailed
-----------------------------------------------------------------------------
\* The period of a time, and the time at which a token expires, are integers.
LEMMA PeriodType == now \in Nat => now \div Period \in Nat
  BY SMT, AuthAssumption

LEMMA CodeType ==
  ASSUME now \in Nat, NEW s \in Secret
  PROVE  CodeAt(s, now) \in Code
  BY PeriodType DEF CodeAt, Code

LEMMA ExpiryType ==
  ASSUME now \in Nat, NEW l \in Lifetimes
  PROVE  ExpiresAt(l) \in Int
<1>1. l.number \in Int /\ l.unit \in Nat
  BY AuthAssumption DEF Lifetimes, NoLifetime, BadLifetime
<1>2. l.number * l.unit \in Int
  BY <1>1
<1>3. \A x \in Int : Wrapped(x) \in Int
  <2> SUFFICES ASSUME NEW x \in Int PROVE Wrapped(x) \in Int
    OBVIOUS
  <2>1. 2 * MaxDuration \in Nat \ {0} /\ x + MaxDuration \in Int /\ MaxDuration \in Int
    BY AuthAssumption
  <2>2. (x + MaxDuration) % (2 * MaxDuration) \in Int
    BY <2>1
  <2> QED BY <2>1, <2>2 DEF Wrapped
<1> QED BY <1>2, <1>3 DEF ExpiresAt

\* A request that is not served as anyone, or as the system, is not served as a
\* registered user.
LEMMA NotUsers == Nil \notin User /\ System \notin User
  BY AuthAssumption DEF System

LEMMA NoCallType == NoCall \in Call
  BY DEF Call, NoCall, Lifetimes

LEMMA Initially == Init => IInv
  BY AuthAssumption
  DEF Init, IInv, TypeOK, Progress, SecretsDiffer, MailedPasswordsMatch, ClientsHonest, ServedAsMailed,
      Phase, Status, Call, NoCall, Lifetimes, NoLifetime
-----------------------------------------------------------------------------
(* Steps, by what they do to the tables. *)

LEMMA AnswerType ==
  ASSUME TypeOK, NEW r \in Request, NEW s \in Status, Answer(r, s)
  PROVE  /\ now' \in Nat
         /\ pc' \in [Request -> Phase] /\ status' \in [Request -> Status]
         /\ call' \in [Request -> Call] /\ as' \in [Request -> User \cup {System, Nil}]
         /\ exp' \in [Request -> Int] /\ secret' \in [Request -> Secret \cup {Nil}]
<1> USE DEF Answer, TypeOK
<1>1. now' \in Nat /\ pc' \in [Request -> Phase] /\ status' \in [Request -> Status]
  BY DEF Goto, Phase
<1>2. call' \in [Request -> Call]
  BY NoCallType
<1>3. exp' \in [Request -> Int]
  OBVIOUS
<1>4. as' \in [Request -> User \cup {System, Nil}] /\ secret' \in [Request -> Secret \cup {Nil}]
  OBVIOUS
<1> QED BY <1>1, <1>2, <1>3, <1>4

\* A request ends: it forgets its locals, and the tables stay.
LEMMA RefuseStep ==
  ASSUME IInv, NEW r \in Request, NEW s \in Status, Refuse(r, s)
  PROVE  IInv'
<1>1. TypeOK'
  BY AnswerType DEF IInv, TypeOK, Refuse, tables
<1> USE DEF Refuse, Answer, Goto, tables
<1>2. Progress'
  BY DEF IInv, TypeOK, Progress, Addressee, KnowsStored, Phase
<1>3. SecretsDiffer'
  BY DEF IInv, TypeOK, Progress, SecretsDiffer, Phase
<1>4. MailedPasswordsMatch' /\ ClientsHonest' /\ ServedAsMailed'
  BY NotUsers DEF IInv, TypeOK, MailedPasswordsMatch, ClientsHonest, ServedAsMailed, NoCall
<1> QED BY <1>1, <1>2, <1>3, <1>4 DEF IInv

\* A request arrives, with a password and a token of those given out.
LEMMA ArriveStep ==
  ASSUME IInv, NEW r \in Request, EmailRequest(r) \/ UseRequest(r) \/ LoginRequest(r)
  PROVE  IInv'
<1>1. PICK k \in Kinds, n \in Name \cup {Nil}, c \in {m.code : m \in mailed} \cup {Nil},
           t \in tokens \cup {SystemToken, Nil}, l \in Lifetimes :
        Arrive(r, k, n, c, t, l) /\ (k = "email" \/ c # Nil => n \in Name)
  BY DEF EmailRequest, UseRequest, LoginRequest, Held, Kinds, Lifetimes
<1> USE <1>1 DEF Arrive, Goto, tables
<1>2. TypeOK'
  BY DEF IInv, TypeOK, Phase, Call
<1>3. Progress'
  BY DEF IInv, TypeOK, Progress, Addressee, KnowsStored, Phase
<1>4. SecretsDiffer'
  BY DEF IInv, TypeOK, SecretsDiffer, Phase
<1>5. MailedPasswordsMatch' /\ ClientsHonest' /\ ServedAsMailed'
  BY DEF IInv, TypeOK, MailedPasswordsMatch, ClientsHonest, ServedAsMailed
<1> QED BY <1>2, <1>3, <1>4, <1>5 DEF IInv

\* The filter finds the user of a token, who is one of those it speaks for.
LEMMA FilterStep ==
  ASSUME IInv, NEW r \in Request, Filter(r)
  PROVE  IInv'
<1> USE DEF Filter, Goto, tables
<1> DEFINE u == UserOfToken(call[r].token)
<1>1. u # Nil =>
        \/ u = System
        \/ /\ u \in User
           /\ \/ \E m \in mailed : m.to = u
              \/ u = Named[SystemName] /\ \E t \in tokens : t.sub = SystemName
  BY AuthAssumption DEF IInv, TypeOK, ClientsHonest, UserOfToken, Token
<1>2. TypeOK'
  BY <1>1 DEF IInv, TypeOK, Phase
<1>3. Progress' /\ SecretsDiffer'
  BY DEF IInv, TypeOK, Progress, SecretsDiffer, Addressee, KnowsStored, Phase
<1>4. MailedPasswordsMatch' /\ ClientsHonest'
  BY DEF IInv, TypeOK, MailedPasswordsMatch, ClientsHonest
<1>5. ServedAsMailed'
  <2> HIDE DEF u
  <2>2. as' = [as EXCEPT ![r] = u] /\ UNCHANGED <<mailed, tokens>>
    BY DEF u
  <2>3. ASSUME NEW q \in Request, as'[q] \in User
        PROVE  \/ \E m \in mailed : m.to = as'[q]
               \/ as'[q] = Named[SystemName] /\ \E t \in tokens : t.sub = SystemName
    <3>1. CASE q = r
      BY <1>1, <2>2, <2>3, <3>1, NotUsers DEF IInv, TypeOK
    <3>2. CASE q # r
      BY <2>2, <2>3, <3>2 DEF IInv, TypeOK, ServedAsMailed
    <3> QED BY <3>1, <3>2
  <2> QED BY <2>2, <2>3 DEF ServedAsMailed
<1> QED BY <1>2, <1>3, <1>4, <1>5 DEF IInv

LEMMA EmailFindStep ==
  ASSUME IInv, NEW r \in Request, EmailFind(r)
  PROVE  IInv'
<1>1. CASE Refuse(r, "ok")
  BY <1>1, RefuseStep DEF Status
<1>2. CASE Named[call[r].name] # Nil /\ Goto(r, "totp") /\ UNCHANGED <<now, tables, status, locals>>
  <2> USE <1>2 DEF Goto, tables, locals
  <2>1. call[r].kind = "email" /\ call[r].name \in Name
    BY DEF EmailFind, IInv, Progress
  <2>2. TypeOK'
    BY DEF IInv, TypeOK, Phase
  <2>3. Progress' /\ SecretsDiffer'
    BY <2>1 DEF IInv, TypeOK, Progress, SecretsDiffer, Addressee, KnowsStored, Phase
  <2>4. MailedPasswordsMatch' /\ ClientsHonest' /\ ServedAsMailed'
    BY DEF IInv, TypeOK, MailedPasswordsMatch, ClientsHonest, ServedAsMailed
  <2> QED BY <2>2, <2>3, <2>4 DEF IInv
<1> QED BY <1>1, <1>2 DEF EmailFind

\* The request reads the stored secret, or generates one that nobody else has.
LEMMA EmailTOTPStep ==
  ASSUME IInv, NEW r \in Request, EmailTOTP(r)
  PROVE  IInv'
<1> USE DEF Goto, tables
<1>1. Addressee(r) \in User
  BY AuthAssumption DEF EmailTOTP, IInv, Progress, Addressee
<1>2. PICK k \in Secret :
        /\ secret' = [secret EXCEPT ![r] = k]
        /\ \/ pc' = [pc EXCEPT ![r] = "send"] /\ k = totp[Addressee(r)]
           \/ /\ pc' = [pc EXCEPT ![r] = "create"] /\ \A u \in User : totp[u] # k
              /\ \A q \in Request : secret[q] # k
  BY <1>1 DEF EmailTOTP, IInv, TypeOK, Addressee
<1>3. UNCHANGED <<now, totp, mailed, tokens, status, call, as, exp>>
  BY DEF EmailTOTP
<1>4. k # Nil
  BY AuthAssumption
<1>5. TypeOK'
  BY <1>2, <1>3 DEF IInv, TypeOK, Phase
<1>6. Progress'
  BY <1>1, <1>2, <1>3, <1>4 DEF IInv, TypeOK, Progress, Addressee, KnowsStored, Phase, EmailTOTP
<1>7. SecretsDiffer'
  BY <1>1, <1>2, <1>3 DEF IInv, TypeOK, SecretsDiffer, Phase
<1>8. MailedPasswordsMatch' /\ ClientsHonest' /\ ServedAsMailed'
  BY <1>3 DEF IInv, TypeOK, MailedPasswordsMatch, ClientsHonest, ServedAsMailed
<1> QED BY <1>5, <1>6, <1>7, <1>8 DEF IInv

\* The generated secret is stored, unless another request was faster.
LEMMA EmailCreateStep ==
  ASSUME IInv, NEW r \in Request, EmailCreate(r)
  PROVE  IInv'
<1>1. CASE Refuse(r, "error")
  BY <1>1, RefuseStep DEF Status
<1>2. CASE ~Refuse(r, "error")
  <2> DEFINE u == Addressee(r)
  <2>1. /\ pc[r] = "create" /\ pc' = [pc EXCEPT ![r] = "send"]
        /\ totp[u] = Nil /\ totp' = [totp EXCEPT ![u] = secret[r]]
        /\ UNCHANGED <<now, mailed, tokens, status, call, as, exp, secret>>
    BY <1>2 DEF EmailCreate, InsertTOTP, Goto, locals, Addressee
  <2>2. u \in User /\ secret[r] \in Secret /\ secret[r] # Nil
    BY <2>1, AuthAssumption DEF IInv, TypeOK, Progress, Addressee
  <2> HIDE DEF u
  <2>3. \A q \in Request : q # r /\ secret[q] # Nil => secret[q] # secret[r]
    BY <2>1 DEF IInv, SecretsDiffer
  <2>4. TypeOK'
    BY <2>1, <2>2 DEF IInv, TypeOK, Phase
  <2>5. Progress'
    BY <2>1, <2>2 DEF IInv, TypeOK, Progress, Addressee, KnowsStored, Phase, u
  <2>6. SecretsDiffer'
    BY <2>1, <2>2, <2>3 DEF IInv, TypeOK, SecretsDiffer, Phase
  <2>7. MailedPasswordsMatch'
    BY <2>1, <2>2, AuthAssumption DEF IInv, TypeOK, MailedPasswordsMatch, Code
  <2>8. ClientsHonest' /\ ServedAsMailed'
    BY <2>1 DEF IInv, TypeOK, ClientsHonest, ServedAsMailed
  <2> QED BY <2>4, <2>5, <2>6, <2>7, <2>8 DEF IInv
<1> QED BY <1>1, <1>2

\* The mail, if it is sent, holds a password of the secret that is stored.
LEMMA EmailSendStep ==
  ASSUME IInv, NEW r \in Request, EmailSend(r)
  PROVE  IInv'
<1> DEFINE m == [to |-> Addressee(r), code |-> CodeAt(secret[r], now)]
<1>1. CASE mailed' = mailed
  BY <1>1, RefuseStep DEF EmailSend, Refuse, tables, Status
<1>2. CASE mailed' = mailed \cup {m}
  <2> USE <1>2
  <2>1. KnowsStored(r) /\ Addressee(r) \in User /\ secret[r] \in Secret
    BY AuthAssumption DEF EmailSend, IInv, TypeOK, Progress, KnowsStored, Addressee
  <2>2. m \in [to : User, code : Code] /\ m.code.secret = totp[m.to]
    BY <2>1, CodeType DEF IInv, TypeOK, KnowsStored, CodeAt
  <2> HIDE DEF m
  <2>3. TypeOK'
    <3>1. Answer(r, "ok") /\ "ok" \in Status /\ TypeOK
      BY DEF EmailSend, IInv, Status
    <3> QED BY <3>1, <2>2, AnswerType DEF EmailSend, TypeOK
  <2> USE DEF EmailSend, Answer, Goto
  <2>4. Progress'
    BY DEF IInv, TypeOK, Progress, Addressee, KnowsStored, Phase
  <2>5. SecretsDiffer'
    BY DEF IInv, TypeOK, Progress, SecretsDiffer, Phase
  <2>6. MailedPasswordsMatch'
    BY <2>2 DEF IInv, MailedPasswordsMatch
  <2>7. ClientsHonest' /\ ServedAsMailed'
    BY NotUsers DEF IInv, TypeOK, ClientsHonest, ServedAsMailed, NoCall
  <2> QED BY <2>3, <2>4, <2>5, <2>6, <2>7 DEF IInv
<1> QED BY <1>1, <1>2 DEF EmailSend, Addressee

\* A token is handed out that speaks for someone who had a password mailed, or
\* that no endpoint accepts.
LEMMA IssueStep ==
  ASSUME IInv, NEW r \in Request, NEW t \in Token, Issue(r, t),
         t.sid = SessionIdentifier => t.sub = SystemName \/ \E m \in mailed : m.to = Named[t.sub]
  PROVE  IInv'
<1>1. TypeOK'
  <2>1. Answer(r, "ok") /\ "ok" \in Status /\ TypeOK
    BY DEF Issue, IInv, Status
  <2> QED BY <2>1, AnswerType DEF Issue, TypeOK
<1> USE DEF Issue, Answer, Goto
<1>2. Progress'
  BY DEF IInv, TypeOK, Progress, Addressee, KnowsStored, Phase
<1>3. SecretsDiffer'
  BY DEF IInv, TypeOK, Progress, SecretsDiffer, Phase
<1>4. MailedPasswordsMatch' /\ ServedAsMailed'
  BY NotUsers DEF IInv, TypeOK, MailedPasswordsMatch, ServedAsMailed
<1>5. ClientsHonest'
  BY DEF IInv, TypeOK, ClientsHonest, NoCall
<1> QED BY <1>1, <1>2, <1>3, <1>4, <1>5 DEF IInv

\* A login by token is answered at once; one by password goes on.
LEMMA LoginStartStep ==
  ASSUME IInv, NEW r \in Request, LoginStart(r)
  PROVE  IInv'
<1> DEFINE l == call[r].lifetime
           e == ExpiresAt(l)
<1>1. call[r] \in Call /\ now \in Nat
  BY DEF IInv, TypeOK
<1>2. e \in Int
  BY <1>1, ExpiryType DEF Call
<1> HIDE DEF e
<1>3. CASE Refuse(r, "bad_request") \/ Refuse(r, "unauthorized")
  BY <1>3, RefuseStep DEF Status
<1>4. CASE as[r] # Nil /\ Issue(r, ClaimsOfUser(as[r], e))
  <2>1. as[r] \in User \cup {System}
    BY <1>4 DEF IInv, TypeOK
  <2>2. /\ ClaimsOfUser(as[r], e) \in Token
        /\ ClaimsOfUser(as[r], e).sid = SessionIdentifier => ClaimsOfUser(as[r], e).sub = SystemName
    <3>1. EmailAddress(as[r]) \in Name
      <4>1. CASE as[r] = System
        BY <4>1, AuthAssumption DEF EmailAddress
      <4>2. CASE as[r] # System
        <5>1. as[r] \in User /\ UsernameOf \in [User -> Name]
          BY <2>1, <4>2, AuthAssumption
        <5> QED BY <4>2, <5>1 DEF EmailAddress
      <4> QED BY <4>1, <4>2
    <3>3. as[r] \in Nat
      <4>1. User \subseteq Nat
        BY AuthAssumption
      <4>2. System \in Nat
        BY DEF System
      <4> QED BY <2>1, <4>1, <4>2
    <3>2. as[r] = 0 => EmailAddress(as[r]) = SystemName
      BY DEF EmailAddress, System
    <3> QED BY <1>2, <3>1, <3>2, <3>3 DEF ClaimsOfUser, Token, SessionIdentifier
  <2> QED BY <1>4, <2>2, IssueStep
<1>5. CASE /\ Found(r) # Nil /\ Goto(r, "totp") /\ exp' = [exp EXCEPT ![r] = e]
           /\ UNCHANGED <<now, tables, status, call, as, secret>>
  <2> USE <1>5 DEF Goto, tables
  <2>1. call[r].code # Nil /\ Addressee(r) # Nil /\ call[r].name \in Name
    BY DEF Found, IInv, ClientsHonest, Addressee
  <2>2. TypeOK'
    BY <1>2 DEF IInv, TypeOK, Phase
  <2>3. Progress' /\ SecretsDiffer'
    BY <2>1 DEF IInv, TypeOK, Progress, SecretsDiffer, Addressee, KnowsStored, Phase
  <2>4. MailedPasswordsMatch' /\ ClientsHonest' /\ ServedAsMailed'
    BY DEF IInv, TypeOK, MailedPasswordsMatch, ClientsHonest, ServedAsMailed
  <2> QED BY <2>2, <2>3, <2>4 DEF IInv
<1> QED BY <1>3, <1>4, <1>5 DEF LoginStart, e

LEMMA LoginTOTPStep ==
  ASSUME IInv, NEW r \in Request, LoginTOTP(r)
  PROVE  IInv'
<1>1. CASE Refuse(r, "unauthorized")
  BY <1>1, RefuseStep DEF Status
<1>2. CASE ~Refuse(r, "unauthorized")
  <2>1. /\ call[r].kind = "login" /\ pc[r] = "totp" /\ pc' = [pc EXCEPT ![r] = "verify"]
        /\ totp[Addressee(r)] # Nil /\ secret' = [secret EXCEPT ![r] = totp[Addressee(r)]]
        /\ UNCHANGED <<now, totp, mailed, tokens, status, call, as, exp>>
    BY <1>2 DEF LoginTOTP, Goto, tables, Addressee
  <2>2. Addressee(r) \in User
    BY <2>1, AuthAssumption DEF IInv, Progress, Addressee
  <2>3. TypeOK'
    BY <2>1, <2>2 DEF IInv, TypeOK, Phase
  <2>4. Progress'
    BY <2>1, <2>2 DEF IInv, TypeOK, Progress, Addressee, KnowsStored, Phase
  <2>5. SecretsDiffer'
    BY <2>1, <2>2 DEF IInv, TypeOK, SecretsDiffer, Phase
  <2>6. MailedPasswordsMatch' /\ ClientsHonest' /\ ServedAsMailed'
    BY <2>1 DEF IInv, TypeOK, MailedPasswordsMatch, ClientsHonest, ServedAsMailed
  <2> QED BY <2>3, <2>4, <2>5, <2>6 DEF IInv
<1> QED BY <1>1, <1>2

\* A password that is accepted was mailed to the user, in this period: its
\* secret is stored for that user alone.
LEMMA Accepted ==
  ASSUME IInv, NEW r \in Request, pc[r] = "verify", CodeMatches(secret[r], call[r].code)
  PROVE  /\ call[r].name \in Name /\ Addressee(r) \in User
         /\ [to |-> Addressee(r), code |-> CodeAt(totp[Addressee(r)], now)] \in mailed
<1>1. call[r].name \in Name /\ Addressee(r) \in User /\ KnowsStored(r) /\ call[r].code # Nil
  BY AuthAssumption DEF IInv, Progress, Addressee
<1>2. PICK m \in mailed : m.code = CodeAt(totp[Addressee(r)], now)
  BY <1>1 DEF IInv, ClientsHonest, CodeMatches, KnowsStored
<1>3. m \in [to : User, code : Code] /\ m.code.secret = totp[m.to]
  BY DEF IInv, TypeOK, MailedPasswordsMatch
<1>4. totp[m.to] = totp[Addressee(r)] /\ totp[m.to] # Nil
  BY <1>1, <1>2, <1>3 DEF CodeAt, KnowsStored
<1>5. m.to = Addressee(r)
  BY <1>1, <1>3, <1>4 DEF IInv, SecretsDiffer
<1>6. m = [to |-> m.to, code |-> m.code]
  BY <1>3
<1> QED BY <1>1, <1>2, <1>5, <1>6

LEMMA LoginVerifyStep ==
  ASSUME IInv, NEW r \in Request, LoginVerify(r)
  PROVE  IInv'
<1>1. CASE Refuse(r, "unauthorized")
  BY <1>1, RefuseStep DEF Status
<1>2. CASE CodeMatches(secret[r], call[r].code) /\ Issue(r, ClaimsOfPassword(call[r].name, exp[r]))
  <2> DEFINE t == ClaimsOfPassword(call[r].name, exp[r])
  <2>1. t \in Token /\ Named[t.sub] = Addressee(r)
    BY <1>2, Accepted DEF LoginVerify, IInv, TypeOK, ClaimsOfPassword, Token, SessionIdentifier, Addressee
  <2>2. \E m \in mailed : m.to = Addressee(r)
    BY <1>2, Accepted DEF LoginVerify
  <2> QED BY <1>2, <2>1, <2>2, IssueStep
<1> QED BY <1>1, <1>2 DEF LoginVerify
-----------------------------------------------------------------------------
LEMMA NextStep ==
  ASSUME IInv, [Next]_vars
  PROVE  IInv'
<1>1. CASE Tick
  <2> USE <1>1 DEF Tick, tables, locals
  <2>1. TypeOK'
    <3>1. now + 1 \in Nat
      BY DEF IInv, TypeOK
    <3> QED BY <3>1 DEF IInv, TypeOK
  <2>2. Progress' /\ SecretsDiffer'
    BY DEF IInv, Progress, Addressee, KnowsStored, SecretsDiffer
  <2>3. MailedPasswordsMatch' /\ ClientsHonest' /\ ServedAsMailed'
    BY DEF IInv, MailedPasswordsMatch, ClientsHonest, ServedAsMailed
  <2> QED BY <2>1, <2>2, <2>3 DEF IInv
<1>2. ASSUME NEW r \in Request, Step(r) PROVE IInv'
  <2>1. CASE Use(r)
    BY <2>1, RefuseStep DEF Use, Status
  <2> QED BY <1>2, <2>1, ArriveStep, FilterStep, EmailFindStep, EmailTOTPStep, EmailCreateStep,
             EmailSendStep, LoginStartStep, LoginTOTPStep, LoginVerifyStep DEF Step
<1>3. CASE UNCHANGED vars
  BY <1>3 DEF vars, IInv, TypeOK, Progress, Addressee, KnowsStored, SecretsDiffer,
              MailedPasswordsMatch, ClientsHonest, ServedAsMailed
<1> QED BY <1>1, <1>2, <1>3 DEF Next

\* The inductive invariant: requests know what their place says, secrets differ,
\* and what clients hold was mailed or handed out.
THEOREM Invariance == Spec => []IInv
  BY Initially, NextStep, PTL DEF Spec

\* Every password that was mailed is one of the secret stored for its addressee,
\* however many e-mail requests race to create it.
THEOREM MailedPasswordsMatchAlways == Spec => []MailedPasswordsMatch
<1>1. IInv => MailedPasswordsMatch
  BY DEF IInv
<1> QED BY <1>1, Invariance, PTL

\* Whoever is served as a registered user, some password had been mailed to that
\* user, unless the user is named as the system is and the system logged in.
THEOREM ServedAsMailedAlways == Spec => []ServedAsMailed
<1>1. IInv => ServedAsMailed
  BY DEF IInv
<1> QED BY <1>1, Invariance, PTL

\* A login hands out a token that endpoints may accept only to the system user,
\* or for a user to whom a password of the stored secret was mailed in this
\* period or the one before.
THEOREM TokensNeedMailedPasswordAlways == Spec => TokensNeedMailedPassword
<1> DEFINE Earned(t) ==
             \/ t.sub = SystemName /\ \E r \in Request : as[r] = System /\ as'[r] = Nil
             \/ \E m \in mailed : /\ m.to = Named[t.sub] /\ m.code.secret = totp[m.to]
                                  /\ now \div Period <= m.code.period + 1
<1>1. ASSUME IInv, [Next]_vars PROVE [\A t \in tokens' \ tokens : t.sid = SessionIdentifier => Earned(t)]_vars
  <2> SUFFICES ASSUME NEW r \in Request, Step(r), NEW t \in tokens' \ tokens,
                      t.sid = SessionIdentifier
               PROVE  Earned(t)
    BY <1>1 DEF Next, Tick, tables, vars
  <2>1. CASE LoginVerify(r)
    <3>1. CodeMatches(secret[r], call[r].code) /\ t = ClaimsOfPassword(call[r].name, exp[r])
      BY <2>1 DEF LoginVerify, Issue, Refuse, tables
    <3> DEFINE c == CodeAt(totp[Addressee(r)], now)
               m == [to |-> Addressee(r), code |-> c]
    <3>2. m \in mailed
      BY <1>1, <2>1, <3>1, Accepted DEF LoginVerify
    <3>3. m.to = Named[t.sub] /\ m.code.secret = totp[m.to] /\ m.code.period = now \div Period
      BY <3>1 DEF ClaimsOfPassword, Addressee, CodeAt
    <3>4. now \div Period <= (now \div Period) + 1
      BY <1>1, PeriodType DEF IInv, TypeOK
    <3> HIDE DEF m
    <3> QED BY <3>2, <3>3, <3>4
  <2>2. CASE LoginStart(r)
    <3>1. /\ as[r] # Nil /\ t = ClaimsOfUser(as[r], ExpiresAt(call[r].lifetime))
          /\ as' = [as EXCEPT ![r] = Nil]
      BY <2>2 DEF LoginStart, Issue, Answer, Refuse, tables
    <3>2. as[r] \in User \cup {System} /\ as'[r] = Nil
      BY <1>1, <3>1 DEF IInv, TypeOK
    <3>3. t.sid = as[r] /\ t.sub = EmailAddress(as[r])
      BY <3>1 DEF ClaimsOfUser
    <3>4. as[r] = System
      BY <3>2, <3>3, AuthAssumption DEF SessionIdentifier, System
    <3> QED BY <3>2, <3>3, <3>4 DEF EmailAddress
  <2>3. CASE ~LoginVerify(r) /\ ~LoginStart(r)
    BY <2>3 DEF Step, EmailRequest, UseRequest, LoginRequest, Arrive, Filter, Use, EmailFind, EmailTOTP,
                EmailCreate, InsertTOTP, EmailSend, LoginTOTP, Refuse, tables
  <2> QED BY <2>1, <2>2, <2>3
<1> QED BY <1>1, Invariance, PTL DEF Spec, TokensNeedMailedPassword

\* Every variable keeps its type.
THEOREM TypeCorrect == Spec => []TypeOK
<1>1. IInv => TypeOK
  BY DEF IInv
<1> QED BY <1>1, Invariance, PTL
=============================================================================
