--------------------------- MODULE Authentication ---------------------------
(***************************************************************************)
(* How a user gets a token and what a token is good for: the one-time      *)
(* password that is e-mailed, the login that trades it (or a token) for a  *)
(* token, and the filter in front of every endpoint that turns a token     *)
(* into a user.                                                            *)
(*                                                                         *)
(* Statements of handlers interleave, and the clock moves between them.    *)
(* Users are only read here (Accounts registers them); no code changes the *)
(* session identifier of a user, which the database sets to 0.  The system *)
(* token of the configuration stands for a user of no row: ID 0, named     *)
(* "@system", a name that a row may have as well.                          *)
(***************************************************************************)
EXTENDS Integers

CONSTANTS User,      \* IDs of rows of table user
          Name,      \* spellings of usernames
          Named,     \* Named[n]: the user whose username is n, ignoring case, or Nil
          UsernameOf,\* UsernameOf[u]: the username stored for u
          Secret,    \* keys that totp.Generate can return
          Request,
          May,       \* May[r]: the endpoints that r may call
          Operator,  \* requests of those who know the system token
          SystemToken,
          SystemName,\* "@system"
          Nil,
          Lifetime,  \* values of the lifetime parameter: [number, unit, calendar]
          Start, End,\* Unix time at the start of a behaviour; its bound
          Period,    \* TOTPPeriod
          MaxDuration\* largest time.Duration, in seconds

Kinds == {"email", "login", "use"}
SessionIdentifier == 0   \* of every row of table user
System == 0              \* the ID of the system user
NoLifetime == [number |-> 0, unit |-> 0, calendar |-> FALSE]  \* none given, or "forever"
BadLifetime == [number |-> 1, unit |-> 0, calendar |-> FALSE] \* one that does not parse
Lifetimes == Lifetime \cup {NoLifetime, BadLifetime}

ASSUME AuthAssumption ==
  /\ User \subseteq Nat \ {0}
  /\ Named \in [Name -> User \cup {Nil}] /\ UsernameOf \in [User -> Name]
  /\ \A u \in User : Named[UsernameOf[u]] = u
  /\ Nil \notin User \cup {System} \cup Name \cup Secret
  /\ May \in [Request -> SUBSET Kinds] /\ Operator \subseteq Request
  /\ SystemName \in Name /\ SystemToken # Nil
  /\ Lifetime \subseteq [number : Int, unit : Nat \ {0}, calendar : BOOLEAN]
  /\ Start \in Nat /\ End \in Nat /\ Period \in Nat \ {0} /\ MaxDuration \in Nat \ {0}

Code == [secret : Secret, period : Nat]
Token == [sub : Name, sid : Nat, exp : Int]
Call == [kind : Kinds \cup {Nil}, name : Name \cup {Nil}, code : Code \cup {Nil},
         token : Token \cup {SystemToken, Nil}, lifetime : Lifetimes]
NoCall == [kind |-> Nil, name |-> Nil, code |-> Nil, token |-> Nil, lifetime |-> NoLifetime]

VARIABLES now,     \* Unix time
          totp,    \* totp[u]: the secret of the user_totp row of u, or Nil
          mailed,  \* one-time passwords sent: [to, code]
          tokens,  \* claims of the tokens handed out
          pc, status,
          call,    \* call[r]: endpoint, username, password, token and lifetime that r sends
          as,      \* as[r]: the user the filter found (CurrentUser), or Nil
          exp,     \* exp[r]: ExpiresAt of the claims r builds
          secret   \* secret[r]: the TOTP secret r read or generated

tables == <<totp, mailed, tokens>>
locals == <<call, as, exp, secret>>
vars == <<now, totp, mailed, tokens, pc, status, call, as, exp, secret>>

Phase == {"idle", "filter", "handler", "totp", "create", "send", "verify", "answered"}
Status == {"none", "ok", "bad_request", "unauthorized", "error"}
-----------------------------------------------------------------------------
\* GenerateCodeCustom: the code of a secret at a time.  Codes of different
\* secrets and periods are taken to differ.
CodeAt(s, t) == [secret |-> s, period |-> t \div Period]

\* The comparison of the login; any code of the secret would do without the time.
CodeMatchesEver(s, c) == c.secret = s
CodeMatches(s, c) == c = CodeAt(s, now)

\* time.Duration wraps around; AddDate does not.
Wrapped(x) == ((x + MaxDuration) % (2 * MaxDuration)) - MaxDuration

\* durationparser.Parse, as a Unix time; 0: no expiration date.
ExpiresAt(l) ==
  IF l = NoLifetime THEN 0
  ELSE now + (IF l.calendar THEN l.number * l.unit ELSE Wrapped(l.number * l.unit))

\* TokenClaims.Valid
Valid(t) == ~(t.exp > 0 /\ t.exp < now)

\* findUserInformationFromToken: the system user, the user of the claims, or Nil.
UserOfToken(t) ==
  IF t = SystemToken THEN System
  ELSE IF t # Nil /\ Valid(t) /\ t.sid = SessionIdentifier THEN Named[t.sub] ELSE Nil
-----------------------------------------------------------------------------
Init ==
  /\ now = Start /\ totp = [u \in User |-> Nil] /\ mailed = {} /\ tokens = {}
  /\ pc = [r \in Request |-> "idle"] /\ status = [r \in Request |-> "none"]
  /\ call = [r \in Request |-> NoCall] /\ as = [r \in Request |-> Nil]
  /\ exp = [r \in Request |-> 0] /\ secret = [r \in Request |-> Nil]

Goto(r, p) == pc' = [pc EXCEPT ![r] = p]

Answer(r, s) ==
  /\ Goto(r, "answered") /\ status' = [status EXCEPT ![r] = s]
  /\ call' = [call EXCEPT ![r] = NoCall] /\ as' = [as EXCEPT ![r] = Nil]
  /\ exp' = [exp EXCEPT ![r] = 0] /\ secret' = [secret EXCEPT ![r] = Nil]
  /\ UNCHANGED now
Refuse(r, s) == Answer(r, s) /\ UNCHANGED tables

Tick == /\ now < End /\ now' = now + 1
        /\ UNCHANGED <<tables, pc, status, locals>>

\* A request arrives.  A client sends passwords and tokens it was given.
Held(r) == tokens \cup (IF r \in Operator THEN {SystemToken} ELSE {})
Arrive(r, k, n, c, t, l) ==
  /\ k \in May[r] /\ pc[r] = "idle" /\ Goto(r, "filter")
  /\ call' = [call EXCEPT ![r] = [kind |-> k, name |-> n, code |-> c, token |-> t, lifetime |-> l]]
  /\ UNCHANGED <<now, tables, status, as, exp, secret>>

EmailRequest(r) == \E n \in Name : Arrive(r, "email", n, Nil, Nil, NoLifetime)
UseRequest(r) == \E t \in Held(r) : Arrive(r, "use", Nil, Nil, t, NoLifetime)
LoginRequest(r) ==
  \E l \in Lifetimes, t \in Held(r) \cup {Nil} :
    \/ \E n \in Name, m \in mailed : Arrive(r, "login", n, m.code, t, l)
    \/ Arrive(r, "login", Nil, Nil, t, l)

\* filterAppendUserInformation
Filter(r) ==
  /\ pc[r] = "filter" /\ Goto(r, "handler")
  /\ as' = [as EXCEPT ![r] = UserOfToken(call[r].token)]
  /\ UNCHANGED <<now, tables, status, call, exp, secret>>

\* Every endpoint that requires a user; GET status tells who it is.
Use(r) ==
  /\ call[r].kind = "use" /\ pc[r] = "handler"
  /\ Refuse(r, IF as[r] = Nil THEN "unauthorized" ELSE "ok")
-----------------------------------------------------------------------------
(* POST authentication/email *)

\* No user of this name: the answer is the same.
EmailFind(r) ==
  /\ call[r].kind = "email" /\ pc[r] = "handler"
  /\ \/ Named[call[r].name] = Nil /\ Refuse(r, "ok")
     \/ /\ Named[call[r].name] # Nil /\ Goto(r, "totp")
        /\ UNCHANGED <<now, tables, status, locals>>

\* A user without a TOTP gets a new one, in a transaction that follows.
EmailTOTP(r) ==
  LET s == totp[Named[call[r].name]] IN
  /\ call[r].kind = "email" /\ pc[r] = "totp"
  /\ \/ s # Nil /\ Goto(r, "send") /\ secret' = [secret EXCEPT ![r] = s]
     \/ /\ s = Nil /\ Goto(r, "create")
        /\ \E k \in Secret \ ({totp[u] : u \in User} \cup {secret[q] : q \in Request}) :
             secret' = [secret EXCEPT ![r] = k]
  /\ UNCHANGED <<now, tables, status, call, as, exp>>

\* INSERT INTO user_totp: one row for each user (unique index).
InsertTOTPLastWins(r) ==
  /\ totp' = [totp EXCEPT ![Named[call[r].name]] = secret[r]] /\ Goto(r, "send")
  /\ UNCHANGED <<now, mailed, tokens, status, locals>>
InsertTOTP(r) ==
  LET u == Named[call[r].name] IN
  \/ totp[u] # Nil /\ Refuse(r, "error")
  \/ /\ totp[u] = Nil /\ totp' = [totp EXCEPT ![u] = secret[r]] /\ Goto(r, "send")
     /\ UNCHANGED <<now, mailed, tokens, status, locals>>
EmailCreate(r) == pc[r] = "create" /\ (InsertTOTP(r) \/ Refuse(r, "error"))

\* SendMail may fail; the answer is the same.
EmailSend(r) ==
  /\ pc[r] = "send" /\ Answer(r, "ok") /\ UNCHANGED <<totp, tokens>>
  /\ mailed' \in {mailed, mailed \cup {[to |-> Named[call[r].name], code |-> CodeAt(secret[r], now)]}}
-----------------------------------------------------------------------------
(* POST authentication/login *)

\* The claims of an already authenticated request, and of one with a password.
\* The first carry the user's ID where the session identifier is looked for.
EmailAddress(u) == IF u = System THEN SystemName ELSE UsernameOf[u]
ClaimsOfUser(u, e) == [sub |-> EmailAddress(u), sid |-> u, exp |-> e]
ClaimsOfPassword(n, e) == [sub |-> n, sid |-> SessionIdentifier, exp |-> e]
Issue(r, t) == Answer(r, "ok") /\ tokens' = tokens \cup {t} /\ UNCHANGED <<totp, mailed>>

\* The user of the username, when both username and password are given.
Found(r) == IF call[r].code = Nil THEN Nil ELSE Named[call[r].name]

LoginStart(r) ==
  LET l == call[r].lifetime IN
  /\ call[r].kind = "login" /\ pc[r] = "handler"
  /\ \/ l = BadLifetime /\ Refuse(r, "bad_request")
     \/ l # BadLifetime /\ as[r] # Nil /\ Issue(r, ClaimsOfUser(as[r], ExpiresAt(l)))
     \/ /\ l # BadLifetime /\ as[r] = Nil /\ Found(r) # Nil
        /\ Goto(r, "totp") /\ exp' = [exp EXCEPT ![r] = ExpiresAt(l)]
        /\ UNCHANGED <<now, tables, status, call, as, secret>>
     \/ l # BadLifetime /\ as[r] = Nil /\ Found(r) = Nil /\ Refuse(r, "unauthorized")

LoginTOTPAnyone(r) ==
  /\ call[r].kind = "login" /\ pc[r] = "totp"
  /\ secret' = [secret EXCEPT ![r] = call[r].code.secret] /\ Goto(r, "verify")
  /\ UNCHANGED <<now, tables, status, call, as, exp>>
LoginTOTP(r) ==
  LET s == totp[Named[call[r].name]] IN
  /\ call[r].kind = "login" /\ pc[r] = "totp"
  /\ \/ s = Nil /\ Refuse(r, "unauthorized")
     \/ /\ s # Nil /\ secret' = [secret EXCEPT ![r] = s] /\ Goto(r, "verify")
        /\ UNCHANGED <<now, tables, status, call, as, exp>>

LoginVerify(r) ==
  /\ pc[r] = "verify"
  /\ \/ CodeMatches(secret[r], call[r].code) /\ Issue(r, ClaimsOfPassword(call[r].name, exp[r]))
     \/ ~CodeMatches(secret[r], call[r].code) /\ Refuse(r, "unauthorized")
-----------------------------------------------------------------------------
Step(r) ==
  \/ EmailRequest(r) \/ UseRequest(r) \/ LoginRequest(r) \/ Filter(r) \/ Use(r)
  \/ EmailFind(r) \/ EmailTOTP(r) \/ EmailCreate(r) \/ EmailSend(r)
  \/ LoginStart(r) \/ LoginTOTP(r) \/ LoginVerify(r)

Next == Tick \/ \E r \in Request : Step(r)
Spec == Init /\ [][Next]_vars
-----------------------------------------------------------------------------
\* The type of every variable.
TypeOK ==
  /\ now \in Nat /\ totp \in [User -> Secret \cup {Nil}]
  /\ mailed \in SUBSET [to : User, code : Code] /\ tokens \in SUBSET Token
  /\ pc \in [Request -> Phase] /\ status \in [Request -> Status]
  /\ call \in [Request -> Call] /\ as \in [Request -> User \cup {System, Nil}]
  /\ exp \in [Request -> Int] /\ secret \in [Request -> Secret \cup {Nil}]

\* Every password that was mailed is one of the secret stored for its addressee,
\* so it logs in while its period lasts: two e-mail requests that both find no
\* TOTP never mail passwords of two secrets.
MailedPasswordsMatch == \A m \in mailed : totp[m.to] = m.code.secret

\* A token that endpoints may accept is handed out only to the system user, or
\* for a user to whom a password of the stored secret was mailed, no earlier than
\* in the period before ("up to 1 time period after it was generated").
TokensNeedMailedPassword ==
  [][\A t \in tokens' \ tokens : t.sid = SessionIdentifier =>
       \/ t.sub = SystemName /\ \E r \in Request : as[r] = System /\ as'[r] = Nil
       \/ \E m \in mailed : /\ m.to = Named[t.sub] /\ m.code.secret = totp[m.to]
                            /\ now \div Period <= m.code.period + 1]_vars

\* Wherever a request is served as a registered user, a password had been mailed
\* to that user before, or the user bears the system's name and a token for that
\* name is out.
ServedAsMailed ==
  \A r \in Request : as[r] \in User =>
    \/ \E m \in mailed : m.to = as[r]
    \/ as[r] = Named[SystemName] /\ \E t \in tokens : t.sub = SystemName

\* "you will essentially use that token as your credentials and receive a new
\* token" (login): the new token speaks for the user of the old one.
NewTokensWork ==
  [][\A t \in tokens' \ tokens : Valid(t) => UserOfToken(t) # Nil]_vars
=============================================================================
