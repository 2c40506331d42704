--------------------------- MODULE StsIssuingProofs ---------------------------
(***************************************************************************)
(* The host of the token service implements TokenIssuing: for every number  *)
(* of threads, every set of messages and every setting, what it answers is  *)
(* what the message calls for, unless the log loses it.                     *)
(***************************************************************************)
EXTENDS StsHostProofs

\* A call whose proper answer is lost.
Lost(c) == c.exception = IOException \/ c.reply = FaultOfLastResort

Answering == {"replying", "loggingReply", "sending"}

\* The period of a token was in order when the service looked at it.
PeriodIsDue(m, period, latest) ==
    \E clock \in 0 .. latest : /\ period = Promise!Asked(m, clock)
                              /\ Promise!Acceptable(period, clock)

\* What each stage of a call knows about the answer it will end with.
CallIsDue(t) ==
    LET c == call[t]
        m == call[t].message
    IN /\ c.stage \notin Answering \cup {"failed"} => c.exception = NoException
       /\ c.stage \notin Answering => c.reply = Nothing
       /\ c.stage \in {"scoped", "prepared"} =>
             m.wellFormed /\ ScopeException(m.rst) = NoException
       /\ c.stage = "prepared" => PeriodIsDue(m, c.period, now)
       /\ c.stage = "failed" =>
             \/ c.exception = IOException
             \/ Promise!FaultIsDue(m, ProvideFault(c.exception).code, now)
       /\ c.stage \in Answering =>
             IF Lost(c) THEN Promise!Disturbance(c.reply) ELSE Promise!ReplyIsDue(m, c.reply, now)

DueInv == \A t \in Threads : CallIsDue(t)

-----------------------------------------------------------------------------
(* The checks of the service throw what TokenIssuing says is due.            *)

LEMMA ScopeFaultIsDue ==
    ASSUME NEW m, m.rst \in Rsts,
           NEW exception,
           exception = IF m.wellFormed THEN ScopeException(m.rst)
                       ELSE FaultException("InvalidRequest"),
           exception # NoException
    PROVE  Promise!FaultIsDue(m, ProvideFault(exception).code, now)
<1>1. CASE ~m.wellFormed
  BY <1>1 DEF ProvideFault, FaultException, Promise!FaultIsDue
<1>2. CASE m.wellFormed /\ m.rst.appliesTo = "missing"
  BY <1>2 DEF ProvideFault, ScopeException, OtherException, Promise!FaultIsDue
<1>3. CASE m.wellFormed /\ m.rst.appliesTo = "noconnectionfound"
  BY <1>3 DEF ProvideFault, ScopeException, FaultException, Promise!FaultIsDue,
              Promise!NoConnection
<1>4. CASE m.wellFormed /\ m.rst.appliesTo \notin {"missing", "noconnectionfound"}
  BY <1>4 DEF ScopeException
<1> QED
  BY <1>1, <1>2, <1>3, <1>4

\* The checks of the base service refuse a period exactly when it is not in order.
LEMMA LifetimeIsJudged ==
    ASSUME NEW m, m.rst \in Rsts, NEW clock \in Nat
    PROVE  LET period == GetTokenLifetime(m.rst.lifetime, clock)
               exception == LifetimeException(period, clock)
           IN /\ period = Promise!Asked(m, clock)
              /\ exception = NoException <=> Promise!Acceptable(period, clock)
              /\ exception \in {NoException, FaultException("InvalidRequest")}
<1> DEFINE period == GetTokenLifetime(m.rst.lifetime, clock)
<1>1. m.rst.lifetime \in Lifetimes
  BY DEF Rsts
<1>2. period = Promise!Asked(m, clock)
  BY <1>1 DEF GetTokenLifetime, Promise!Asked, Promise!Unset, Unset
<1>3. period.notBefore \in Int /\ period.notOnOrAfter \in Int
  BY <1>1, LifetimeType DEF Periods
<1> HIDE DEF period
<1>4. LifetimeException(period, clock) = NoException <=> Promise!Acceptable(period, clock)
  BY <1>3, StsTokenAssumption
     DEF LifetimeException, NoException, FaultException, Promise!Acceptable
<1>5. LifetimeException(period, clock) \in {NoException, FaultException("InvalidRequest")}
  BY DEF LifetimeException
<1> QED
  BY <1>2, <1>4, <1>5 DEF period

LEMMA LifetimeFaultIsDue ==
    ASSUME NEW m, m.rst \in Rsts, m.wellFormed, ScopeException(m.rst) = NoException,
           NEW clock \in Nat,
           NEW exception,
           exception = LifetimeException(GetTokenLifetime(m.rst.lifetime, clock), clock),
           exception # NoException
    PROVE  Promise!FaultIsDue(m, ProvideFault(exception).code, clock)
<1>1. /\ exception = FaultException("InvalidRequest")
      /\ ~Promise!Acceptable(Promise!Asked(m, clock), clock)
  BY LifetimeIsJudged
<1>2. Promise!Scoped(m)
  BY DEF ScopeException, FaultException, OtherException, NoException,
         Promise!Scoped, Promise!Refusable, Promise!NoConnection
<1>3. ProvideFault(exception).code = "InvalidRequest"
  BY <1>1 DEF ProvideFault, FaultException
<1>4. clock \in 0 .. clock
  OBVIOUS
<1> QED
  BY <1>1, <1>2, <1>3, <1>4 DEF Promise!FaultIsDue

\* What was due once stays due.
LEMMA DueStays ==
    ASSUME NEW m, NEW i, NEW j, 0 .. i \subseteq 0 .. j
    PROVE  /\ \A code : Promise!FaultIsDue(m, code, i) => Promise!FaultIsDue(m, code, j)
           /\ \A reply : Promise!ReplyIsDue(m, reply, i) => Promise!ReplyIsDue(m, reply, j)
<1>1. \A code : Promise!FaultIsDue(m, code, i) => Promise!FaultIsDue(m, code, j)
  BY DEF Promise!FaultIsDue
<1>2. \A token : Promise!TokenIsDue(m, token, i) => Promise!TokenIsDue(m, token, j)
  BY DEF Promise!TokenIsDue
<1> QED
  BY <1>1, <1>2 DEF Promise!ReplyIsDue

\* A certificate never has two name claims left.
LEMMA SubjectIsNamed ==
    ASSUME NEW certificate, NEW rst,
           SubjectException(Principal(certificate), rst) # NoException
    PROVE  /\ rst.onBehalfOf = [kind |-> "saml2", who |-> "none"]
           /\ SubjectException(Principal(certificate), rst) = OtherException
<1>1. Principal(certificate).nameClaims = 1
  BY StsTokenAssumption DEF Principal
<1> QED
  BY <1>1 DEF SubjectException

LEMMA IssueFaultIsDue ==
    ASSUME NEW m, m.rst \in Rsts, m.wellFormed, ScopeException(m.rst) = NoException,
           NEW exception,
           exception = IF ClaimsException(Principal(m.certificate), m.rst) # NoException
                       THEN ClaimsException(Principal(m.certificate), m.rst)
                       ELSE SubjectException(Principal(m.certificate),
                                             WithSecondaryParameters(m.rst)),
           exception # NoException
    PROVE  Promise!FaultIsDue(m, ProvideFault(exception).code, now)
<1> DEFINE claims == ClaimsException(Principal(m.certificate), m.rst)
<1>1. Promise!Scoped(m)
  BY DEF ScopeException, FaultException, OtherException, NoException,
         Promise!Scoped, Promise!Refusable, Promise!NoConnection
<1>2. Principal(m.certificate).requestor = m.certificate
  BY DEF Principal
<1>3. CASE claims # NoException
  <2>1. CASE Promise!NoMappedUser(m)
    <3>1. claims = FaultException("5607")
      BY <1>2, <2>1 DEF ClaimsException, Promise!NoMappedUser
    <3> QED
      BY <1>1, <1>3, <2>1, <3>1 DEF ProvideFault, FaultException, Promise!FaultIsDue
  <2>2. CASE ~Promise!NoMappedUser(m) /\ Promise!NoClaims(m)
    <3>1. claims = FaultException("5015")
      BY <1>2, <2>2 DEF ClaimsException, Promise!NoMappedUser, Promise!NoClaims
    <3> QED
      BY <1>1, <1>3, <2>2, <3>1 DEF ProvideFault, FaultException, Promise!FaultIsDue
  <2>3. CASE ~Promise!NoMappedUser(m) /\ ~Promise!NoClaims(m)
    <3>1. claims = FaultException("Sender") /\ Promise!Unreadable(m)
      BY <1>2, <1>3, <2>3
         DEF ClaimsException, Promise!NoMappedUser, Promise!NoClaims, Promise!Unreadable
    <3> QED
      BY <1>1, <1>3, <2>3, <3>1 DEF ProvideFault, FaultException, Promise!FaultIsDue
  <2> QED
    BY <2>1, <2>2, <2>3
<1>4. CASE claims = NoException
  <2>1. WithSecondaryParameters(m.rst).onBehalfOf = m.rst.onBehalfOf
    BY SecondaryParametersType
  <2>2. Promise!Nameless(m) /\ exception = OtherException
    BY <1>4, <2>1, SubjectIsNamed DEF Promise!Nameless
  <2>3. ~Promise!NoMappedUser(m) /\ ~Promise!NoClaims(m)
    BY <1>2, <1>4 DEF ClaimsException, FaultException, NoException,
                      Promise!NoMappedUser, Promise!NoClaims
  <2> QED
    BY <1>1, <2>2, <2>3 DEF ProvideFault, OtherException, Promise!FaultIsDue
<1> QED
  BY <1>3, <1>4

\* A token that passed the checks is the one its message calls for.
LEMMA TokenIsDueWhenIssued ==
    ASSUME NEW m, m.rst \in Rsts, m.certificate \in Certificates, m.wellFormed,
           ScopeException(m.rst) = NoException,
           NEW period \in Periods, now \in Nat, PeriodFits(m, period),
           ClaimsException(Principal(m.certificate), m.rst) = NoException,
           SubjectException(Principal(m.certificate), WithSecondaryParameters(m.rst))
              = NoException,
           PeriodIsDue(m, period, now)
    PROVE  Promise!TokenIsDue(m, CreateToken(Principal(m.certificate), m.rst,
                                    WithSecondaryParameters(m.rst), period, now), now)
<1> DEFINE principal == Principal(m.certificate)
           rst == WithSecondaryParameters(m.rst)
           token == CreateToken(principal, m.rst, rst, period, now)
<1>1. /\ rst \in Rsts
      /\ rst.appliesTo = m.rst.appliesTo
      /\ rst.onBehalfOf = m.rst.onBehalfOf
  BY SecondaryParametersType
<1>2. principal.name = GetSubjectNameId(m.certificate) /\ principal.requestor = m.certificate
  BY DEF Principal
<1>3. Promise!Scoped(m)
  BY DEF ScopeException, FaultException, OtherException, NoException,
         Promise!Scoped, Promise!Refusable, Promise!NoConnection
<1>4. ~Promise!NoMappedUser(m) /\ ~Promise!NoClaims(m) /\ ~Promise!Unreadable(m)
  BY <1>2 DEF ClaimsException, FaultException, NoException,
              Promise!NoMappedUser, Promise!NoClaims, Promise!Unreadable
<1>5. ~Promise!Nameless(m)
  BY <1>1 DEF SubjectException, OtherException, NoException, Promise!Nameless
<1>6. TokenFits(m, token)
  BY CreateTokenFits, CreateTokenType, <1>1 DEF ReplyFits, Tokens
<1>7. IF m.rst.onBehalfOf = NoOnBehalfOf
      THEN token.subject = GetSubjectNameId(m.certificate) /\ token.confirmedBy = "none"
      ELSE token.confirmedBy = GetSubjectNameId(m.certificate)
  BY <1>1, <1>2 DEF CreateToken, SubjectName, NoOnBehalfOf
<1>8. m.rst.onBehalfOf.kind = "saml2" => token.subject = m.rst.onBehalfOf.who
  BY <1>1 DEF CreateToken, SubjectName
<1>9. "AssuranceLevel 1" \in token.attributes
         <=> m.certificate = "client" /\ m.rst.onBehalfOf = NoOnBehalfOf
  <2>1. token.attributes = GetOutputClaimsIdentity(principal, m.rst)
    BY DEF CreateToken
  <2> QED
    BY <1>2, <2>1 DEF GetOutputClaimsIdentity, UserAttributes
<1>10. token.method = "bearer" <=>
          "bearer" = IF m.rst.secondaryKeyType # "none"
                     THEN m.rst.secondaryKeyType ELSE m.rst.keyType
  <2>1. rst.keyType = IF m.rst.secondaryKeyType # "none"
                      THEN m.rst.secondaryKeyType ELSE m.rst.keyType
    BY DEF WithSecondaryParameters, Rsts
  <2>2. token.method = IF rst.keyType = "bearer" THEN "bearer" ELSE "holder-of-key"
    BY DEF CreateToken
  <2> QED
    BY <2>1, <2>2
<1>11. \E clock \in 0 .. now : /\ token.conditions = Promise!Asked(m, clock)
                               /\ Promise!Acceptable(token.conditions, clock)
  BY DEF PeriodIsDue, CreateToken
<1> HIDE DEF token, rst, principal
<1>12. Promise!TokenIsDue(m, token, now)
  BY <1>3, <1>4, <1>5, <1>6, <1>7, <1>8, <1>9, <1>10, <1>11
     DEF Promise!TokenIsDue, TokenFits, Promise!NoOnBehalfOf, NoOnBehalfOf,
         Promise!GetSubjectNameId, GetSubjectNameId
<1> QED
  BY <1>12 DEF token, rst, principal

-----------------------------------------------------------------------------
(* Every step keeps DueInv.                                                   *)

LEMMA NothingIsNoReply == Nothing \notin Replies /\ FaultOfLastResort # Nothing
  BY StsHostAssumption DEF Replies

\* What the service or its error handler answers is not WCF's own fault.
LEMMA ServiceReplies ==
    ASSUME NEW reply \in Tokens \cup Faults
    PROVE  reply \in Replies /\ reply # FaultOfLastResort
<1>1. reply.kind \in {"token", "fault"}
  BY DEF Tokens, Faults
<1>2. FaultOfLastResort.kind = "fault of last resort"
  BY DEF FaultOfLastResort
<1> QED
  BY <1>1, <1>2 DEF Replies

\* A thread has to care about its own call only.
LEMMA OthersStayDue ==
    ASSUME IInv, DueInv, NEW t \in Threads, NEW c \in Calls, Continue(t, c), CallIsDue(t)',
           UNCHANGED now
    PROVE  DueInv'
<1>1. \A u \in Threads : u # t => call'[u] = call[u]
  BY ContinueCall DEF IInv
<1>2. \A u \in Threads : u # t => CallIsDue(u)'
  BY <1>1 DEF DueInv, CallIsDue, Lost
<1> QED
  BY <1>2 DEF DueInv

LEMMA FailStaysDue ==
    ASSUME IInv, DueInv, NEW t \in Threads, NEW exception \in Exceptions,
           Fail(t, exception), UNCHANGED now,
           call[t].stage \in {"received", "dispatched", "scoped", "prepared"},
           exception = IOException
              \/ Promise!FaultIsDue(call[t].message, ProvideFault(exception).code, now)
    PROVE  DueInv'
<1> DEFINE c == [call[t] EXCEPT !.stage = "failed", !.exception = exception]
<1>1. call[t] \in Calls /\ call[t].reply = Nothing
  BY CallType DEF DueInv, CallIsDue, Answering
<1>2. /\ c \in Calls /\ c.stage = "failed" /\ c.exception = exception
      /\ c.message = call[t].message /\ c.reply = Nothing
  BY <1>1 DEF Calls, Stages
<1>3. Continue(t, c)
  BY DEF Fail
<1> HIDE DEF c
<1>4. call'[t] = c
  BY <1>2, <1>3, ContinueCall DEF IInv
<1>5. CallIsDue(t)'
  BY <1>2, <1>4 DEF CallIsDue, Answering
<1> QED
  BY <1>2, <1>3, <1>5, OthersStayDue

LEMMA ReplyStaysDue ==
    ASSUME IInv, DueInv, NEW t \in Threads, NEW stage \in {"replying", "sending"},
           NEW reply \in Replies, Reply(t, stage, reply), UNCHANGED now,
           IF Lost([call[t] EXCEPT !.stage = stage, !.reply = reply])
           THEN Promise!Disturbance(reply)
           ELSE Promise!ReplyIsDue(call[t].message, reply, now)
    PROVE  DueInv'
<1> DEFINE c == [call[t] EXCEPT !.stage = stage, !.reply = reply]
<1>1. call[t] \in Calls
  BY CallType
<1>2. /\ c \in Calls /\ c.stage = stage /\ c.reply = reply
      /\ c.message = call[t].message
  BY <1>1 DEF Calls, Stages
<1>3. Continue(t, c)
  BY DEF Reply
<1>4. IF Lost(c) THEN Promise!Disturbance(c.reply) ELSE Promise!ReplyIsDue(c.message, c.reply, now)
  BY <1>2
<1> HIDE DEF c
<1>5. call'[t] = c
  BY <1>2, <1>3, ContinueCall DEF IInv
<1>6. CallIsDue(t)'
  BY <1>2, <1>4, <1>5 DEF CallIsDue, Answering
<1> QED
  BY <1>2, <1>3, <1>6, OthersStayDue

\* Steps that only move on to the next stage.
LEMMA AdvanceStaysDue ==
    ASSUME IInv, DueInv, NEW t \in Threads, NEW stage \in Stages, Advance(t, stage), UNCHANGED now,
           \/ call[t].stage \in {"received", "loggingRequest"}
                 /\ stage \in {"loggingRequest", "dispatched"}
           \/ call[t].stage = "dispatched" /\ stage = "scoped"
                 /\ call[t].message.wellFormed
                 /\ ScopeException(call[t].message.rst) = NoException
           \/ call[t].stage \in Answering /\ stage \in Answering
    PROVE  DueInv'
<1> DEFINE c == [call[t] EXCEPT !.stage = stage]
<1>1. call[t] \in Calls /\ CallIsDue(t)
  BY CallType DEF DueInv
<1>2. /\ c \in Calls /\ c.stage = stage /\ c.reply = call[t].reply
      /\ c.message = call[t].message /\ c.exception = call[t].exception
  BY <1>1 DEF Calls
<1>3. Continue(t, c)
  BY DEF Advance
<1> HIDE DEF c
<1>4. call'[t] = c
  BY <1>2, <1>3, ContinueCall DEF IInv
<1>5. CallIsDue(t)'
  BY <1>1, <1>2, <1>4 DEF CallIsDue, Answering, Lost
<1> QED
  BY <1>2, <1>3, <1>5, OthersStayDue

LEMMA AuthenticateStaysDue ==
    ASSUME IInv, DueInv, NEW t \in Threads, NEW m \in Messages, Authenticate(t, m)
    PROVE  DueInv'
<1> DEFINE c == [call[t] EXCEPT !.message = m,
                    !.stage = IF EnableSoapMessageLog THEN "received" ELSE "dispatched"]
<1>1. /\ call[t] \in Calls /\ CallIsDue(t) /\ call[t].stage = "idle" /\ Continue(t, c)
      /\ UNCHANGED now
  BY CallType DEF DueInv, Authenticate
<1>2. /\ c \in Calls /\ c.stage \in {"received", "dispatched"}
      /\ c.reply = call[t].reply /\ c.exception = call[t].exception
  BY <1>1 DEF Calls, Stages
<1> HIDE DEF c
<1>3. call'[t] = c
  BY <1>1, <1>2, ContinueCall DEF IInv
<1>4. CallIsDue(t)'
  BY <1>1, <1>2, <1>3 DEF CallIsDue, Answering
<1> QED
  BY <1>1, <1>2, <1>4, OthersStayDue

LEMMA GetSecurityTokenHandlerStaysDue ==
    ASSUME IInv, DueInv, NEW t \in Threads, GetSecurityTokenHandler(t)
    PROVE  DueInv'
<1> DEFINE rst == call[t].message.rst
           period == GetTokenLifetime(rst.lifetime, now)
           exception == LifetimeException(period, now)
           c == [call[t] EXCEPT !.stage = "prepared", !.period = period,
                                !.handler = clientRequest[t]]
<1>1. /\ call[t].stage = "scoped"
      /\ IF exception = NoException THEN Continue(t, c) ELSE Fail(t, exception)
      /\ UNCHANGED now
  BY DEF GetSecurityTokenHandler, Instance
<1>2. /\ call[t] \in Calls /\ rst \in Rsts /\ CallIsDue(t)
      /\ clientRequest[t] \in Rsts \cup {Nothing}
  BY <1>1, CallType DEF DueInv
<1>3. rst.lifetime \in Lifetimes /\ now \in Nat
  BY <1>2 DEF Rsts, IInv, TypeOK
<1>4. period \in Periods /\ exception \in Exceptions
  BY <1>3, LifetimeType
<1>5. CASE exception # NoException
  <2>1. Promise!FaultIsDue(call[t].message, ProvideFault(exception).code, now)
    BY <1>1, <1>2, <1>3, <1>5, LifetimeFaultIsDue DEF CallIsDue
  <2> HIDE DEF exception
  <2> QED
    BY <1>1, <1>4, <1>5, <2>1, FailStaysDue
<1>6. CASE exception = NoException
  <2>7. PeriodIsDue(call[t].message, period, now)
    BY <1>2, <1>3, <1>6, LifetimeIsJudged DEF PeriodIsDue
  <2> HIDE DEF exception, period
  <2>1. /\ c \in Calls /\ c.stage = "prepared" /\ c.reply = call[t].reply
        /\ c.message = call[t].message /\ c.exception = call[t].exception
        /\ c.period = period
    BY <1>2, <1>4, <1>6 DEF Calls, Stages
  <2>2. Continue(t, c)
    BY <1>1, <1>6
  <2> HIDE DEF c
  <2>3. call'[t] = c
    BY <2>1, <2>2, ContinueCall DEF IInv
  <2>4. CallIsDue(t)'
    BY <1>1, <1>2, <2>1, <2>3, <2>7 DEF CallIsDue, Answering
  <2> QED
    BY <1>1, <2>1, <2>2, <2>4, OthersStayDue
<1> QED
  BY <1>5, <1>6

LEMMA IssueStaysDue ==
    ASSUME IInv, DueInv, NEW t \in Threads, Issue(t)
    PROVE  DueInv'
<1> DEFINE m == call[t].message
           principal == Principal(m.certificate)
           rst == WithSecondaryParameters(m.rst)
           claims == ClaimsException(principal, m.rst)
           subject == SubjectException(principal, rst)
           exception == IF claims # NoException THEN claims ELSE subject
           token == CreateToken(principal, m.rst, rst, call[t].period, now)
<1>1. /\ call[t] \in Calls /\ m.rst \in Rsts
      /\ m.certificate \in Certificates /\ now \in Nat
      /\ call[t].stage = "prepared" /\ call[t].handler = rst
      /\ PeriodFits(m, call[t].period) /\ call[t].period \in Periods
  BY CallType DEF Issue, CallFits, Calls, IInv, TypeOK
<1>2. /\ m.wellFormed /\ ScopeException(m.rst) = NoException
      /\ call[t].exception = NoException /\ PeriodIsDue(m, call[t].period, now)
  BY <1>1 DEF DueInv, CallIsDue, Answering
<1>3. rst \in Rsts /\ rst # Nothing
  BY <1>1, SecondaryParametersType, StsHostAssumption
<1>4. /\ IF exception = NoException THEN Reply(t, "replying", token) ELSE Fail(t, exception)
      /\ UNCHANGED now
  BY <1>1, <1>3 DEF Issue
<1>5. claims \in Exceptions /\ subject \in Exceptions
  BY <1>1, <1>3, ExceptionTypes
<1>6. CASE exception # NoException
  <2>1. Promise!FaultIsDue(m, ProvideFault(exception).code, now)
    BY <1>1, <1>2, <1>6, IssueFaultIsDue
  <2>2. exception \in Exceptions
    BY <1>5
  <2> HIDE DEF exception
  <2> QED
    BY <1>1, <1>4, <1>6, <2>1, <2>2, FailStaysDue
<1>7. CASE exception = NoException
  <2>1. claims = NoException /\ subject = NoException
    BY <1>7
  <2>2. Promise!TokenIsDue(m, token, now)
    BY <1>1, <1>2, <2>1, TokenIsDueWhenIssued
  <2>3. token \in Tokens
    BY <1>1, <1>3, <2>1, CreateTokenType
  <2>4. token.kind = "token"
    BY DEF CreateToken
  <2>5. Reply(t, "replying", token)
    BY <1>4, <1>7
  <2> HIDE DEF token
  <2>6. token # FaultOfLastResort /\ token \in Replies /\ Promise!ReplyIsDue(m, token, now)
    BY <2>2, <2>3, <2>4, ServiceReplies DEF Promise!ReplyIsDue
  <2>7. ~Lost([call[t] EXCEPT !.stage = "replying", !.reply = token])
    BY <1>1, <1>2, <2>6 DEF Lost, Calls, NoException, IOException
  <2> QED
    BY <1>4, <2>5, <2>6, <2>7, ReplyStaysDue
<1> QED
  BY <1>6, <1>7

LEMMA HandleErrorStaysDue ==
    ASSUME IInv, DueInv, NEW t \in Threads, HandleError(t)
    PROVE  DueInv'
<1> DEFINE reply == ProvideFault(call[t].exception)
           c == [call[t] EXCEPT !.stage = "replying", !.reply = reply]
<1>1. /\ call[t] \in Calls /\ call[t].stage = "failed" /\ CallIsDue(t)
      /\ call[t].exception \in Exceptions /\ Reply(t, "replying", reply)
      /\ UNCHANGED now
  BY CallType DEF DueInv, HandleError, Calls
<1>2. reply \in Faults
  BY <1>1, ProvideFaultType
<1>3. reply \in Replies /\ reply.kind = "fault" /\ reply # FaultOfLastResort
  BY <1>2, ServiceReplies DEF Faults
<1>4. Lost(c) <=> call[t].exception = IOException
  BY <1>1, <1>3 DEF Lost, Calls
<1>5. IF Lost(c) THEN Promise!Disturbance(reply)
                 ELSE Promise!ReplyIsDue(call[t].message, reply, now)
  <2>1. call[t].exception = IOException => reply.code = "5050"
    BY DEF ProvideFault, IOException
  <2>2. call[t].exception # IOException =>
           Promise!FaultIsDue(call[t].message, reply.code, now)
    BY <1>1 DEF CallIsDue
  <2> QED
    BY <1>3, <1>4, <2>1, <2>2 DEF Promise!Disturbance, Promise!ReplyIsDue
<1> HIDE DEF reply
<1> QED
  BY <1>1, <1>3, <1>5, ReplyStaysDue

LEMMA WorkStaysDue ==
    ASSUME IInv, DueInv, NEW t \in Threads, Work(t)
    PROVE  DueInv'
<1>1. CASE OpenRequestLog(t) \/ CloseRequestLog(t)
  BY <1>1, AdvanceStaysDue DEF OpenRequestLog, CloseRequestLog, Stages
<1>2. CASE OpenReplyLog(t) \/ CloseReplyLog(t)
  BY <1>2, AdvanceStaysDue DEF OpenReplyLog, CloseReplyLog, Stages, Answering
<1>3. CASE GetScope(t)
  BY <1>3, AdvanceStaysDue DEF GetScope, Stages
<1>4. CASE RequestLogThrows(t)
  <2>1. IOException \in Exceptions
    BY DEF IOException, Exceptions
  <2> QED
    BY <1>4, <2>1, FailStaysDue DEF RequestLogThrows
<1>5. CASE ScopeFails(t)
  <2> DEFINE m == call[t].message
             exception == IF m.wellFormed THEN ScopeException(m.rst)
                          ELSE FaultException("InvalidRequest")
  <2>1. m.rst \in Rsts /\ call[t].stage = "dispatched" /\ Fail(t, exception)
        /\ exception # NoException /\ UNCHANGED now
    BY <1>5, CallType DEF ScopeFails
  <2>2. exception \in Exceptions
    <3>1. ScopeException(m.rst) \in Exceptions
      BY <2>1, ExceptionTypes
    <3>2. FaultException("InvalidRequest") \in Exceptions
      BY DEF FaultException, Exceptions, FaultCodes
    <3> QED
      BY <3>1, <3>2
  <2>3. Promise!FaultIsDue(m, ProvideFault(exception).code, now)
    BY <2>1, ScopeFaultIsDue
  <2> HIDE DEF exception
  <2> QED
    BY <2>1, <2>2, <2>3, FailStaysDue
<1>6. CASE ReplyLogThrows(t)
  <2>1. FaultOfLastResort \in Replies /\ Promise!Disturbance(FaultOfLastResort)
    BY DEF Replies, FaultOfLastResort, Promise!Disturbance
  <2>2. Lost([call[t] EXCEPT !.stage = "sending", !.reply = FaultOfLastResort])
    BY CallType DEF Lost, Calls
  <2>3. Reply(t, "sending", FaultOfLastResort) /\ UNCHANGED now
    BY <1>6 DEF ReplyLogThrows
  <2> QED
    BY <2>1, <2>2, <2>3, ReplyStaysDue
<1>7. CASE SendReply(t)
  <2>1. /\ IdleCall \in Calls /\ IdleCall.stage = "idle"
        /\ IdleCall.exception = NoException /\ IdleCall.reply = Nothing
    BY DEF IdleCall, Calls, Stages, Periods, Exceptions
  <2>2. Continue(t, IdleCall) /\ UNCHANGED now
    BY <1>7 DEF SendReply
  <2>3. call'[t] = IdleCall
    BY <2>1, <2>2, ContinueCall DEF IInv
  <2>4. CallIsDue(t)'
    BY <2>1, <2>3 DEF CallIsDue, Answering
  <2> QED
    BY <2>1, <2>2, <2>4, OthersStayDue
<1> QED
  BY <1>1, <1>2, <1>3, <1>4, <1>5, <1>6, <1>7, GetSecurityTokenHandlerStaysDue,
     IssueStaysDue, HandleErrorStaysDue DEF Work

LEMMA InitDue == Init => DueInv
<1> SUFFICES ASSUME Init, NEW t \in Threads PROVE CallIsDue(t)
  BY DEF DueInv
<1>1. call[t].stage = "idle" /\ call[t].exception = NoException /\ call[t].reply = Nothing
  BY DEF Init, IdleCall
<1> QED
  BY <1>1 DEF CallIsDue, Answering

LEMMA NextDue == IInv /\ DueInv /\ [Next]_vars => DueInv'
<1> SUFFICES ASSUME IInv, DueInv, [Next]_vars PROVE DueInv'
  OBVIOUS
<1>1. CASE \E t \in Threads, m \in Messages : Authenticate(t, m)
  BY <1>1, AuthenticateStaysDue
<1>2. CASE \E t \in Threads : Work(t)
  BY <1>2, WorkStaysDue
<1>3. CASE UNCHANGED call /\ now' \in {now, now + 1}
  <2> SUFFICES ASSUME NEW t \in Threads, CallIsDue(t) PROVE CallIsDue(t)'
    BY DEF DueInv
  <2>1. call'[t] = call[t] /\ 0 .. now \subseteq 0 .. now'
    BY <1>3 DEF IInv, TypeOK
  <2>2. /\ \A m, period : PeriodIsDue(m, period, now) => PeriodIsDue(m, period, now')
        /\ \A m, code : Promise!FaultIsDue(m, code, now) => Promise!FaultIsDue(m, code, now')
        /\ \A m, reply : Promise!ReplyIsDue(m, reply, now) => Promise!ReplyIsDue(m, reply, now')
    BY <2>1, DueStays DEF PeriodIsDue
  <2> QED
    BY <2>1, <2>2 DEF CallIsDue, Lost
<1>4. (\E m \in Messages : RefuseMessage(m)) \/ Tick \/ UNCHANGED vars
         => UNCHANGED call /\ now' \in {now, now + 1}
  BY DEF RefuseMessage, Tick, vars
<1> QED
  BY <1>1, <1>2, <1>3, <1>4 DEF Next

-----------------------------------------------------------------------------
(* Every step of the host is a step of TokenIssuing or leaves it as it is.    *)

LEMMA DisturbedCalls ==
    Disturbed = {call[t].message : t \in {u \in Threads : Lost(call[u])}}
  BY DEF Disturbed, Lost

\* Only a call that has failed or has its reply, hence a message, can be lost.
LEMMA LostCalls ==
    ASSUME IInv, DueInv, NEW t \in Threads, Lost(call[t])
    PROVE  Serving(t) /\ call[t].stage \in {"failed"} \cup Answering
<1>1. CallFits(t) /\ CallIsDue(t)
  BY DEF IInv, DueInv
<1>2. call[t].stage \in {"failed"} \cup Answering
  BY <1>1, NothingIsNoReply DEF CallIsDue, Lost, NoException, IOException
<1> QED
  BY <1>1, <1>2 DEF CallFits, Answering, Serving

\* A step of a thread that neither loses an answer nor has one lost.
LEMMA SameDisturbed ==
    ASSUME IInv, NEW t \in Threads, NEW c \in Calls, Continue(t, c),
           \/ /\ c.message = call[t].message
              /\ Lost(c) <=> Lost(call[t])
           \/ ~Lost(c) /\ ~Lost(call[t])
    PROVE  Disturbed' = Disturbed
<1>1. /\ call'[t] = c
      /\ \A u \in Threads : u # t => call'[u] = call[u]
  BY ContinueCall DEF IInv
<1>2. \A u \in Threads : /\ Lost(call'[u]) <=> Lost(call[u])
                         /\ Lost(call[u]) => call'[u].message = call[u].message
  BY <1>1 DEF Lost
<1>3. Disturbed' = {call'[u].message : u \in {v \in Threads : Lost(call'[v])}}
  BY DEF Disturbed, Lost
<1> QED
  BY <1>2, <1>3, DisturbedCalls

\* The message of a busy thread is in flight.
LEMMA ServedMessages ==
    ASSUME IInv, NEW t \in Threads, Serving(t)
    PROVE  call[t].message \in Messages /\ call[t].message \in Promise!InFlight
<1>1. call[t].message \in seen /\ \A a \in answers : a.message # call[t].message
  BY DEF IInv, Remembered, ServedAtMostOnce
<1>2. seen \subseteq Messages
  BY DEF IInv, TypeOK
<1> QED
  BY <1>1, <1>2 DEF Promise!InFlight

LEMMA PromiseInit == Init => Promise!Init
<1> SUFFICES ASSUME Init PROVE Promise!Init
  OBVIOUS
<1>1. \A t \in Threads : ~Lost(call[t])
  BY NothingIsNoReply DEF Init, IdleCall, Lost, NoException, IOException
<1>2. Disturbed = {}
  BY <1>1, DisturbedCalls
<1> QED
  BY <1>2 DEF Init, Promise!Init

LEMMA AuthenticateAccepts ==
    ASSUME IInv, DueInv, NEW t \in Threads, NEW m \in Messages, Authenticate(t, m)
    PROVE  Promise!Accept(m)
<1> DEFINE c == [call[t] EXCEPT !.message = m,
                    !.stage = IF EnableSoapMessageLog THEN "received" ELSE "dispatched"]
<1>1. /\ Continue(t, c) /\ call[t].stage = "idle" /\ seen' = seen \cup {m}
      /\ UNCHANGED <<answers, now>>
      /\ \A s \in seen : s.id # m.id
  BY DEF Authenticate, Authentic, Replayed
<1>2. call[t] \in Calls /\ ~Lost(call[t])
  BY <1>1, CallType, LostCalls DEF Answering
<1>3. c \in Calls /\ ~Lost(c)
  BY <1>2 DEF Calls, Stages, Lost
<1> HIDE DEF c
<1>4. Disturbed' = Disturbed
  BY <1>1, <1>2, <1>3, SameDisturbed
<1> QED
  BY <1>1, <1>4 DEF Promise!Accept

\* The inspector throws only when the disk fails or another message, still in
\* flight, has the log file open.
LEMMA LogThrowsDisturbs ==
    ASSUME IInv, NEW t \in Threads, RequestLogThrows(t) \/ ReplyLogThrows(t)
    PROVE  call[t].message \in Messages /\ Promise!Disturb(call[t].message)
<1> DEFINE m == call[t].message
           c == IF RequestLogThrows(t)
                THEN [call[t] EXCEPT !.stage = "failed", !.exception = IOException]
                ELSE [call[t] EXCEPT !.stage = "sending", !.reply = FaultOfLastResort]
           file == IF RequestLogThrows(t) THEN ReceivedRequest ELSE SentResponse
<1>1. /\ call[t].stage \in {"received", "replying"}
      /\ LogThrows(t, file)
      /\ Continue(t, c)
      /\ UNCHANGED <<seen, answers, now>>
  BY DEF RequestLogThrows, ReplyLogThrows, Fail, Reply
<1>2. call[t] \in Calls /\ m \in Messages /\ Serving(t)
  BY <1>1, CallType, StsHostAssumption DEF Serving
<1>3. c \in Calls /\ c.message = m /\ Lost(c)
  <2>1. CASE RequestLogThrows(t)
    BY <1>2, <2>1 DEF Calls, Stages, Exceptions, Lost
  <2>2. CASE ~RequestLogThrows(t)
    BY <1>2, <2>2 DEF Calls, Stages, Replies, Lost
  <2> QED
    BY <2>1, <2>2
<1>4. m \in Promise!InFlight
  BY <1>2, ServedMessages
<1>5. DiskMayFail \/ \E other \in Promise!InFlight : other # m
  <2> SUFFICES ASSUME writer[file] # NoThread
               PROVE  \E other \in Promise!InFlight : other # m
    BY <1>1 DEF LogThrows
  <2>1. file \in {ReceivedRequest, SentResponse}
    OBVIOUS
  <2>2. PICK u \in Threads : writer[file] = u
    BY <2>1, StsHostAssumption DEF IInv, TypeOK, LogTypeOK
  <2>3. call[u].stage \in {"loggingRequest", "loggingReply"}
    BY <2>1, <2>2 DEF IInv, LogOwnership
  <2>4. u # t /\ Serving(u)
    BY <1>1, <2>3 DEF IInv, CallFits, Serving
  <2>5. call[u].message # m
    BY <1>2, <2>4 DEF IInv, ServedAtMostOnce
  <2> QED
    BY <2>4, <2>5, ServedMessages
<1> HIDE DEF c, file
<1>6. /\ call'[t] = c
      /\ \A u \in Threads : u # t => call'[u] = call[u]
  BY <1>1, <1>3, ContinueCall DEF IInv
<1>7. Disturbed' = Disturbed \cup {m}
  <2>1. Disturbed' = {call'[u].message : u \in {v \in Threads : Lost(call'[v])}}
    BY DEF Disturbed, Lost
  <2>2. Lost(call'[t]) /\ call'[t].message = m
    BY <1>3, <1>6
  <2> QED
    BY <1>6, <2>1, <2>2, DisturbedCalls
<1> QED
  BY <1>1, <1>2, <1>4, <1>5, <1>7 DEF Promise!Disturb

\* What is sent is what the message calls for, unless its answer was lost.
LEMMA SendReplyAnswers ==
    ASSUME IInv, DueInv, NEW t \in Threads, SendReply(t)
    PROVE  call[t].message \in Messages /\ Promise!Answer(call[t].message)
<1> DEFINE m == call[t].message
           a == [message |-> m, reply |-> call[t].reply]
<1>1. /\ call[t].stage \in Answering
      /\ answers' = answers \cup {a}
      /\ Continue(t, IdleCall)
      /\ UNCHANGED <<seen, now>>
  BY DEF SendReply, Answering
<1>2. Serving(t)
  BY <1>1, CallType, StsHostAssumption DEF Serving, Answering
<1>3. m \in Messages /\ m \in Promise!InFlight
  BY <1>2, ServedMessages
<1>4. \A u \in Threads : u # t /\ Lost(call[u]) => call[u].message # m
  BY <1>2, LostCalls DEF IInv, ServedAtMostOnce
<1>5. m \in Disturbed <=> Lost(call[t])
  BY <1>4, DisturbedCalls
<1>6. \/ m \notin Disturbed /\ Promise!ReplyIsDue(m, a.reply, now)
      \/ m \in Disturbed /\ Promise!Disturbance(a.reply)
  BY <1>1, <1>5 DEF DueInv, CallIsDue
<1>7. Disturbed' = Disturbed \ {m}
  <2>1. /\ IdleCall \in Calls /\ IdleCall.exception = NoException
        /\ IdleCall.reply = Nothing
    BY DEF IdleCall, Calls, Stages, Periods, Exceptions
  <2>2. ~Lost(IdleCall)
    BY <2>1, NothingIsNoReply DEF Lost, NoException, IOException
  <2>3. /\ call'[t] = IdleCall
        /\ \A u \in Threads : u # t => call'[u] = call[u]
    BY <1>1, <2>1, ContinueCall DEF IInv
  <2>4. Disturbed' = {call'[u].message : u \in {v \in Threads : Lost(call'[v])}}
    BY DEF Disturbed, Lost
  <2> QED
    BY <1>4, <2>2, <2>3, <2>4, DisturbedCalls
<1>8. a \in answers' /\ a.message = m
  BY <1>1
<1> HIDE DEF a
<1> QED
  BY <1>1, <1>3, <1>6, <1>7, <1>8 DEF Promise!Answer

\* The service itself never throws what the inspector throws, so it neither loses
\* an answer nor has one lost.
LEMMA ServiceLosesNothing ==
    ASSUME IInv, DueInv, NEW t \in Threads,
           ScopeFails(t) \/ GetSecurityTokenHandler(t) \/ Issue(t)
    PROVE  UNCHANGED Disturbed
<1> DEFINE m == call[t].message
           Failing(e) == [call[t] EXCEPT !.stage = "failed", !.exception = e]
<1>1. /\ call[t] \in Calls /\ m.rst \in Rsts /\ now \in Nat
      /\ m.certificate \in Certificates
      /\ call[t].stage \in {"dispatched", "scoped", "prepared"}
      /\ call[t].reply = Nothing
  BY CallType DEF ScopeFails, GetSecurityTokenHandler, Issue, DueInv, CallIsDue, Answering,
                  IInv, TypeOK
<1>2. ~Lost(call[t])
  BY <1>1, LostCalls DEF Answering
<1>3. ASSUME NEW e \in Exceptions, e # IOException, Fail(t, e)
      PROVE  UNCHANGED Disturbed
  <2>1. Failing(e) \in Calls /\ ~Lost(Failing(e))
    BY <1>1, <1>3, NothingIsNoReply DEF Calls, Stages, Lost
  <2>2. Continue(t, Failing(e))
    BY <1>3 DEF Fail
  <2> HIDE DEF Failing
  <2> QED
    BY <1>2, <2>1, <2>2, SameDisturbed
<1>4. CASE ScopeFails(t)
  <2>1. /\ ScopeException(m.rst) # IOException
        /\ FaultException("InvalidRequest") # IOException
        /\ FaultException("InvalidRequest") \in Exceptions
    BY DEF ScopeException, FaultException, OtherException, NoException, IOException,
           Exceptions, FaultCodes
  <2>2. ScopeException(m.rst) \in Exceptions
    BY <1>1, ExceptionTypes
  <2> QED
    BY <1>3, <1>4, <2>1, <2>2 DEF ScopeFails
<1>5. CASE GetSecurityTokenHandler(t)
  <2> DEFINE period == GetTokenLifetime(m.rst.lifetime, now)
             exception == LifetimeException(period, now)
             c == [call[t] EXCEPT !.stage = "prepared", !.period = period,
                                  !.handler = clientRequest[t]]
  <2>1. IF exception = NoException THEN Continue(t, c) ELSE Fail(t, exception)
    BY <1>5 DEF GetSecurityTokenHandler, Instance
  <2>2. m.rst.lifetime \in Lifetimes
    BY <1>1 DEF Rsts
  <2>3. period \in Periods /\ exception \in Exceptions
    BY <1>1, <2>2, LifetimeType
  <2>4. exception # IOException
    BY DEF LifetimeException, FaultException, NoException, IOException
  <2> HIDE DEF period, exception
  <2>5. c \in Calls /\ ~Lost(c)
    BY <1>1, <1>2, <2>3, CallType DEF Calls, Stages, Lost
  <2> HIDE DEF c
  <2> QED
    BY <1>2, <1>3, <2>1, <2>3, <2>4, <2>5, SameDisturbed
<1>6. CASE Issue(t)
  <2> DEFINE principal == Principal(m.certificate)
             claims == ClaimsException(principal, m.rst)
             subject == SubjectException(principal, call[t].handler)
             exception == IF claims # NoException THEN claims ELSE subject
             token == CreateToken(principal, m.rst, call[t].handler, call[t].period, now)
             c == [call[t] EXCEPT !.stage = "replying", !.reply = token]
  <2>1. call[t].stage = "prepared" /\ call[t].handler = WithSecondaryParameters(m.rst)
    BY <1>6, CallType DEF Issue, CallFits
  <2>2. call[t].handler \in Rsts /\ call[t].handler # Nothing /\ call[t].period \in Periods
    BY <1>1, <2>1, SecondaryParametersType, StsHostAssumption DEF Calls
  <2>3. IF exception = NoException THEN Reply(t, "replying", token) ELSE Fail(t, exception)
    BY <1>6, <2>2 DEF Issue
  <2>4. claims \in Exceptions /\ subject \in Exceptions
    BY <1>1, <2>2, ExceptionTypes
  <2>5. claims # IOException /\ subject # IOException
    BY DEF ClaimsException, SubjectException, FaultException, OtherException, NoException,
           IOException
  <2>6. subject = NoException => token \in Tokens
    BY <1>1, <2>2, CreateTokenType
  <2>7. CASE exception # NoException
    BY <1>3, <2>3, <2>4, <2>5, <2>7
  <2>8. CASE exception = NoException
    <3>1. token \in Tokens /\ Continue(t, c)
      BY <2>3, <2>6, <2>8 DEF Reply
    <3> HIDE DEF token
    <3>2. token \in Replies /\ token # FaultOfLastResort
      BY <3>1, ServiceReplies
    <3>3. c \in Calls /\ ~Lost(c)
      BY <1>1, <1>2, <3>2 DEF Calls, Stages, Lost
    <3> HIDE DEF c
    <3> QED
      BY <1>2, <3>1, <3>3, SameDisturbed
  <2> QED
    BY <2>7, <2>8
<1> QED
  BY <1>4, <1>5, <1>6

\* Writing a log, the checks of the service and its error handler decide about
\* the answer, and nobody has seen it yet.
LEMMA QuietWork ==
    ASSUME IInv, DueInv, NEW t \in Threads, Work(t),
           ~RequestLogThrows(t), ~ReplyLogThrows(t), ~SendReply(t)
    PROVE  UNCHANGED Promise!vars
<1>1. call[t] \in Calls /\ CallIsDue(t) /\ UNCHANGED <<seen, answers, now>>
  BY CallType DEF DueInv, Work, OpenRequestLog, CloseRequestLog, ScopeFails, GetScope,
     GetSecurityTokenHandler, Issue, HandleError, OpenReplyLog, CloseReplyLog
<1>2. CASE OpenRequestLog(t) \/ CloseRequestLog(t) \/ GetScope(t)
              \/ OpenReplyLog(t) \/ CloseReplyLog(t)
  <2>1. PICK stage \in Stages : Continue(t, [call[t] EXCEPT !.stage = stage])
    BY <1>2 DEF OpenRequestLog, CloseRequestLog, GetScope, OpenReplyLog, CloseReplyLog,
                Advance, Stages
  <2> DEFINE c == [call[t] EXCEPT !.stage = stage]
  <2>2. c \in Calls /\ c.message = call[t].message /\ (Lost(c) <=> Lost(call[t]))
    BY <1>1 DEF Calls, Lost
  <2>3. Continue(t, c)
    BY <2>1
  <2> HIDE DEF c
  <2>4. Disturbed' = Disturbed
    BY <2>2, <2>3, SameDisturbed
  <2> QED
    BY <1>1, <2>4 DEF Promise!vars
<1>3. CASE HandleError(t)
  <2> DEFINE reply == ProvideFault(call[t].exception)
             c == [call[t] EXCEPT !.stage = "replying", !.reply = reply]
  <2>1. call[t].reply = Nothing /\ Continue(t, c)
    BY <1>1, <1>3 DEF HandleError, Reply, CallIsDue, Answering
  <2>2. reply \in Faults
    BY <1>1, ProvideFaultType DEF Calls
  <2>3. reply \in Replies /\ reply # FaultOfLastResort
    BY <2>2, ServiceReplies
  <2>4. c \in Calls /\ c.message = call[t].message /\ (Lost(c) <=> Lost(call[t]))
    BY <1>1, <2>1, <2>3, NothingIsNoReply DEF Calls, Stages, Lost
  <2> HIDE DEF c
  <2>5. Disturbed' = Disturbed
    BY <2>1, <2>4, SameDisturbed
  <2> QED
    BY <1>1, <2>5 DEF Promise!vars
<1>4. CASE ScopeFails(t) \/ GetSecurityTokenHandler(t) \/ Issue(t)
  BY <1>1, <1>4, ServiceLosesNothing DEF Promise!vars
<1> QED
  BY <1>1, <1>2, <1>3, <1>4 DEF Work

LEMMA PromiseNext == IInv /\ DueInv /\ [Next]_vars => [Promise!Next]_Promise!vars
<1> SUFFICES ASSUME IInv, DueInv, [Next]_vars
             PROVE  Promise!Next \/ UNCHANGED Promise!vars
  OBVIOUS
<1>1. CASE \E t \in Threads, m \in Messages : Authenticate(t, m)
  BY <1>1, AuthenticateAccepts DEF Promise!Next
<1>2. CASE \E t \in Threads : Work(t)
  <2>1. PICK t \in Threads : Work(t)
    BY <1>2
  <2>2. CASE RequestLogThrows(t) \/ ReplyLogThrows(t)
    BY <2>2, LogThrowsDisturbs DEF Promise!Next
  <2>3. CASE SendReply(t)
    <3> DEFINE m == call[t].message
    <3>1. m \in Messages /\ Promise!Answer(m)
      BY <2>3, SendReplyAnswers
    <3> HIDE DEF m
    <3> QED
      BY <3>1 DEF Promise!Next
  <2> QED
    BY <2>1, <2>2, <2>3, QuietWork
<1>3. CASE (\E m \in Messages : RefuseMessage(m)) \/ Tick \/ UNCHANGED vars
  <2>1. UNCHANGED <<seen, call, answers>> /\ now' \in {now, now + 1}
    BY <1>3 DEF RefuseMessage, Tick, vars
  <2>2. UNCHANGED Disturbed
    BY <2>1 DEF Disturbed
  <2> QED
    BY <2>1, <2>2 DEF Promise!Next, Promise!Tick, Promise!vars
<1> QED
  BY <1>1, <1>2, <1>3 DEF Next

\* The host implements TokenIssuing whatever its threads do: every message is
\* served at most once, and its answer is the one it calls for unless another
\* message in flight, or the disk, took it away.
THEOREM HostKeepsThePromise == Spec => ImplementsTokenIssuing
<1>1. Promise!Spec => ImplementsTokenIssuing
  BY DEF ImplementsTokenIssuing
<1>2. Spec => [](IInv /\ DueInv)
  BY Invariance, InitDue, NextDue, PTL DEF Spec
<1> QED
  BY <1>1, <1>2, PromiseInit, PromiseNext, PTL DEF Spec, Promise!Spec

-----------------------------------------------------------------------------
(* A host with one thread, on a disk that does not fail: one request at a     *)
(* time, whatever the clients send and however often.                         *)

Alone == ~DiskMayFail /\ \E t : Threads = {t}

\* Nobody has a log file open that the only thread wants to open.
LEMMA NothingThrowsAlone ==
    ASSUME IInv, Alone, NEW t \in Threads
    PROVE  ~RequestLogThrows(t) /\ ~ReplyLogThrows(t)
<1> SUFFICES ASSUME RequestLogThrows(t) \/ ReplyLogThrows(t) PROVE FALSE
  OBVIOUS
<1>1. PICK f \in {ReceivedRequest, SentResponse} :
         writer[f] # NoThread /\ call[t].stage \in {"received", "replying"}
  BY DEF RequestLogThrows, ReplyLogThrows, LogThrows, Alone
<1>2. writer[f] = t
  <2>1. writer[f] \in Threads \cup {NoThread}
    BY StsHostAssumption DEF IInv, TypeOK, LogTypeOK
  <2>2. Threads = {t}
    BY DEF Alone
  <2> QED
    BY <1>1, <2>1, <2>2
<1>3. call[t].stage \in {"loggingRequest", "loggingReply"}
  BY <1>2 DEF IInv, LogOwnership
<1> QED
  BY <1>1, <1>3

\* No answer was lost.
UndisturbedInv == Alone => Disturbed = {} /\ RepliesAreDue

LEMMA InitUndisturbed == Init => UndisturbedInv
<1> SUFFICES ASSUME Init PROVE Disturbed = {} /\ RepliesAreDue
  BY DEF UndisturbedInv
<1>1. Promise!Init
  BY PromiseInit
<1> QED
  BY <1>1 DEF Promise!Init, RepliesAreDue

LEMMA NextUndisturbed == IInv /\ DueInv /\ UndisturbedInv /\ [Next]_vars => UndisturbedInv'
<1> SUFFICES ASSUME IInv, DueInv, Alone, Disturbed = {}, RepliesAreDue, [Next]_vars
             PROVE  Disturbed' = {} /\ RepliesAreDue'
  BY DEF UndisturbedInv, Alone
<1>1. ASSUME UNCHANGED <<Disturbed, answers>>, now' \in {now, now + 1}
      PROVE  Disturbed' = {} /\ RepliesAreDue'
  <2>1. 0 .. now \subseteq 0 .. now'
    BY <1>1 DEF IInv, TypeOK
  <2>2. \A m, reply : Promise!ReplyIsDue(m, reply, now) => Promise!ReplyIsDue(m, reply, now')
    BY <2>1, DueStays
  <2> QED
    BY <1>1, <2>2 DEF RepliesAreDue
<1>2. CASE \E t \in Threads, m \in Messages : Authenticate(t, m)
  BY <1>1, <1>2, AuthenticateAccepts DEF Promise!Accept
<1>3. CASE \E t \in Threads : Work(t)
  <2>1. PICK t \in Threads : Work(t)
    BY <1>3
  <2>2. ~RequestLogThrows(t) /\ ~ReplyLogThrows(t)
    BY NothingThrowsAlone
  <2>3. CASE SendReply(t)
    <3> DEFINE m == call[t].message
    <3>1. Promise!Answer(m)
      BY <2>3, SendReplyAnswers
    <3> HIDE DEF m
    <3>2. PICK a : /\ answers' = answers \cup {a}
                   /\ a.message = m /\ Promise!ReplyIsDue(m, a.reply, now)
      BY <3>1 DEF Promise!Answer
    <3>3. Disturbed' = {} /\ UNCHANGED now
      BY <3>1 DEF Promise!Answer
    <3> QED
      BY <3>2, <3>3 DEF RepliesAreDue
  <2>4. CASE ~SendReply(t)
    BY <1>1, <2>1, <2>2, <2>4, QuietWork DEF Promise!vars
  <2> QED
    BY <2>3, <2>4
<1>4. CASE (\E m \in Messages : RefuseMessage(m)) \/ Tick \/ UNCHANGED vars
  <2>1. UNCHANGED <<call, answers>> /\ now' \in {now, now + 1}
    BY <1>4 DEF RefuseMessage, Tick, vars
  <2> QED
    BY <1>1, <2>1 DEF Disturbed
<1> QED
  BY <1>2, <1>3, <1>4 DEF Next

\* How far the log files follow the only call: the request is in its file from
\* the dispatch on, the reply from the moment it is ready to be sent.
LogsFollow(t) ==
    LET c == call[t]
    IN IF EnableSoapMessageLog
       THEN /\ c.stage \in {"idle", "received"} =>
                  logged[ReceivedRequest] = logged[SentResponse]
            /\ c.stage \notin {"idle", "received", "loggingRequest"} =>
                  logged[ReceivedRequest] = c.message
            /\ c.stage = "sending" => logged[SentResponse] = c.message
       ELSE /\ c.stage \notin {"received", "loggingRequest", "loggingReply"}
            /\ logged[ReceivedRequest] = logged[SentResponse]

PairingInv == Alone => \A t \in Threads : LogsFollow(t)

LEMMA InitPairing == Init => PairingInv
<1> SUFFICES ASSUME Init, NEW t \in Threads PROVE LogsFollow(t)
  BY DEF PairingInv
<1>1. call[t].stage = "idle" /\ logged[ReceivedRequest] = logged[SentResponse]
  BY StsHostAssumption DEF Init, LogInit, IdleCall
<1> QED
  BY <1>1 DEF LogsFollow

\* The service and its error handler keep away from the log files and keep the
\* message they serve.
LEMMA ServiceKeepsLogs ==
    ASSUME IInv, NEW t \in Threads, LogsFollow(t),
           ScopeFails(t) \/ GetScope(t) \/ GetSecurityTokenHandler(t) \/ Issue(t)
              \/ HandleError(t)
    PROVE  LogsFollow(t)'
<1>1. /\ UNCHANGED logged
      /\ call[t] \in Calls
      /\ call[t].stage \in {"dispatched", "scoped", "prepared", "failed"}
  BY CallType DEF ScopeFails, GetScope, GetSecurityTokenHandler, Issue, HandleError
<1>2. /\ call'[t].stage \in {"scoped", "prepared", "failed", "replying"}
      /\ call'[t].message = call[t].message
  <2>1. call \in [Threads -> Calls]
    BY DEF IInv, TypeOK
  <2>2. ASSUME NEW e, Fail(t, e)
        PROVE  call'[t].stage = "failed" /\ call'[t].message = call[t].message
    BY <1>1, <2>1, <2>2 DEF Fail, Continue, Calls
  <2>3. ASSUME NEW reply, Reply(t, "replying", reply)
        PROVE  call'[t].stage = "replying" /\ call'[t].message = call[t].message
    BY <1>1, <2>1, <2>3 DEF Reply, Continue, Calls
  <2>4. CASE ScopeFails(t)
    BY <2>2, <2>4 DEF ScopeFails
  <2>5. CASE GetScope(t)
    BY <1>1, <2>1, <2>5 DEF GetScope, Advance, Continue, Calls
  <2>6. CASE GetSecurityTokenHandler(t)
    <3>1. CASE \E e : Fail(t, e)
      BY <2>2, <3>1
    <3>2. CASE \E period : Continue(t, [call[t] EXCEPT !.stage = "prepared",
                                 !.period = period, !.handler = clientRequest[Instance(t)]])
      BY <1>1, <2>1, <3>2 DEF Continue, Calls
    <3> QED
      BY <2>6, <3>1, <3>2 DEF GetSecurityTokenHandler
  <2>7. CASE Issue(t)
    BY <2>2, <2>3, <2>7 DEF Issue
  <2>8. CASE HandleError(t)
    BY <2>3, <2>8 DEF HandleError
  <2> QED
    BY <2>4, <2>5, <2>6, <2>7, <2>8
<1> QED
  BY <1>1, <1>2 DEF LogsFollow

LEMMA NextPairing == IInv /\ PairingInv /\ [Next]_vars => PairingInv'
<1> SUFFICES ASSUME IInv, PairingInv, Alone, [Next]_vars, NEW t \in Threads
             PROVE  LogsFollow(t)'
  BY DEF PairingInv, Alone
<1>1. /\ LogsFollow(t) /\ Threads = {t}
      /\ call[t] \in Calls /\ call \in [Threads -> Calls]
      /\ logged \in [{ReceivedRequest, SentResponse} -> Messages \cup {Nothing}]
  BY CallType, StsHostAssumption DEF PairingInv, Alone, IInv, TypeOK, LogTypeOK
<1>2. CASE \E m \in Messages : Authenticate(t, m)
  <2>1. /\ call[t].stage = "idle" /\ UNCHANGED logged
        /\ call'[t].stage = IF EnableSoapMessageLog THEN "received" ELSE "dispatched"
    BY <1>1, <1>2 DEF Authenticate, Continue, Calls
  <2> QED
    BY <1>1, <2>1 DEF LogsFollow
<1>3. CASE OpenRequestLog(t)
  <2>1. call[t].stage = "received" /\ call'[t].stage = "loggingRequest"
    BY <1>1, <1>3 DEF OpenRequestLog, Advance, Continue, Calls
  <2> QED
    BY <1>1, <2>1 DEF LogsFollow
<1>4. CASE CloseRequestLog(t)
  <2>1. /\ call[t].stage = "loggingRequest" /\ call'[t].stage = "dispatched"
        /\ call'[t].message = call[t].message
        /\ logged'[ReceivedRequest] = call[t].message
    BY <1>1, <1>4 DEF CloseRequestLog, CloseLog, Advance, Continue, Calls
  <2> QED
    BY <1>1, <2>1 DEF LogsFollow
<1>5. CASE ScopeFails(t) \/ GetScope(t) \/ GetSecurityTokenHandler(t) \/ Issue(t)
              \/ HandleError(t)
  BY <1>1, <1>5, ServiceKeepsLogs
<1>6. CASE OpenReplyLog(t)
  <2>1. /\ call[t].stage = "replying" /\ EnableSoapMessageLog
        /\ call'[t].stage = "loggingReply"
        /\ call'[t].message = call[t].message
    BY <1>1, <1>6 DEF OpenReplyLog, Advance, Continue, Calls
  <2>2. logged'[ReceivedRequest] = logged[ReceivedRequest]
    BY <1>1, <1>6 DEF OpenReplyLog, OpenLog, ReceivedRequest, SentResponse
  <2> QED
    BY <1>1, <2>1, <2>2 DEF LogsFollow
<1>7. CASE CloseReplyLog(t)
  <2>1. /\ call[t].stage = "loggingReply"
        /\ call'[t].stage = "sending"
        /\ call'[t].message = call[t].message
    BY <1>1, <1>7 DEF CloseReplyLog, Advance, Continue, Calls
  <2>2. /\ logged'[ReceivedRequest] = logged[ReceivedRequest]
        /\ logged'[SentResponse] = call[t].message
    BY <1>1, <1>7 DEF CloseReplyLog, CloseLog, ReceivedRequest, SentResponse
  <2> QED
    BY <1>1, <2>1, <2>2 DEF LogsFollow
<1>8. CASE SendReply(t)
  <2>1. /\ call[t].stage = IF EnableSoapMessageLog THEN "sending" ELSE "replying"
        /\ call'[t].stage = "idle" /\ UNCHANGED logged
    BY <1>1, <1>8 DEF SendReply, Continue, IdleCall
  <2> QED
    BY <1>1, <2>1 DEF LogsFollow
<1>9. CASE UNCHANGED <<call, logged>>
  BY <1>1, <1>9 DEF LogsFollow
<1>10. (\E m \in Messages : RefuseMessage(m)) \/ Tick \/ UNCHANGED vars
         => UNCHANGED <<call, logged>>
  BY DEF RefuseMessage, Tick, vars
<1>11. ~RequestLogThrows(t) /\ ~ReplyLogThrows(t)
  BY NothingThrowsAlone
<1> QED
  BY <1>1, <1>2, <1>3, <1>4, <1>5, <1>6, <1>7, <1>8, <1>9, <1>10, <1>11 DEF Next, Work

\* One request at a time gets the reply its message calls for, the fault of the
\* first check that fails or a token about its own request: only another thread
\* or the disk can make the inspector throw the reply away.
THEOREM LoneRequestsGetTheirDue == Spec => [](Alone => RepliesAreDue)
<1>1. UndisturbedInv => (Alone => RepliesAreDue)
  BY DEF UndisturbedInv
<1> QED
  BY <1>1, Invariance, InitDue, NextDue, InitUndisturbed, NextUndisturbed, PTL DEF Spec

\* One request at a time leaves the same exchange in both log files, faults and
\* malformed requests included.
THEOREM LoneRequestsPairTheLogs == Spec => [](Alone => LogsPairWhenQuiet)
<1>1. IInv /\ PairingInv => (Alone => LogsPairWhenQuiet)
  <2> SUFFICES ASSUME IInv, PairingInv, Alone, \A t \in Threads : ~Serving(t)
               PROVE  logged[ReceivedRequest] = logged[SentResponse]
    BY DEF LogsPairWhenQuiet
  <2>1. PICK t \in Threads : LogsFollow(t) /\ CallFits(t)
    BY DEF PairingInv, Alone, IInv
  <2>2. call[t].stage = "idle"
    BY <2>1 DEF CallFits, Serving
  <2> QED
    BY <2>1, <2>2 DEF LogsFollow
<1> QED
  BY <1>1, Invariance, InitPairing, NextPairing, PTL DEF Spec
=============================================================================
