---------------------------- MODULE StsHostProofs ----------------------------
(***************************************************************************)
(* Safety of the token service's host for every number of threads, every    *)
(* set of messages and every setting: its types, its log files, serving a   *)
(* message at most once, and tokens that belong to their request.           *)
(***************************************************************************)
EXTENDS StsHostProperties, StsTokenProofs

-----------------------------------------------------------------------------
(* The inductive invariant. *)

\* What a token must share with the message it was issued for.
TokenFits(m, token) ==
    /\ token.recipient = m.rst.appliesTo
    /\ token.audience = token.recipient
    /\ token.subject = SubjectName(Principal(m.certificate), m.rst)
    /\ token.confirmedBy = "none" <=> m.rst.onBehalfOf = NoOnBehalfOf
    /\ token.confirmedBy \in {"none", GetSubjectNameId(m.certificate)}
    /\ token.conditions.notOnOrAfter <= token.confirmationExpires

ReplyFits(m, reply) ==
    /\ reply \in Replies
    /\ reply.kind = "token" => TokenFits(m, reply)

\* The end of a lifetime computed at some earlier time.
PeriodFits(m, period) ==
    IF m.rst.lifetime.expires = Unset
    THEN period.notOnOrAfter <= now + MaxClockSkew + DefaultTokenLifetime
    ELSE period.notOnOrAfter = m.rst.lifetime.expires

\* What each stage of a call knows about the message it serves.
CallFits(t) ==
    /\ call[t].stage = "idle" <=> call[t].message = Nothing
    /\ call[t].stage = "scoped" =>
          clientRequest[t] = WithSecondaryParameters(call[t].message.rst)
    /\ call[t].stage = "prepared" =>
          /\ call[t].handler = WithSecondaryParameters(call[t].message.rst)
          /\ PeriodFits(call[t].message, call[t].period)
    /\ call[t].stage \in {"replying", "loggingReply", "sending"} =>
          ReplyFits(call[t].message, call[t].reply)

\* Whatever is served or answered went through the replay detection.
Remembered ==
    /\ \A t \in Threads : Serving(t) => call[t].message \in seen
    /\ \A a \in answers : a.message \in seen

AnswersFit == \A a \in answers : ReplyFits(a.message, a.reply)

IInv ==
    /\ TypeOK
    /\ LogOwnership
    /\ \A t \in Threads : CallFits(t)
    /\ Remembered
    /\ AnswersFit
    /\ ServedAtMostOnce

-----------------------------------------------------------------------------
(* The invariant holds initially. *)

LEMMA InitInvariant == Init => IInv
<1> SUFFICES ASSUME Init PROVE IInv
  OBVIOUS
<1>1. IdleCall \in Calls /\ IdleCall.message = Nothing /\ IdleCall.stage = "idle"
  BY DEF IdleCall, Calls, Stages, Periods, Exceptions
<1>2. TypeOK
  BY <1>1 DEF Init, LogInit, TypeOK, LogTypeOK
<1>3. LogOwnership
  BY <1>1, MessageLogAssumption, StsHostAssumption DEF Init, LogInit, LogOwnership
<1>4. \A t \in Threads : CallFits(t)
  BY <1>1 DEF Init, CallFits
<1>5. Remembered /\ AnswersFit /\ ServedAtMostOnce
  BY <1>1 DEF Init, Remembered, AnswersFit, ServedAtMostOnce, Serving
<1> QED
  BY <1>2, <1>3, <1>4, <1>5 DEF IInv

-----------------------------------------------------------------------------
(* Every step keeps it.  A step of a thread replaces that thread's call; what  *)
(* the invariant says of the other calls survives.                             *)

\* What replacing one call does to the function of calls.
LEMMA ContinueCall ==
    ASSUME NEW t \in Threads, NEW c \in Calls, TypeOK, Continue(t, c)
    PROVE  /\ call' \in [Threads -> Calls]
           /\ call'[t] = c
           /\ \A u \in Threads : u # t => call'[u] = call[u]
  BY DEF Continue, TypeOK

\* A thread that stays away from the log files, on either side of the step.
LEMMA SameLogs ==
    ASSUME IInv, NEW t \in Threads, NEW c \in Calls, Continue(t, c),
           UNCHANGED <<writer, logged>>,
           call[t].stage \notin {"loggingRequest", "loggingReply"},
           c.stage \notin {"loggingRequest", "loggingReply"}
    PROVE  LogTypeOK(Messages)' /\ LogOwnership'
<1>1. TypeOK /\ LogOwnership
  BY DEF IInv
<1>2. LogTypeOK(Messages)'
  BY <1>1 DEF TypeOK, LogTypeOK
<1>3. LogOwnership'
  BY <1>1, ContinueCall DEF LogOwnership
<1> QED
  BY <1>2, <1>3

\* A thread that moves on with the message it has, with nothing new remembered
\* or answered, has to care about its own call and the log files only.
LEMMA CallStep ==
    ASSUME IInv, NEW t \in Threads, NEW c \in Calls, Continue(t, c),
           c.message = call[t].message,
           LogTypeOK(Messages)', LogOwnership',
           clientRequest' \in [Threads -> Rsts \cup {Nothing}],
           \A u \in Threads : u # t => clientRequest'[u] = clientRequest[u],
           UNCHANGED <<seen, refused, answers, now>>,
           CallFits(t)'
    PROVE  IInv'
<1>1. TypeOK
  BY DEF IInv
<1>2. /\ call' \in [Threads -> Calls]
      /\ call'[t] = c
      /\ \A u \in Threads : u # t => call'[u] = call[u]
  BY <1>1, ContinueCall
<1>3. TypeOK'
  BY <1>1, <1>2 DEF TypeOK
<1>4. \A u \in Threads : CallFits(u)'
  <2> SUFFICES ASSUME NEW u \in Threads, u # t
               PROVE  CallFits(u)'
    OBVIOUS
  <2>1. CallFits(u) /\ call'[u] = call[u] /\ clientRequest'[u] = clientRequest[u]
    BY <1>2 DEF IInv
  <2> QED
    BY <2>1 DEF CallFits, PeriodFits, ReplyFits, TokenFits
<1>5. \A u \in Threads : call'[u].message = call[u].message
  BY <1>2
<1>6. Remembered' /\ AnswersFit' /\ ServedAtMostOnce'
  BY <1>5 DEF IInv, Remembered, AnswersFit, ServedAtMostOnce, Serving, ReplyFits, TokenFits
<1> QED
  BY <1>3, <1>4, <1>6 DEF IInv

\* An accepted message is new to the channel, hence to every thread and answer.
LEMMA AuthenticateInvariant ==
    ASSUME IInv, NEW t \in Threads, NEW m \in Messages, Authenticate(t, m)
    PROVE  IInv'
<1> DEFINE c == [call[t] EXCEPT !.message = m,
                    !.stage = IF EnableSoapMessageLog THEN "received" ELSE "dispatched"]
<1>1. TypeOK /\ CallFits(t) /\ call[t] \in Calls
  BY DEF IInv, TypeOK
<1>2. /\ c \in Calls
      /\ c.message = m
      /\ c.stage \in {"received", "dispatched"}
  BY <1>1 DEF Calls, Stages
<1>3. /\ Continue(t, c) /\ call[t].stage = "idle" /\ seen' = seen \cup {m}
      /\ UNCHANGED <<writer, logged, clientRequest, refused, answers, now>>
      /\ \A s \in seen : s.id # m.id
  BY DEF Authenticate, Authentic, Replayed
<1> HIDE DEF c
<1>4. /\ call' \in [Threads -> Calls]
      /\ call'[t] = c
      /\ \A u \in Threads : u # t => call'[u] = call[u]
  BY <1>1, <1>2, <1>3, ContinueCall
<1>5. LogTypeOK(Messages)' /\ LogOwnership'
  BY <1>2, <1>3, SameLogs
<1>6. TypeOK'
  BY <1>1, <1>3, <1>4, <1>5 DEF TypeOK
<1>7. m # Nothing
  BY StsHostAssumption
<1>8. \A u \in Threads : CallFits(u)'
  <2> SUFFICES ASSUME NEW u \in Threads PROVE CallFits(u)'
    OBVIOUS
  <2>1. CASE u = t
    BY <1>2, <1>4, <1>7, <2>1 DEF CallFits
  <2>2. CASE u # t
    BY <1>3, <1>4, <2>2 DEF IInv, CallFits, PeriodFits, ReplyFits, TokenFits
  <2> QED
    BY <2>1, <2>2
<1>9. Remembered' /\ AnswersFit'
  BY <1>2, <1>3, <1>4 DEF IInv, Remembered, AnswersFit, Serving, ReplyFits, TokenFits
<1>10. ServedAtMostOnce'
  <2>1. \A u \in Threads : u # t /\ Serving(u) => call[u].message.id # m.id
    BY <1>3 DEF IInv, Remembered, Serving
  <2>2. \A a \in answers : a.message.id # m.id
    BY <1>3 DEF IInv, Remembered
  <2> QED
    BY <1>2, <1>3, <1>4, <2>1, <2>2 DEF IInv, ServedAtMostOnce, Serving
<1> QED
  BY <1>5, <1>6, <1>8, <1>9, <1>10 DEF IInv

\* What every action of Work relies on.
LEMMA CallType ==
    ASSUME IInv, NEW t \in Threads
    PROVE  /\ call[t] \in Calls
           /\ clientRequest[t] \in Rsts \cup {Nothing}
           /\ call[t].stage # "idle" =>
                 /\ call[t].message \in Messages
                 /\ call[t].message.rst \in Rsts
                 /\ call[t].message.certificate \in Certificates
           /\ call[t].stage \in {"replying", "loggingReply", "sending"} =>
                 call[t].reply \in Replies
           /\ CallFits(t)
<1>1. TypeOK /\ CallFits(t)
  BY DEF IInv
<1>2. call[t] \in Calls /\ clientRequest[t] \in Rsts \cup {Nothing}
  BY <1>1 DEF TypeOK
<1>3. call[t].stage # "idle" => call[t].message \in Messages
  BY <1>1, <1>2 DEF CallFits, Calls
<1>4. \A m \in Messages : m.rst \in Rsts /\ m.certificate \in Certificates
  BY StsHostAssumption
<1> QED
  BY <1>1, <1>2, <1>3, <1>4 DEF CallFits, ReplyFits

\* A failing thread: the error paths of the inspector and of the service.
LEMMA FailInvariant ==
    ASSUME IInv, NEW t \in Threads, NEW exception \in Exceptions, Fail(t, exception),
           call[t].stage \in {"received", "dispatched", "scoped", "prepared"},
           UNCHANGED <<writer, logged, clientRequest, seen, refused, answers, now>>
    PROVE  IInv'
<1> DEFINE c == [call[t] EXCEPT !.stage = "failed", !.exception = exception]
<1>1. call[t] \in Calls /\ call[t].message \in Messages /\ call[t].message # Nothing
  BY CallType, StsHostAssumption
<1>2. c \in Calls /\ c.stage = "failed" /\ c.message = call[t].message
  BY <1>1 DEF Calls, Stages
<1>3. Continue(t, c)
  BY DEF Fail
<1> HIDE DEF c
<1>4. LogTypeOK(Messages)' /\ LogOwnership'
  BY <1>2, <1>3, SameLogs
<1>5. call'[t] = c
  BY <1>2, <1>3, ContinueCall DEF IInv
<1>6. CallFits(t)'
  BY <1>1, <1>2, <1>5 DEF CallFits
<1> QED
  BY <1>2, <1>3, <1>4, <1>6, CallStep DEF IInv, TypeOK

\* A thread that gets a reply while it holds no log file.
LEMMA ReplyInvariant ==
    ASSUME IInv, NEW t \in Threads, NEW stage \in {"replying", "sending"}, NEW reply,
           call[t].stage \in {"prepared", "failed", "replying"},
           ReplyFits(call[t].message, reply),
           Reply(t, stage, reply),
           UNCHANGED <<writer, logged, clientRequest, seen, refused, answers, now>>
    PROVE  IInv'
<1> DEFINE c == [call[t] EXCEPT !.stage = stage, !.reply = reply]
<1>1. call[t] \in Calls /\ call[t].message \in Messages /\ call[t].message # Nothing
  BY CallType, StsHostAssumption
<1>2. /\ c \in Calls
      /\ c.stage = stage
      /\ c.message = call[t].message
      /\ c.reply = reply
  BY <1>1 DEF Calls, Stages, ReplyFits
<1>3. Continue(t, c)
  BY DEF Reply
<1> HIDE DEF c
<1>4. LogTypeOK(Messages)' /\ LogOwnership'
  BY <1>2, <1>3, SameLogs
<1>5. call'[t] = c
  BY <1>2, <1>3, ContinueCall DEF IInv
<1>6. CallFits(t)'
  BY <1>1, <1>2, <1>5 DEF CallFits, ReplyFits, TokenFits
<1> QED
  BY <1>2, <1>3, <1>4, <1>6, CallStep DEF IInv, TypeOK

\* AfterReceiveRequest and BeforeSendReply: opening and closing a log file.
LEMMA OpenLogInvariant ==
    ASSUME IInv, NEW t \in Threads, OpenRequestLog(t) \/ OpenReplyLog(t)
    PROVE  IInv'
<1> DEFINE stage == IF OpenRequestLog(t) THEN "loggingRequest" ELSE "loggingReply"
           c == [call[t] EXCEPT !.stage = stage]
           file == IF OpenRequestLog(t) THEN ReceivedRequest ELSE SentResponse
<1>1. call[t] \in Calls /\ call[t].message # Nothing /\ CallFits(t) /\ TypeOK
  BY CallType, StsHostAssumption DEF IInv, OpenRequestLog, OpenReplyLog
<1>2. c \in Calls /\ c.stage = stage /\ c.message = call[t].message /\ c.reply = call[t].reply
  BY <1>1 DEF Calls, Stages
<1>3. /\ Continue(t, c)
      /\ OpenLog(t, file)
      /\ call[t].stage = IF OpenRequestLog(t) THEN "received" ELSE "replying"
      /\ UNCHANGED <<clientRequest, seen, refused, answers, now>>
  BY DEF OpenRequestLog, OpenReplyLog, Advance
<1>4. \/ file = ReceivedRequest /\ stage = "loggingRequest" /\ call[t].stage = "received"
      \/ file = SentResponse /\ stage = "loggingReply" /\ call[t].stage = "replying"
  BY <1>3
<1> HIDE DEF c, stage, file
<1>5. /\ call'[t] = c
      /\ \A u \in Threads : u # t => call'[u] = call[u]
  BY <1>1, <1>2, <1>3, ContinueCall
<1>6. LogTypeOK(Messages)'
  BY <1>1, <1>3, <1>4, StsHostAssumption DEF OpenLog, TypeOK, LogTypeOK
<1>7. LogOwnership'
  <2>1. writer[file] = NoThread /\ writer' = [writer EXCEPT ![file] = t]
    BY <1>3 DEF OpenLog
  <2>2. writer \in [{ReceivedRequest, SentResponse} -> Threads \cup {NoThread}]
    BY <1>1, StsHostAssumption DEF TypeOK, LogTypeOK
  <2>3. LogOwnership
    BY DEF IInv
  <2> QED
    BY <1>2, <1>4, <1>5, <2>1, <2>2, <2>3, MessageLogAssumption
       DEF LogOwnership, ReceivedRequest, SentResponse
<1>8. CallFits(t)'
  BY <1>1, <1>2, <1>4, <1>5 DEF CallFits, ReplyFits, TokenFits
<1> QED
  BY <1>1, <1>2, <1>3, <1>6, <1>7, <1>8, CallStep DEF TypeOK

LEMMA CloseLogInvariant ==
    ASSUME IInv, NEW t \in Threads, CloseRequestLog(t) \/ CloseReplyLog(t)
    PROVE  IInv'
<1> DEFINE stage == IF CloseRequestLog(t) THEN "dispatched" ELSE "sending"
           c == [call[t] EXCEPT !.stage = stage]
           file == IF CloseRequestLog(t) THEN ReceivedRequest ELSE SentResponse
<1>1. /\ call[t] \in Calls /\ call[t].message # Nothing /\ call[t].message \in Messages
      /\ CallFits(t) /\ TypeOK
  BY CallType, StsHostAssumption DEF IInv, CloseRequestLog, CloseReplyLog
<1>2. c \in Calls /\ c.stage = stage /\ c.message = call[t].message /\ c.reply = call[t].reply
  BY <1>1 DEF Calls, Stages
<1>3. /\ Continue(t, c)
      /\ CloseLog(t, file, call[t].message)
      /\ call[t].stage = IF CloseRequestLog(t) THEN "loggingRequest" ELSE "loggingReply"
      /\ UNCHANGED <<clientRequest, seen, refused, answers, now>>
  BY DEF CloseRequestLog, CloseReplyLog, Advance
<1>4. \/ file = ReceivedRequest /\ stage = "dispatched" /\ call[t].stage = "loggingRequest"
      \/ file = SentResponse /\ stage = "sending" /\ call[t].stage = "loggingReply"
  BY <1>3
<1> HIDE DEF c, stage, file
<1>5. /\ call'[t] = c
      /\ \A u \in Threads : u # t => call'[u] = call[u]
  BY <1>1, <1>2, <1>3, ContinueCall
<1>6. LogTypeOK(Messages)'
  BY <1>1, <1>3, <1>4, StsHostAssumption DEF CloseLog, TypeOK, LogTypeOK
<1>7. LogOwnership'
  <2>1. writer' = [writer EXCEPT ![file] = NoThread]
    BY <1>3 DEF CloseLog
  <2>2. writer \in [{ReceivedRequest, SentResponse} -> Threads \cup {NoThread}]
    BY <1>1, StsHostAssumption DEF TypeOK, LogTypeOK
  <2>3. LogOwnership
    BY DEF IInv
  <2> QED
    BY <1>2, <1>4, <1>5, <2>1, <2>2, <2>3, MessageLogAssumption
       DEF LogOwnership, ReceivedRequest, SentResponse
<1>8. CallFits(t)'
  BY <1>1, <1>2, <1>4, <1>5 DEF CallFits, ReplyFits, TokenFits
<1> QED
  BY <1>1, <1>2, <1>3, <1>6, <1>7, <1>8, CallStep DEF TypeOK

\* GetScope stores the request in the field of the thread's own service object.
LEMMA GetScopeInvariant ==
    ASSUME IInv, NEW t \in Threads, GetScope(t)
    PROVE  IInv'
<1> DEFINE c == [call[t] EXCEPT !.stage = "scoped"]
           rst == call[t].message.rst
<1>1. call[t] \in Calls /\ call[t].message # Nothing /\ rst \in Rsts /\ TypeOK
  BY CallType, StsHostAssumption DEF IInv, GetScope
<1>2. c \in Calls /\ c.stage = "scoped" /\ c.message = call[t].message
  BY <1>1 DEF Calls, Stages
<1>3. /\ Continue(t, c) /\ call[t].stage = "dispatched"
      /\ clientRequest' = [clientRequest EXCEPT ![t] = WithSecondaryParameters(rst)]
      /\ UNCHANGED <<writer, logged, seen, refused, answers, now>>
  BY DEF GetScope, Advance, Instance
<1>4. WithSecondaryParameters(rst) \in Rsts
  BY <1>1, SecondaryParametersType
<1> HIDE DEF c, rst
<1>5. LogTypeOK(Messages)' /\ LogOwnership'
  BY <1>2, <1>3, SameLogs
<1>6. call'[t] = c
  BY <1>1, <1>2, <1>3, ContinueCall
<1>7. /\ clientRequest' \in [Threads -> Rsts \cup {Nothing}]
      /\ clientRequest'[t] = WithSecondaryParameters(rst)
      /\ \A u \in Threads : u # t => clientRequest'[u] = clientRequest[u]
  BY <1>1, <1>3, <1>4 DEF TypeOK
<1>8. CallFits(t)'
  BY <1>1, <1>2, <1>6, <1>7 DEF CallFits, rst
<1> QED
  BY <1>2, <1>3, <1>5, <1>7, <1>8, CallStep

\* The handler is built with the field, which is still this thread's request.
LEMMA GetSecurityTokenHandlerInvariant ==
    ASSUME IInv, NEW t \in Threads, GetSecurityTokenHandler(t)
    PROVE  IInv'
<1> DEFINE rst == call[t].message.rst
           period == GetTokenLifetime(rst.lifetime, now)
           exception == LifetimeException(period, now)
           c == [call[t] EXCEPT !.stage = "prepared", !.period = period,
                                !.handler = clientRequest[t]]
<1>1. /\ call[t].stage = "scoped"
      /\ IF exception = NoException THEN Continue(t, c) ELSE Fail(t, exception)
      /\ UNCHANGED <<writer, logged, clientRequest, seen, refused, answers, now>>
  BY DEF GetSecurityTokenHandler, Instance
<1>2. /\ call[t] \in Calls /\ call[t].message # Nothing /\ rst \in Rsts
      /\ TypeOK /\ CallFits(t) /\ clientRequest[t] \in Rsts \cup {Nothing}
  BY <1>1, CallType, StsHostAssumption DEF IInv
<1>3. rst.lifetime \in Lifetimes /\ now \in Nat
  BY <1>2 DEF Rsts, TypeOK
<1>4. /\ period \in Periods
      /\ exception \in Exceptions
      /\ exception = NoException =>
            IF rst.lifetime.expires = Unset
            THEN period.notOnOrAfter <= now + MaxClockSkew + DefaultTokenLifetime
            ELSE period.notOnOrAfter = rst.lifetime.expires
  BY <1>3, LifetimeType
<1> HIDE DEF period, exception
<1>5. CASE exception # NoException
  BY <1>1, <1>4, <1>5, FailInvariant
<1>6. CASE exception = NoException
  <2>1. /\ c \in Calls /\ c.stage = "prepared" /\ c.message = call[t].message
        /\ c.period = period /\ c.handler = WithSecondaryParameters(rst)
    BY <1>1, <1>2, <1>4 DEF Calls, Stages, CallFits
  <2>2. Continue(t, c)
    BY <1>1, <1>6
  <2> HIDE DEF c
  <2>3. LogTypeOK(Messages)' /\ LogOwnership'
    BY <1>1, <2>1, <2>2, SameLogs
  <2>4. call'[t] = c
    BY <1>2, <2>1, <2>2, ContinueCall
  <2>5. CallFits(t)'
    BY <1>1, <1>2, <1>4, <1>6, <2>1, <2>4 DEF CallFits, PeriodFits
  <2> QED
    BY <1>1, <1>2, <2>1, <2>2, <2>3, <2>5, CallStep DEF TypeOK
<1> QED
  BY <1>5, <1>6

\* The confirmation of a token is dated at or after the request was scoped.
LEMMA CreateTokenFits ==
    ASSUME NEW m, m.rst \in Rsts, m.certificate \in Certificates,
           NEW period \in Periods, now \in Nat, PeriodFits(m, period),
           ClaimsException(Principal(m.certificate), m.rst) = NoException,
           SubjectException(Principal(m.certificate), WithSecondaryParameters(m.rst))
              = NoException
    PROVE  ReplyFits(m, CreateToken(Principal(m.certificate), m.rst,
                                    WithSecondaryParameters(m.rst), period, now))
<1> DEFINE principal == Principal(m.certificate)
           rst == WithSecondaryParameters(m.rst)
           token == CreateToken(principal, m.rst, rst, period, now)
<1>1. /\ rst \in Rsts
      /\ rst.appliesTo = m.rst.appliesTo
      /\ rst.onBehalfOf = m.rst.onBehalfOf
      /\ rst.lifetime = m.rst.lifetime
  BY SecondaryParametersType
<1>2. token \in Tokens
  BY <1>1, CreateTokenType
<1>3. m.rst.lifetime \in Lifetimes /\ period.notOnOrAfter \in Int
  BY DEF Rsts, Periods
<1>4. token.conditions.notOnOrAfter <= token.confirmationExpires
  <2>1. /\ token.conditions.notOnOrAfter = period.notOnOrAfter
        /\ token.confirmationExpires = ConfirmationExpires(m.rst.lifetime, now)
    BY <1>1 DEF CreateToken
  <2> QED
    BY <1>3, <2>1, StsTokenAssumption DEF PeriodFits, ConfirmationExpires, Unset, Lifetimes
<1>5. principal.name = GetSubjectNameId(m.certificate) /\ principal.name # "none"
  BY DEF Principal, GetSubjectNameId
<1>6. /\ token.recipient = rst.appliesTo
      /\ token.audience = m.rst.appliesTo
      /\ token.confirmedBy = IF rst.onBehalfOf # NoOnBehalfOf THEN principal.name ELSE "none"
      /\ token.subject = SubjectName(principal, m.rst)
  BY <1>1 DEF CreateToken, SubjectName
<1> HIDE DEF principal, token, rst
<1>7. TokenFits(m, token)
  BY <1>1, <1>4, <1>5, <1>6 DEF TokenFits, principal
<1> QED
  BY <1>2, <1>7 DEF ReplyFits, Replies, principal, rst, token

LEMMA IssueInvariant ==
    ASSUME IInv, NEW t \in Threads, Issue(t)
    PROVE  IInv'
<1> DEFINE m == call[t].message
           principal == Principal(m.certificate)
           rst == WithSecondaryParameters(m.rst)
           claims == ClaimsException(principal, m.rst)
           subject == SubjectException(principal, rst)
           exception == IF claims # NoException THEN claims ELSE subject
           token == CreateToken(principal, m.rst, rst, call[t].period, now)
<1>1. /\ call[t] \in Calls /\ m \in Messages /\ m.rst \in Rsts
      /\ m.certificate \in Certificates /\ now \in Nat
      /\ call[t].stage = "prepared" /\ call[t].handler = rst
      /\ PeriodFits(m, call[t].period) /\ call[t].period \in Periods
  BY CallType DEF Issue, CallFits, Calls, IInv, TypeOK
<1>2. rst # Nothing
  BY <1>1, SecondaryParametersType, StsHostAssumption
<1>3. /\ IF exception = NoException THEN Reply(t, "replying", token) ELSE Fail(t, exception)
      /\ UNCHANGED <<writer, logged, clientRequest, seen, refused, answers, now>>
  BY <1>1, <1>2 DEF Issue
<1>4. rst \in Rsts
  BY <1>1, SecondaryParametersType
<1>5. claims \in Exceptions /\ subject \in Exceptions
  BY <1>1, <1>4, ExceptionTypes
<1>6. claims = NoException /\ subject = NoException => ReplyFits(m, token)
  BY <1>1, CreateTokenFits
<1> HIDE DEF principal, rst, claims, subject, token
<1>7. CASE exception # NoException
  BY <1>1, <1>3, <1>5, <1>7, FailInvariant
<1>8. CASE exception = NoException
  BY <1>1, <1>3, <1>6, <1>8, ReplyInvariant
<1> QED
  BY <1>7, <1>8

LEMMA HandleErrorInvariant ==
    ASSUME IInv, NEW t \in Threads, HandleError(t)
    PROVE  IInv'
<1>1. call[t] \in Calls /\ call[t].exception \in Exceptions
  BY CallType DEF Calls
<1>2. ProvideFault(call[t].exception) \in Faults
  BY <1>1, ProvideFaultType
<1>3. ReplyFits(call[t].message, ProvideFault(call[t].exception))
  BY <1>2 DEF ReplyFits, Replies, Faults
<1> QED
  BY <1>3, ReplyInvariant DEF HandleError

\* The four ways a thread fails outside of Issue.
LEMMA OtherFailuresInvariant ==
    ASSUME IInv, NEW t \in Threads,
           RequestLogThrows(t) \/ ScopeFails(t) \/ ReplyLogThrows(t)
    PROVE  IInv'
<1>1. CASE RequestLogThrows(t)
  <2>1. IOException \in Exceptions
    BY DEF IOException, Exceptions
  <2> QED
    BY <1>1, <2>1, FailInvariant DEF RequestLogThrows, LogThrows, logVars
<1>2. CASE ScopeFails(t)
  <2> DEFINE m == call[t].message
             exception == IF m.wellFormed THEN ScopeException(m.rst)
                          ELSE FaultException("InvalidRequest")
  <2>1. m.rst \in Rsts
    BY <1>2, CallType DEF ScopeFails
  <2>2. ScopeException(m.rst) \in Exceptions
    BY <2>1, ExceptionTypes
  <2>3. FaultException("InvalidRequest") \in Exceptions
    BY DEF FaultException, Exceptions, FaultCodes
  <2> QED
    BY <1>2, <2>2, <2>3, FailInvariant DEF ScopeFails
<1>3. CASE ReplyLogThrows(t)
  <2>1. ReplyFits(call[t].message, FaultOfLastResort)
    BY DEF ReplyFits, Replies, FaultOfLastResort
  <2> QED
    BY <1>3, <2>1, ReplyInvariant DEF ReplyLogThrows, LogThrows, logVars
<1> QED
  BY <1>1, <1>2, <1>3

\* The answered message stays remembered and the thread forgets it, so nobody
\* can serve it again.
LEMMA SendReplyInvariant ==
    ASSUME IInv, NEW t \in Threads, SendReply(t)
    PROVE  IInv'
<1> DEFINE m == call[t].message
           a == [message |-> m, reply |-> call[t].reply]
<1>1. /\ call[t].stage \in {"replying", "sending"}
      /\ Continue(t, IdleCall)
      /\ answers' = answers \cup {a}
      /\ clientRequest' = [clientRequest EXCEPT ![t] = Nothing]
      /\ UNCHANGED <<writer, logged, seen, refused, now>>
  BY DEF SendReply, Instance
<1>2. /\ m \in Messages /\ m # Nothing /\ Serving(t) /\ call[t].reply \in Replies
      /\ CallFits(t) /\ TypeOK
  BY <1>1, CallType, StsHostAssumption DEF IInv, Serving
<1>3. IdleCall \in Calls /\ IdleCall.message = Nothing /\ IdleCall.stage = "idle"
  BY DEF IdleCall, Calls, Stages, Periods, Exceptions
<1>4. a.message = m /\ a.reply = call[t].reply /\ ReplyFits(m, a.reply)
  BY <1>1, <1>2 DEF CallFits
<1>5. a \in [message : Messages, reply : Replies]
  BY <1>2
<1> HIDE DEF a, m
<1>6. /\ call' \in [Threads -> Calls]
      /\ call'[t] = IdleCall
      /\ \A u \in Threads : u # t => call'[u] = call[u]
  BY <1>1, <1>2, <1>3, ContinueCall
<1>7. LogTypeOK(Messages)' /\ LogOwnership'
  BY <1>1, <1>3, SameLogs
<1>8. TypeOK'
  BY <1>1, <1>2, <1>5, <1>6, <1>7 DEF TypeOK
<1>9. \A u \in Threads : CallFits(u)'
  <2> SUFFICES ASSUME NEW u \in Threads PROVE CallFits(u)'
    OBVIOUS
  <2>1. CASE u = t
    BY <1>3, <1>6, <2>1 DEF CallFits
  <2>2. CASE u # t
    <3>1. CallFits(u) /\ call'[u] = call[u] /\ clientRequest'[u] = clientRequest[u] /\ now' = now
      BY <1>1, <1>2, <1>6, <2>2 DEF IInv, TypeOK
    <3> QED
      BY <3>1 DEF CallFits, PeriodFits, ReplyFits, TokenFits
  <2> QED
    BY <2>1, <2>2
<1>10. Remembered'
  BY <1>1, <1>2, <1>3, <1>4, <1>6 DEF IInv, Remembered, Serving, m
<1>11. AnswersFit'
  BY <1>1, <1>4 DEF IInv, AnswersFit, ReplyFits, TokenFits
<1>12. ServedAtMostOnce'
  <2>1. \A u \in Threads : u # t /\ Serving(u) => call[u].message.id # m.id
    BY <1>2 DEF IInv, ServedAtMostOnce, m
  <2>2. \A b \in answers : b.message.id # m.id
    BY <1>2 DEF IInv, ServedAtMostOnce, m
  <2>3. \A u \in Threads : Serving(u)' => u # t /\ Serving(u) /\ call'[u] = call[u]
    BY <1>3, <1>6 DEF Serving
  <2> QED
    BY <1>1, <1>4, <2>1, <2>2, <2>3 DEF IInv, ServedAtMostOnce
<1> QED
  BY <1>7, <1>8, <1>9, <1>10, <1>11, <1>12 DEF IInv

\* The steps no thread takes part in: a refusal by the channel, and time.
LEMMA RefuseMessageInvariant ==
    ASSUME IInv, NEW m \in Messages, RefuseMessage(m)
    PROVE  IInv'
<1>1. /\ refused' = refused \cup {m.id}
      /\ UNCHANGED <<writer, logged, call, clientRequest, seen, answers, now>>
  BY DEF RefuseMessage
<1>2. TypeOK'
  BY <1>1 DEF IInv, TypeOK, LogTypeOK
<1> QED
  BY <1>1, <1>2 DEF IInv, LogOwnership, CallFits, PeriodFits, ReplyFits, TokenFits,
                    Remembered, AnswersFit, ServedAtMostOnce, Serving

LEMMA TickInvariant ==
    ASSUME IInv, Tick
    PROVE  IInv'
<1>1. /\ now' = now + 1
      /\ UNCHANGED <<writer, logged, call, clientRequest, seen, refused, answers>>
      /\ now \in Nat
  BY DEF Tick, IInv, TypeOK
<1>2. TypeOK'
  BY <1>1 DEF IInv, TypeOK, LogTypeOK
<1>3. \A t \in Threads : CallFits(t)'
  <2> SUFFICES ASSUME NEW t \in Threads PROVE CallFits(t)'
    OBVIOUS
  <2>1. CallFits(t) /\ call[t].period \in Periods
    BY DEF IInv, TypeOK, Calls
  <2>2. PeriodFits(call[t].message, call[t].period) =>
           PeriodFits(call[t].message, call[t].period)'
    BY <1>1, <2>1, StsTokenAssumption DEF PeriodFits, Periods
  <2> QED
    BY <1>1, <2>1, <2>2 DEF CallFits, ReplyFits, TokenFits
<1> QED
  BY <1>1, <1>2, <1>3 DEF IInv, LogOwnership, ReplyFits, TokenFits,
                          Remembered, AnswersFit, ServedAtMostOnce, Serving

-----------------------------------------------------------------------------
LEMMA WorkInvariant ==
    ASSUME IInv, NEW t \in Threads, Work(t)
    PROVE  IInv'
  BY OpenLogInvariant, CloseLogInvariant, OtherFailuresInvariant, GetScopeInvariant,
     GetSecurityTokenHandlerInvariant, IssueInvariant, HandleErrorInvariant,
     SendReplyInvariant
     DEF Work

LEMMA NextInvariant == IInv /\ [Next]_vars => IInv'
<1> SUFFICES ASSUME IInv, [Next]_vars PROVE IInv'
  OBVIOUS
<1>1. CASE \E t \in Threads, m \in Messages : Authenticate(t, m)
  BY <1>1, AuthenticateInvariant
<1>2. CASE \E m \in Messages : RefuseMessage(m)
  BY <1>2, RefuseMessageInvariant
<1>3. CASE \E t \in Threads : Work(t)
  BY <1>3, WorkInvariant
<1>4. CASE Tick
  BY <1>4, TickInvariant
<1>5. CASE UNCHANGED vars
  BY <1>5 DEF vars, IInv, TypeOK, LogTypeOK, LogOwnership, CallFits, PeriodFits, ReplyFits,
              TokenFits, Remembered, AnswersFit, ServedAtMostOnce, Serving
<1> QED
  BY <1>1, <1>2, <1>3, <1>4, <1>5 DEF Next

\* The invariant of the host, for every number of threads.
THEOREM Invariance == Spec => []IInv
<1> QED
  BY InitInvariant, NextInvariant, PTL DEF Spec

\* Every state of the host is typed: in particular every reply is a token, a
\* fault with a known code, or WCF's fault of last resort.
THEOREM TypeCorrect == Spec => []TypeOK
<1>1. IInv => TypeOK
  BY DEF IInv
<1> QED
  BY <1>1, Invariance, PTL

\* No path of the host leaves a log file open or closes somebody else's.
THEOREM LogFilesAreOwned == Spec => []LogOwnership
<1>1. IInv => LogOwnership
  BY DEF IInv
<1> QED
  BY <1>1, Invariance, PTL

\* Replay detection serves a message id at most once, however often it arrives.
THEOREM MessagesAreServedOnce == Spec => []ServedAtMostOnce
<1>1. IInv => ServedAtMostOnce
  BY DEF IInv
<1> QED
  BY <1>1, Invariance, PTL

\* The two requests CreateToken works from are the same one in every token.
THEOREM TokensBelongToTheirRequest == Spec => []TokensMatchTheirRequest
<1>1. IInv => TokensMatchTheirRequest
  BY DEF IInv, AnswersFit, ReplyFits, TokenFits, TokensMatchTheirRequest
<1> QED
  BY <1>1, Invariance, PTL

\* The confirmation data of every token outlives its conditions, provided that
\* the configured lifetime of the STS is at least the default lifetime of a token
\* plus the tolerance of the lifetime checks (StsTokenAssumption).
THEOREM ConfirmationsOutliveConditions == Spec => []ConfirmationOutlivesConditions
<1>1. IInv => ConfirmationOutlivesConditions
  BY DEF IInv, AnswersFit, ReplyFits, TokenFits, ConfirmationOutlivesConditions
<1> QED
  BY <1>1, Invariance, PTL
=============================================================================
