---------------------------- MODULE EndToEndProofs ----------------------------
(***************************************************************************)
(* Safety of the composed samples for any number of threads, requests,      *)
(* pings and foreign tokens: types, execution at most once, entitlement by  *)
(* all that the service checks and by what it leaves out, and the           *)
(* implementation of module PingPromise.                                    *)
(***************************************************************************)
EXTENDS EndToEnd, StsTokenProofs

-----------------------------------------------------------------------------
(* The inductive invariant. *)

\* A log file is open exactly while the inspector of its owner writes it.
LogsOwned ==
    \A t \in Threads :
        /\ writer[ReceivedRequest] = t <=> call[t].stage = "loggingRequest"
        /\ writer[SentResponse] = t <=> call[t].stage = "loggingReply"

\* What every token of the STS has, whoever asked for it.
TokenFits(token) ==
    /\ \E request \in Requests : /\ request.certificate = token.holder
                                 /\ request.rst.appliesTo = token.content.audience
    /\ token.content.recipient = token.content.audience
    /\ token.content.conditions.notOnOrAfter <= token.content.confirmationExpires
    /\ "Privileges_intermediate" \in token.content.attributes

\* The token was made of a request, no later than the clock.
IssuedBy(token, clock) ==
    \E request \in Requests, issued \in 0 .. clock : token = TokenAt(request, issued)

\* What was true of a ping when the channel accepted it.
EntitledAt(p, clock) ==
    /\ p.token \in wallet
    /\ IssuedBy(p.token, clock)
    /\ p.signer = p.token.holder
    /\ p.token.content.audience = "service"
    /\ clock < p.token.content.conditions.notOnOrAfter + ServiceClockSkew

ReplyFits(p, reply) ==
    reply \in Promise!Disturbances \/ Promise!AnswerIsDue(p, reply)

\* What each stage of a call knows about the ping it serves.
CallFits(t) ==
    /\ call[t].stage = "idle" <=> call[t].ping = Nothing
    /\ call[t].ping # Nothing =>
          call[t].ping \in seen /\ EntitledAt(call[t].ping, call[t].accepted)
    /\ IF call[t].stage \in {"replying", "loggingReply", "sending"}
       THEN call[t].reply \in PingReplies /\ ReplyFits(call[t].ping, call[t].reply)
       ELSE call[t].reply = Nothing

WalletFits == \A token \in wallet : TokenFits(token) /\ IssuedBy(token, now)
SentFits == \A p \in sent : p.token \in wallet \cup ForeignTokens
RepliesFit == \A r \in replies : r.ping \in seen /\ EntitledAt(r.ping, r.accepted)

\* No two of the pings in service and the pings answered have the same id.
ServedOnce ==
    /\ \A t, u \in Threads :
          t # u /\ call[t].ping # Nothing /\ call[u].ping # Nothing
             => call[t].ping.id # call[u].ping.id
    /\ \A t \in Threads, r \in replies :
          call[t].ping # Nothing => call[t].ping.id # r.ping.id
    /\ PingedAtMostOnce

IInv ==
    /\ TypeOK
    /\ LogsOwned
    /\ \A t \in Threads : CallFits(t)
    /\ WalletFits
    /\ SentFits
    /\ RepliesFit
    /\ ServedOnce

-----------------------------------------------------------------------------
(* Tokens. *)

\* A token the STS issues is typed and fits some request.
LEMMA TokenForFits ==
    ASSUME NEW request \in Requests, now \in Nat, WouldIssue(request)
    PROVE  /\ TokenFor(request) \in {token \in IssuedTokens : token.issuer = "sts"}
           /\ TokenFits(TokenFor(request)) /\ IssuedBy(TokenFor(request), now)
<1> DEFINE principal == Principal(request.certificate)
           rst == WithSecondaryParameters(request.rst)
           period == GetTokenLifetime(request.rst.lifetime, now)
           content == CreateToken(principal, request.rst, rst, period, now)
           token == TokenFor(request)
<1>1. request.certificate \in Certificates /\ request.rst \in Rsts
  BY EndToEndAssumption
<1>2. /\ rst \in Rsts
      /\ rst.appliesTo = request.rst.appliesTo
      /\ rst.lifetime = request.rst.lifetime
  BY <1>1, SecondaryParametersType
<1>3. request.rst.lifetime \in Lifetimes
  BY <1>1 DEF Rsts
<1>4. /\ LifetimeException(period, now) = NoException
      /\ SubjectException(principal, rst) = NoException
  BY DEF WouldIssue
<1>5. /\ period \in Periods
      /\ IF request.rst.lifetime.expires = Unset
         THEN period.notOnOrAfter <= now + MaxClockSkew + DefaultTokenLifetime
         ELSE period.notOnOrAfter = request.rst.lifetime.expires
  BY <1>3, <1>4, LifetimeType
<1>6. content \in Tokens
  BY <1>1, <1>2, <1>4, <1>5, CreateTokenType
<1>7. /\ content.recipient = request.rst.appliesTo
      /\ content.audience = request.rst.appliesTo
      /\ content.conditions = period
      /\ content.confirmationExpires = ConfirmationExpires(request.rst.lifetime, now)
      /\ content.attributes = GetOutputClaimsIdentity(principal, request.rst)
  BY <1>2 DEF CreateToken
<1>8. period.notOnOrAfter <= ConfirmationExpires(request.rst.lifetime, now)
  BY <1>3, <1>5, StsTokenAssumption
     DEF ConfirmationExpires, Unset, Lifetimes, Periods
<1>9. "Privileges_intermediate" \in GetOutputClaimsIdentity(principal, request.rst)
  BY DEF GetOutputClaimsIdentity
<1>10. token = [type |-> "saml2", issuer |-> "sts", holder |-> request.certificate,
                content |-> content]
  BY DEF TokenFor, TokenAt
<1> HIDE DEF principal, rst, period, content, token
<1>11. token \in {u \in IssuedTokens : u.issuer = "sts"}
  BY <1>1, <1>6, <1>10 DEF IssuedTokens
<1>12. TokenFits(token)
  BY <1>7, <1>8, <1>9, <1>10 DEF TokenFits
<1>13. IssuedBy(TokenFor(request), now)
  <2>1. now \in 0 .. now
    OBVIOUS
  <2> QED
    BY <2>1 DEF IssuedBy, TokenFor
<1> QED
  BY <1>11, <1>12, <1>13 DEF token

-----------------------------------------------------------------------------
(* The invariant holds initially. *)

LEMMA InitInvariant == Init => IInv
<1> SUFFICES ASSUME Init PROVE IInv
  OBVIOUS
<1>1. IdleCall \in Calls /\ IdleCall.ping = Nothing /\ IdleCall.stage = "idle"
      /\ IdleCall.reply = Nothing
  BY DEF IdleCall, Calls
<1>2. TypeOK
  BY <1>1 DEF Init, ServiceInit, LogInit, TypeOK, ServiceTypeOK, LogTypeOK
<1>3. LogsOwned
  BY <1>1, MessageLogAssumption, PingServiceAssumption DEF Init, ServiceInit, LogInit, LogsOwned
<1>4. \A t \in Threads : CallFits(t)
  BY <1>1 DEF Init, ServiceInit, CallFits
<1>5. WalletFits /\ SentFits /\ RepliesFit /\ ServedOnce
  BY <1>1 DEF Init, ServiceInit, WalletFits, SentFits, RepliesFit, ServedOnce, PingedAtMostOnce
<1> QED
  BY <1>2, <1>3, <1>4, <1>5 DEF IInv

-----------------------------------------------------------------------------
(* Steps of a thread. *)

\* What replacing one call does to the function of calls.
LEMMA ContinueCall ==
    ASSUME NEW t \in Threads, NEW c \in Calls, TypeOK, Continue(t, c)
    PROVE  /\ call' \in [Threads -> Calls]
           /\ call'[t] = c
           /\ \A u \in Threads : u # t => call'[u] = call[u]
  BY DEF Continue, TypeOK, ServiceTypeOK

\* What every action of a busy thread relies on.
LEMMA CallType ==
    ASSUME IInv, NEW t \in Threads
    PROVE  /\ call[t] \in Calls
           /\ CallFits(t)
           /\ call[t].stage # "idle" => call[t].ping \in Pings
<1>1. TypeOK /\ CallFits(t)
  BY DEF IInv
<1>2. call[t] \in Calls
  BY <1>1 DEF TypeOK, ServiceTypeOK
<1> QED
  BY <1>1, <1>2 DEF CallFits, Calls

\* A thread that moves on with the ping it has, with nothing new seen, answered,
\* issued or sent, has to care about its own call and the log files only.
LEMMA CallStep ==
    ASSUME IInv, NEW t \in Threads, NEW c \in Calls, Continue(t, c),
           c.ping = call[t].ping,
           LogTypeOK(Pings)', LogsOwned',
           UNCHANGED <<seen, replies, now, wallet, sent>>,
           CallFits(t)'
    PROVE  IInv'
<1>1. TypeOK
  BY DEF IInv
<1>2. /\ call' \in [Threads -> Calls]
      /\ call'[t] = c
      /\ \A u \in Threads : u # t => call'[u] = call[u]
  BY <1>1, ContinueCall
<1>3. TypeOK'
  BY <1>1, <1>2 DEF TypeOK, ServiceTypeOK
<1>4. \A u \in Threads : CallFits(u)'
  <2> SUFFICES ASSUME NEW u \in Threads, u # t PROVE CallFits(u)'
    OBVIOUS
  <2>1. CallFits(u) /\ call'[u] = call[u]
    BY <1>2 DEF IInv
  <2> QED
    BY <2>1 DEF CallFits, EntitledAt
<1>5. \A u \in Threads : call'[u].ping = call[u].ping
  BY <1>2
<1>6. WalletFits' /\ SentFits' /\ RepliesFit'
  BY DEF IInv, WalletFits, SentFits, RepliesFit, EntitledAt
<1>7. ServedOnce'
  BY <1>5 DEF IInv, ServedOnce, PingedAtMostOnce
<1> QED
  BY <1>3, <1>4, <1>6, <1>7 DEF IInv

\* A thread that stays away from the log files, on either side of the step.
LEMMA SameLogs ==
    ASSUME IInv, NEW t \in Threads, NEW c \in Calls, Continue(t, c),
           UNCHANGED <<writer, logged>>,
           call[t].stage \notin {"loggingRequest", "loggingReply"},
           c.stage \notin {"loggingRequest", "loggingReply"}
    PROVE  LogTypeOK(Pings)' /\ LogsOwned'
<1>1. TypeOK /\ LogsOwned
  BY DEF IInv
<1>2. LogTypeOK(Pings)'
  BY <1>1 DEF TypeOK, ServiceTypeOK, LogTypeOK
<1>3. LogsOwned'
  BY <1>1, ContinueCall DEF LogsOwned
<1> QED
  BY <1>2, <1>3

\* An accepted ping is new to the channel, hence to every thread and reply, and
\* its token, being the STS's, is one the STS has issued.
LEMMA DeliverInvariant ==
    ASSUME IInv, NEW t \in Threads, NEW p \in sent, Deliver(t, p)
    PROVE  IInv' /\ EntitledAt(p, now)
<1> DEFINE c == [call[t] EXCEPT !.stage = "received", !.ping = p, !.accepted = now]
<1>1. TypeOK /\ CallFits(t) /\ call[t] \in Calls /\ p \in Pings /\ now \in Nat
  BY CallType DEF IInv, TypeOK
<1>2. /\ c \in Calls /\ c.ping = p /\ c.accepted = now /\ c.stage = "received"
      /\ c.reply = call[t].reply
  BY <1>1 DEF Calls
<1>3. /\ Continue(t, c) /\ call[t].stage = "idle" /\ seen' = seen \cup {p}
      /\ UNCHANGED <<writer, logged, replies, now, wallet, sent>>
      /\ Authentic(p)
  BY DEF Deliver, Authenticate
<1> HIDE DEF c
<1>4. /\ call' \in [Threads -> Calls]
      /\ call'[t] = c
      /\ \A u \in Threads : u # t => call'[u] = call[u]
  BY <1>1, <1>2, <1>3, ContinueCall
<1>5. LogTypeOK(Pings)' /\ LogsOwned'
  BY <1>2, <1>3, SameLogs
<1>6. TypeOK'
  BY <1>1, <1>3, <1>4, <1>5 DEF TypeOK, ServiceTypeOK
<1>7. p # Nothing
  BY <1>1, PingServiceAssumption
<1>8. EntitledAt(p, now)
  <2>1. p.token \in wallet
    BY <1>3, EndToEndAssumption DEF IInv, SentFits, Authentic, ValidateToken
  <2>2. IssuedBy(p.token, now)
    BY <2>1 DEF IInv, WalletFits
  <2> QED
    BY <1>3, <2>1, <2>2 DEF EntitledAt, Authentic, HoldsKey, ValidConditions, AllowedAudience
<1>9. \A u \in Threads : CallFits(u)'
  <2> SUFFICES ASSUME NEW u \in Threads PROVE CallFits(u)'
    OBVIOUS
  <2>1. CASE u = t
    BY <1>1, <1>2, <1>3, <1>4, <1>7, <1>8, <2>1 DEF CallFits, EntitledAt
  <2>2. CASE u # t
    BY <1>3, <1>4, <2>2 DEF IInv, CallFits, EntitledAt
  <2> QED
    BY <2>1, <2>2
<1>10. WalletFits' /\ SentFits' /\ RepliesFit'
  BY <1>3 DEF IInv, WalletFits, SentFits, RepliesFit, EntitledAt
<1>11. ServedOnce'
  <2>1. \A s \in seen : s.id # p.id
    BY <1>3 DEF Authentic, Replayed
  <2>2. \A u \in Threads : u # t /\ call[u].ping # Nothing => call[u].ping.id # p.id
    BY <2>1 DEF IInv, CallFits
  <2>3. \A r \in replies : r.ping.id # p.id
    BY <2>1 DEF IInv, RepliesFit
  <2> QED
    BY <1>2, <1>3, <1>4, <2>2, <2>3 DEF IInv, ServedOnce, PingedAtMostOnce
<1> QED
  BY <1>5, <1>6, <1>8, <1>9, <1>10, <1>11 DEF IInv

\* A thread that gets a reply while it holds no log file.
LEMMA ReplyInvariant ==
    ASSUME IInv, NEW t \in Threads, NEW stage \in {"replying", "sending"},
           NEW reply \in PingReplies,
           call[t].stage \in {"received", "dispatched", "replying"},
           ReplyFits(call[t].ping, reply),
           Reply(t, stage, reply),
           UNCHANGED <<writer, logged, seen, replies, now, wallet, sent>>
    PROVE  IInv'
<1> DEFINE c == [call[t] EXCEPT !.stage = stage, !.reply = reply]
<1>1. call[t] \in Calls /\ CallFits(t) /\ call[t].ping # Nothing
  BY CallType DEF CallFits
<1>2. /\ c \in Calls /\ c.stage = stage /\ c.ping = call[t].ping
      /\ c.accepted = call[t].accepted /\ c.reply = reply
  BY <1>1 DEF Calls
<1>3. Continue(t, c)
  BY DEF Reply
<1> HIDE DEF c
<1>4. LogTypeOK(Pings)' /\ LogsOwned'
  BY <1>2, <1>3, SameLogs
<1>5. call'[t] = c
  BY <1>2, <1>3, ContinueCall DEF IInv
<1>6. CallFits(t)'
  BY <1>1, <1>2, <1>5 DEF CallFits, EntitledAt
<1> QED
  BY <1>2, <1>3, <1>4, <1>6, CallStep

\* AfterReceiveRequest and BeforeSendReply: opening and closing a log file.
LEMMA OpenLogInvariant ==
    ASSUME IInv, NEW t \in Threads, OpenRequestLog(t) \/ OpenReplyLog(t),
           UNCHANGED <<now, wallet, sent>>
    PROVE  IInv'
<1> DEFINE stage == IF OpenRequestLog(t) THEN "loggingRequest" ELSE "loggingReply"
           c == [call[t] EXCEPT !.stage = stage]
           file == IF OpenRequestLog(t) THEN ReceivedRequest ELSE SentResponse
<1>1. call[t] \in Calls /\ CallFits(t) /\ TypeOK
  BY CallType DEF IInv
<1>2. /\ c \in Calls /\ c.stage = stage /\ c.ping = call[t].ping
      /\ c.accepted = call[t].accepted /\ c.reply = call[t].reply
  BY <1>1 DEF Calls
<1>3. /\ Continue(t, c)
      /\ OpenLog(t, file)
      /\ call[t].stage = IF OpenRequestLog(t) THEN "received" ELSE "replying"
      /\ UNCHANGED <<seen, replies>>
  BY DEF OpenRequestLog, OpenReplyLog, Advance
<1>4. \/ file = ReceivedRequest /\ stage = "loggingRequest" /\ call[t].stage = "received"
      \/ file = SentResponse /\ stage = "loggingReply" /\ call[t].stage = "replying"
  BY <1>3
<1> HIDE DEF c, stage, file
<1>5. /\ call'[t] = c
      /\ \A u \in Threads : u # t => call'[u] = call[u]
  BY <1>1, <1>2, <1>3, ContinueCall
<1>6. LogTypeOK(Pings)'
  BY <1>1, <1>3, <1>4, PingServiceAssumption
     DEF OpenLog, TypeOK, ServiceTypeOK, LogTypeOK
<1>7. LogsOwned'
  <2>1. writer[file] = NoThread /\ writer' = [writer EXCEPT ![file] = t]
    BY <1>3 DEF OpenLog
  <2>2. writer \in [{ReceivedRequest, SentResponse} -> Threads \cup {NoThread}]
    BY <1>1, PingServiceAssumption DEF TypeOK, ServiceTypeOK, LogTypeOK
  <2>3. LogsOwned
    BY DEF IInv
  <2> QED
    BY <1>2, <1>4, <1>5, <2>1, <2>2, <2>3, MessageLogAssumption
       DEF LogsOwned, ReceivedRequest, SentResponse
<1>8. CallFits(t)'
  BY <1>1, <1>2, <1>3, <1>4, <1>5 DEF CallFits, EntitledAt
<1> QED
  BY <1>2, <1>3, <1>6, <1>7, <1>8, CallStep

LEMMA CloseLogInvariant ==
    ASSUME IInv, NEW t \in Threads, CloseRequestLog(t) \/ CloseReplyLog(t),
           UNCHANGED <<now, wallet, sent>>
    PROVE  IInv'
<1> DEFINE stage == IF CloseRequestLog(t) THEN "dispatched" ELSE "sending"
           c == [call[t] EXCEPT !.stage = stage]
           file == IF CloseRequestLog(t) THEN ReceivedRequest ELSE SentResponse
<1>1. call[t] \in Calls /\ CallFits(t) /\ TypeOK
  BY CallType DEF IInv
<1>2. /\ c \in Calls /\ c.stage = stage /\ c.ping = call[t].ping
      /\ c.accepted = call[t].accepted /\ c.reply = call[t].reply
  BY <1>1 DEF Calls
<1>3. /\ Continue(t, c)
      /\ CloseLog(t, file, call[t].ping)
      /\ call[t].stage = IF CloseRequestLog(t) THEN "loggingRequest" ELSE "loggingReply"
      /\ UNCHANGED <<seen, replies>>
  BY DEF CloseRequestLog, CloseReplyLog, Advance
<1>4. \/ file = ReceivedRequest /\ stage = "dispatched" /\ call[t].stage = "loggingRequest"
      \/ file = SentResponse /\ stage = "sending" /\ call[t].stage = "loggingReply"
  BY <1>3
<1>5. call[t].ping \in Pings
  BY <1>4, CallType
<1> HIDE DEF c, stage, file
<1>6. /\ call'[t] = c
      /\ \A u \in Threads : u # t => call'[u] = call[u]
  BY <1>1, <1>2, <1>3, ContinueCall
<1>7. LogTypeOK(Pings)'
  BY <1>1, <1>3, <1>4, <1>5, PingServiceAssumption
     DEF CloseLog, TypeOK, ServiceTypeOK, LogTypeOK
<1>8. LogsOwned'
  <2>1. writer' = [writer EXCEPT ![file] = NoThread]
    BY <1>3 DEF CloseLog
  <2>2. writer \in [{ReceivedRequest, SentResponse} -> Threads \cup {NoThread}]
    BY <1>1, PingServiceAssumption DEF TypeOK, ServiceTypeOK, LogTypeOK
  <2>3. LogsOwned
    BY DEF IInv
  <2> QED
    BY <1>2, <1>4, <1>6, <2>1, <2>2, <2>3, MessageLogAssumption
       DEF LogsOwned, ReceivedRequest, SentResponse
<1>9. CallFits(t)'
  BY <1>1, <1>2, <1>3, <1>4, <1>6 DEF CallFits, EntitledAt
<1> QED
  BY <1>2, <1>3, <1>7, <1>8, <1>9, CallStep

\* What the inspector throws.
LEMMA LogThrowsInvariant ==
    ASSUME IInv, NEW t \in Threads, RequestLogThrows(t) \/ ReplyLogThrows(t),
           UNCHANGED <<now, wallet, sent>>
    PROVE  IInv'
<1>1. CASE RequestLogThrows(t)
  <2> DEFINE reply == [kind |-> "fault", code |-> "InternalServiceFault"]
  <2>1. /\ call[t].stage = "received"
        /\ Reply(t, "replying", reply)
        /\ UNCHANGED <<writer, logged, seen, replies>>
    BY <1>1 DEF RequestLogThrows, LogThrows, logVars
  <2>2. reply \in PingReplies /\ ReplyFits(call[t].ping, reply)
    BY DEF PingReplies, PingFaults, ReplyFits, Promise!Disturbances
  <2> HIDE DEF reply
  <2> QED
    BY <2>1, <2>2, ReplyInvariant
<1>2. CASE ReplyLogThrows(t)
  <2>1. /\ call[t].stage = "replying"
        /\ Reply(t, "sending", FaultOfLastResort)
        /\ UNCHANGED <<writer, logged, seen, replies>>
    BY <1>2 DEF ReplyLogThrows, LogThrows, logVars
  <2>2. FaultOfLastResort \in PingReplies /\ ReplyFits(call[t].ping, FaultOfLastResort)
    BY DEF PingReplies, FaultOfLastResort, ReplyFits, Promise!Disturbances
  <2> QED
    BY <2>1, <2>2, ReplyInvariant
<1> QED
  BY <1>1, <1>2

\* Every token of the STS has privileges, so Ping never returns its static text.
LEMMA PingInvariant ==
    ASSUME IInv, NEW t \in Threads, Ping(t), UNCHANGED <<now, wallet, sent>>
    PROVE  IInv'
<1> DEFINE p == call[t].ping
           reply == IF FrameworkMatches(p)
                    THEN [kind |-> "response", text |-> ProcessBusinessLogic(p)]
                    ELSE [kind |-> "fault", code |-> "FrameworkVersionMismatch"]
<1>1. /\ call[t].stage = "dispatched"
      /\ Reply(t, "replying", reply)
      /\ UNCHANGED <<writer, logged, seen, replies>>
  BY DEF Ping
<1>2. "Privileges_intermediate" \in p.token.content.attributes
  <2>1. p # Nothing /\ CallFits(t)
    BY <1>1, CallType DEF CallFits
  <2> QED
    BY <2>1 DEF CallFits, EntitledAt, IInv, WalletFits, TokenFits
<1>3. reply \in PingReplies
  BY DEF PingReplies, PingResponses, PingFaults, ProcessBusinessLogic
<1>4. ReplyFits(p, reply)
  BY <1>2 DEF ReplyFits, Promise!AnswerIsDue, FrameworkMatches, ProcessBusinessLogic
<1> HIDE DEF p, reply
<1> QED
  BY <1>1, <1>3, <1>4, ReplyInvariant DEF p

\* The reply leaves with the ping, and the thread forgets both.
LEMMA SendReplyInvariant ==
    ASSUME IInv, NEW t \in Threads, SendReply(t), UNCHANGED <<now, wallet, sent>>
    PROVE  IInv'
<1> DEFINE p == call[t].ping
           r == [ping |-> p, accepted |-> call[t].accepted, reply |-> call[t].reply]
<1>1. /\ call[t].stage = "sending"
      /\ replies' = replies \cup {r}
      /\ Continue(t, IdleCall)
      /\ UNCHANGED <<writer, logged, seen, now, wallet, sent>>
  BY DEF SendReply
<1>2. /\ call[t] \in Calls /\ p \in Pings /\ p # Nothing /\ CallFits(t) /\ TypeOK
      /\ call[t].reply \in PingReplies
  BY <1>1, CallType DEF IInv, CallFits
<1>3. /\ IdleCall \in Calls /\ IdleCall.ping = Nothing /\ IdleCall.stage = "idle"
      /\ IdleCall.reply = Nothing
  BY DEF IdleCall, Calls
<1>4. r.ping = p /\ r.accepted = call[t].accepted
  OBVIOUS
<1>5. r \in [ping : Pings, accepted : Nat, reply : PingReplies]
  BY <1>2 DEF Calls
<1>6. p \in seen /\ EntitledAt(p, r.accepted)
  BY <1>2 DEF CallFits
<1>7. /\ \A u \in Threads : u # t /\ call[u].ping # Nothing => call[u].ping.id # p.id
      /\ \A s \in replies : s.ping.id # p.id
  BY <1>2 DEF IInv, ServedOnce
<1> HIDE DEF p, r
<1>8. /\ call' \in [Threads -> Calls]
      /\ call'[t] = IdleCall
      /\ \A u \in Threads : u # t => call'[u] = call[u]
  BY <1>1, <1>2, <1>3, ContinueCall
<1>9. LogTypeOK(Pings)' /\ LogsOwned'
  BY <1>1, <1>3, SameLogs
<1>10. TypeOK'
  BY <1>1, <1>2, <1>5, <1>8, <1>9 DEF TypeOK, ServiceTypeOK
<1>11. \A u \in Threads : CallFits(u)'
  <2> SUFFICES ASSUME NEW u \in Threads PROVE CallFits(u)'
    OBVIOUS
  <2>1. CASE u = t
    BY <1>3, <1>8, <2>1 DEF CallFits
  <2>2. CASE u # t
    BY <1>1, <1>8, <2>2 DEF IInv, CallFits, EntitledAt
  <2> QED
    BY <2>1, <2>2
<1>12. WalletFits' /\ SentFits' /\ RepliesFit'
  BY <1>1, <1>4, <1>6 DEF IInv, WalletFits, SentFits, RepliesFit, EntitledAt
<1>13. ServedOnce'
  <2>1. \A u \in Threads : call'[u].ping # Nothing => u # t /\ call'[u] = call[u]
    BY <1>3, <1>8
  <2> QED
    BY <1>1, <1>4, <1>7, <2>1 DEF IInv, ServedOnce, PingedAtMostOnce
<1> QED
  BY <1>9, <1>10, <1>11, <1>12, <1>13 DEF IInv

-----------------------------------------------------------------------------
(* Steps of the clients, of the STS and of the clock. *)

LEMMA ObtainInvariant ==
    ASSUME IInv, NEW request \in Requests, Obtain(request)
    PROVE  IInv'
<1>1. /\ WouldIssue(request)
      /\ wallet' = wallet \cup {TokenFor(request)}
      /\ UNCHANGED <<writer, logged, call, seen, replies, now, sent>>
  BY DEF Obtain, serviceVars
<1>2. TypeOK
  BY DEF IInv
<1>3. /\ TokenFor(request) \in {token \in IssuedTokens : token.issuer = "sts"}
      /\ TokenFits(TokenFor(request)) /\ IssuedBy(TokenFor(request), now)
  BY <1>1, <1>2, TokenForFits DEF TypeOK
<1> DEFINE token == TokenFor(request)
<1> HIDE DEF token
<1>4. TypeOK'
  BY <1>1, <1>2, <1>3 DEF TypeOK, ServiceTypeOK, LogTypeOK
<1>5. WalletFits'
  BY <1>1, <1>3 DEF IInv, WalletFits, TokenFits
<1>6. LogsOwned' /\ ServedOnce'
  BY <1>1 DEF IInv, LogsOwned, ServedOnce, PingedAtMostOnce
<1>7. \A t \in Threads : CallFits(t)'
  BY <1>1 DEF IInv, CallFits, EntitledAt
<1>8. SentFits' /\ RepliesFit'
  BY <1>1 DEF IInv, SentFits, RepliesFit, EntitledAt
<1> QED
  BY <1>4, <1>5, <1>6, <1>7, <1>8 DEF IInv

LEMMA SendPingInvariant ==
    ASSUME IInv, NEW id \in PingIds, NEW token \in wallet \cup ForeignTokens,
           NEW signer \in {"client", "onBehalfOf"}, NEW framework \in Headers,
           SendPing(id, token, signer, framework)
    PROVE  IInv'
<1>1. PICK p \in Pings :
         /\ p.token = token
         /\ sent' = sent \cup {p}
  BY DEF SendPing
<1>2. UNCHANGED <<writer, logged, call, seen, replies, now, wallet>>
  BY DEF SendPing, serviceVars
<1>3. TypeOK'
  BY <1>1, <1>2 DEF IInv, TypeOK, ServiceTypeOK, LogTypeOK
<1>4. SentFits'
  BY <1>1, <1>2 DEF IInv, SentFits
<1>5. WalletFits' /\ RepliesFit'
  BY <1>2 DEF IInv, WalletFits, RepliesFit, EntitledAt
<1>6. LogsOwned' /\ ServedOnce' /\ \A t \in Threads : CallFits(t)'
  BY <1>2 DEF IInv, LogsOwned, ServedOnce, PingedAtMostOnce, CallFits, EntitledAt
<1> QED
  BY <1>3, <1>4, <1>5, <1>6 DEF IInv

LEMMA TickInvariant ==
    ASSUME IInv, Tick
    PROVE  IInv'
<1>1. /\ now' = now + 1
      /\ UNCHANGED <<writer, logged, call, seen, replies, wallet, sent>>
      /\ now \in Nat
  BY DEF Tick, serviceVars, IInv, TypeOK
<1>2. TypeOK'
  BY <1>1 DEF IInv, TypeOK, ServiceTypeOK, LogTypeOK
<1>3. WalletFits' /\ SentFits' /\ RepliesFit'
  <2>1. 0 .. now \subseteq 0 .. now'
    BY <1>1
  <2>2. \A token \in wallet : IssuedBy(token, now)'
    BY <1>1, <2>1 DEF IInv, WalletFits, IssuedBy
  <2> QED
    BY <1>1, <2>2 DEF IInv, WalletFits, SentFits, RepliesFit, EntitledAt
<1>4. LogsOwned' /\ ServedOnce' /\ \A t \in Threads : CallFits(t)'
  BY <1>1 DEF IInv, LogsOwned, ServedOnce, PingedAtMostOnce, CallFits, EntitledAt
<1> QED
  BY <1>2, <1>3, <1>4 DEF IInv

-----------------------------------------------------------------------------
LEMMA ServeInvariant ==
    ASSUME IInv, NEW t \in Threads, Serve(t)
    PROVE  IInv'
<1>1. UNCHANGED <<now, wallet, sent>>
  BY DEF Serve
<1> QED
  BY <1>1, OpenLogInvariant, CloseLogInvariant, LogThrowsInvariant, PingInvariant,
     SendReplyInvariant
     DEF Serve, Work

LEMMA NextInvariant == IInv /\ [Next]_vars => IInv'
<1> SUFFICES ASSUME IInv, [Next]_vars PROVE IInv'
  OBVIOUS
<1>1. CASE \E request \in Requests : Obtain(request)
  BY <1>1, ObtainInvariant
<1>2. CASE \E id \in PingIds, token \in wallet \cup ForeignTokens,
              signer \in {"client", "onBehalfOf"}, framework \in Headers :
                 SendPing(id, token, signer, framework)
  BY <1>2, SendPingInvariant
<1>3. CASE \E t \in Threads, p \in sent : Deliver(t, p)
  BY <1>3, DeliverInvariant
<1>4. CASE \E t \in Threads : Serve(t)
  BY <1>4, ServeInvariant
<1>5. CASE Tick
  BY <1>5, TickInvariant
<1>6. CASE UNCHANGED vars
  <2>1. TypeOK'
    BY <1>6 DEF vars, IInv, TypeOK, ServiceTypeOK, LogTypeOK
  <2>2. WalletFits' /\ SentFits' /\ RepliesFit'
    BY <1>6 DEF vars, IInv, WalletFits, SentFits, RepliesFit, EntitledAt
  <2>3. LogsOwned' /\ ServedOnce' /\ \A t \in Threads : CallFits(t)'
    BY <1>6 DEF vars, IInv, LogsOwned, ServedOnce, PingedAtMostOnce, CallFits, EntitledAt
  <2> QED
    BY <2>1, <2>2, <2>3 DEF IInv
<1> QED
  BY <1>1, <1>2, <1>3, <1>4, <1>5, <1>6 DEF Next

\* The invariant of the composed samples, for every number of threads.
THEOREM Invariance == Spec => []IInv
<1> QED
  BY InitInvariant, NextInvariant, PTL DEF Spec

\* Every state of the composed samples is typed: in particular every ping gets a
\* response, a fault with a known code, or WCF's fault of last resort.
THEOREM TypeCorrect == Spec => []TypeOK
<1>1. IInv => TypeOK
  BY DEF IInv
<1> QED
  BY <1>1, Invariance, PTL

\* The channel's replay detection has a ping executed at most once, however often
\* and wherever it is delivered.
THEOREM PingsRunOnce == Spec => []PingedAtMostOnce
<1>1. IInv => PingedAtMostOnce
  BY DEF IInv, ServedOnce
<1> QED
  BY <1>1, Invariance, PTL

\* Whoever gets a response sent a token that the STS made of a request for this
\* service, signed with the key the ping is signed with, and sent it in time.
THEOREM OnlyTheEntitledArePinged == Spec => []PingsAreEntitled
<1>1. IInv => PingsAreEntitled
  <2> SUFFICES ASSUME IInv, NEW r \in Responses
               PROVE  /\ r.ping.token \in wallet
                      /\ \E request \in Requests, clock \in 0 .. r.accepted :
                            /\ r.ping.token = TokenAt(request, clock)
                            /\ request.certificate = r.ping.signer
                            /\ request.rst.appliesTo = "service"
                      /\ r.accepted < r.ping.token.content.conditions.notOnOrAfter
                                         + ServiceClockSkew
    BY DEF PingsAreEntitled
  <2> DEFINE token == r.ping.token
  <2>1. EntitledAt(r.ping, r.accepted)
    BY DEF Responses, IInv, RepliesFit
  <2>2. PICK request \in Requests, clock \in 0 .. r.accepted :
           token = TokenAt(request, clock)
    BY <2>1 DEF EntitledAt, IssuedBy
  <2>3. /\ token.holder = request.certificate
        /\ token.content.audience = request.rst.appliesTo
    BY <2>2 DEF TokenAt, CreateToken
  <2> QED
    BY <2>1, <2>2, <2>3 DEF EntitledAt
<1> QED
  BY <1>1, Invariance, PTL

\* The service looks at no confirmation, and still every one that comes with an
\* accepted ping is addressed to it and has not expired: the STS addresses the
\* confirmation like the conditions and lets it expire no earlier.
THEOREM UncheckedConfirmationsHold == Spec => []ConfirmationHoldsUnchecked
<1>1. IInv => ConfirmationHoldsUnchecked
  <2> SUFFICES ASSUME IInv, NEW r \in replies
               PROVE  /\ r.ping.token.content.recipient = "service"
                      /\ r.accepted < r.ping.token.content.confirmationExpires
                                         + ServiceClockSkew
    BY DEF ConfirmationHoldsUnchecked
  <2> DEFINE token == r.ping.token
  <2>1. EntitledAt(r.ping, r.accepted)
    BY DEF IInv, RepliesFit
  <2>2. TokenFits(token) /\ token \in IssuedTokens
    BY <2>1 DEF EntitledAt, IInv, WalletFits, TypeOK
  <2>3. /\ r.accepted \in Nat
        /\ token.content.conditions.notOnOrAfter \in Int
        /\ token.content.confirmationExpires \in Int
    BY <2>2 DEF IInv, TypeOK, ServiceTypeOK, IssuedTokens, Tokens, Periods
  <2> QED
    BY <2>1, <2>2, <2>3, PingServiceAssumption DEF EntitledAt, TokenFits
<1> QED
  BY <1>1, Invariance, PTL
-----------------------------------------------------------------------------
(* The samples implement module PingPromise: accepting a ping, losing its     *)
(* answer and answering it are steps of the promise, as are the environment's; *)
(* every other step leaves what the promise talks about as it is.              *)

Answers == {[ping |-> r.ping, reply |-> r.reply] : r \in replies}

\* A call whose answer is lost.
Lost(c) == c.reply \in Promise!Disturbances

LEMMA DisturbancesAreReplies ==
    Promise!Disturbances \subseteq PingReplies /\ Nothing \notin Promise!Disturbances
<1>1. [kind |-> "fault", code |-> "InternalServiceFault"] \in PingReplies
  BY DEF PingReplies, PingFaults
<1>2. [kind |-> "fault of last resort"] \in PingReplies
  BY DEF PingReplies, FaultOfLastResort
<1>3. Nothing \notin PingReplies
  BY PingServiceAssumption
<1> QED
  BY <1>1, <1>2, <1>3 DEF Promise!Disturbances

LEMMA DisturbedCalls ==
    Disturbed = {call[t].ping : t \in {u \in Threads : Lost(call[u])}}
  BY DEF Disturbed, Lost, FaultOfLastResort, Promise!Disturbances

\* Only a call that has its reply, hence a ping, can have lost the answer.
LEMMA LostCalls ==
    ASSUME IInv, NEW t \in Threads, Lost(call[t])
    PROVE  call[t].ping # Nothing /\ call[t].stage \in {"replying", "loggingReply", "sending"}
<1>1. CallFits(t)
  BY DEF IInv
<1> QED
  BY <1>1, DisturbancesAreReplies DEF CallFits, Lost

\* A step of a thread that neither loses an answer nor has one lost.
LEMMA SameDisturbed ==
    ASSUME IInv, NEW t \in Threads, NEW c \in Calls, Continue(t, c),
           \/ c.ping = call[t].ping /\ c.reply = call[t].reply
           \/ ~Lost(c) /\ ~Lost(call[t])
    PROVE  Disturbed' = Disturbed
<1>1. /\ call'[t] = c
      /\ \A u \in Threads : u # t => call'[u] = call[u]
  BY ContinueCall DEF IInv
<1>2. \A u \in Threads : /\ Lost(call'[u]) <=> Lost(call[u])
                         /\ Lost(call[u]) => call'[u].ping = call[u].ping
  BY <1>1 DEF Lost
<1>3. Disturbed' = {call'[u].ping : u \in {v \in Threads : Lost(call'[v])}}
  BY DEF Disturbed, Lost, FaultOfLastResort, Promise!Disturbances
<1> QED
  BY <1>2, <1>3, DisturbedCalls

\* The ping of a busy thread is in service by the promise's account.
LEMMA ServedPings ==
    ASSUME IInv, NEW t \in Threads, call[t].ping # Nothing
    PROVE  call[t].ping \in Promise!InService
<1>1. call[t].ping \in seen /\ \A r \in replies : r.ping # call[t].ping
  BY DEF IInv, CallFits, ServedOnce
<1> QED
  BY <1>1 DEF Promise!InService

LEMMA PromiseInit == Init => Promise!Init
<1> SUFFICES ASSUME Init PROVE Promise!Init
  OBVIOUS
<1>1. \A t \in Threads : call[t].reply = Nothing
  BY DEF Init, ServiceInit, IdleCall
<1>2. Disturbed = {}
  BY <1>1, DisturbancesAreReplies, DisturbedCalls DEF Lost
<1>3. Answers = {}
  BY DEF Init, ServiceInit, Answers
<1> QED
  BY <1>2, <1>3 DEF Init, ServiceInit, Promise!Init, Answers

\* What the override of ValidateConfirmationData leaves out holds all the same.
LEMMA DeliverAccepts ==
    ASSUME IInv, NEW t \in Threads, NEW p \in sent, Deliver(t, p)
    PROVE  p \in Pings /\ Promise!Accept(p)
<1> DEFINE c == [call[t] EXCEPT !.stage = "received", !.ping = p, !.accepted = now]
           content == p.token.content
<1>1. /\ Authentic(p) /\ seen' = seen \cup {p} /\ Continue(t, c)
      /\ call[t].stage = "idle"
      /\ UNCHANGED <<replies, now, wallet>>
  BY DEF Deliver, Authenticate
<1>2. p \in Pings /\ now \in Nat /\ call[t] \in Calls /\ CallFits(t)
  BY CallType DEF IInv, TypeOK
<1>3. c \in Calls /\ c.reply = call[t].reply
  BY <1>2 DEF Calls
<1>4. EntitledAt(p, now)
  BY DeliverInvariant
<1>5. Promise!Entitled(p)
  <2>1. TokenFits(p.token) /\ p.token \in IssuedTokens
    BY <1>4 DEF EntitledAt, IInv, WalletFits, TypeOK
  <2>2. content.conditions.notOnOrAfter \in Int /\ content.confirmationExpires \in Int
    BY <2>1 DEF IssuedTokens, Tokens, Periods
  <2> QED
    BY <1>2, <1>4, <2>1, <2>2, PingServiceAssumption
       DEF EntitledAt, TokenFits, Promise!Entitled
<1>6. Disturbed' = Disturbed
  <2>1. ~Lost(call[t])
    BY <1>1, LostCalls
  <2> HIDE DEF c
  <2> QED
    BY <1>1, <1>3, <2>1, SameDisturbed DEF Lost
<1>7. \A s \in seen : s.id # p.id
  BY <1>1 DEF Authentic, Replayed
<1> QED
  BY <1>1, <1>2, <1>5, <1>6, <1>7 DEF Promise!Accept

\* The inspector throws only when the disk fails or another ping, still in
\* service, has the log file open.
LEMMA LogThrowsDisturbs ==
    ASSUME IInv, NEW t \in Threads, RequestLogThrows(t) \/ ReplyLogThrows(t),
           UNCHANGED <<now, wallet, sent>>
    PROVE  call[t].ping \in Pings /\ Promise!Disturb(call[t].ping)
<1> DEFINE stage == IF RequestLogThrows(t) THEN "replying" ELSE "sending"
           reply == IF RequestLogThrows(t)
                    THEN [kind |-> "fault", code |-> "InternalServiceFault"]
                    ELSE FaultOfLastResort
           c == [call[t] EXCEPT !.stage = stage, !.reply = reply]
           file == IF RequestLogThrows(t) THEN ReceivedRequest ELSE SentResponse
           p == call[t].ping
<1>1. /\ call[t].stage = IF RequestLogThrows(t) THEN "received" ELSE "replying"
      /\ LogThrows(t, file)
      /\ Continue(t, c)
      /\ UNCHANGED <<seen, replies>>
  BY DEF RequestLogThrows, ReplyLogThrows, Reply
<1>2. call[t] \in Calls /\ p \in Pings /\ p # Nothing
  BY <1>1, CallType DEF CallFits
<1>3. c \in Calls /\ c.ping = p /\ Lost(c)
  <2>1. reply \in PingReplies /\ reply \in Promise!Disturbances
    BY DEF PingReplies, PingFaults, FaultOfLastResort, Promise!Disturbances
  <2> QED
    BY <1>2, <2>1 DEF Calls, Lost
<1>4. p \in Promise!InService
  BY <1>2, ServedPings
<1>5. DiskMayFail \/ \E other \in Promise!InService : other # p
  <2> SUFFICES ASSUME writer[file] # NoThread
               PROVE  \E other \in Promise!InService : other # p
    BY <1>1 DEF LogThrows
  <2>1. file \in {ReceivedRequest, SentResponse}
    OBVIOUS
  <2>2. writer[file] \in Threads
    BY <2>1, PingServiceAssumption DEF IInv, TypeOK, ServiceTypeOK, LogTypeOK
  <2>3. PICK u \in Threads : writer[file] = u
    BY <2>2
  <2>4. call[u].stage \in {"loggingRequest", "loggingReply"}
    BY <2>1, <2>3 DEF IInv, LogsOwned
  <2>5. u # t /\ call[u].ping # Nothing
    BY <1>1, <2>4 DEF IInv, CallFits
  <2>6. call[u].ping # p
    BY <1>2, <2>5 DEF IInv, ServedOnce
  <2> QED
    BY <2>5, <2>6, ServedPings
<1> HIDE DEF stage, reply, c, file
<1>6. /\ call'[t] = c
      /\ \A u \in Threads : u # t => call'[u] = call[u]
  BY <1>1, <1>3, ContinueCall DEF IInv
<1>7. Disturbed' = Disturbed \cup {p}
  <2>1. Disturbed' = {call'[u].ping : u \in {v \in Threads : Lost(call'[v])}}
    BY DEF Disturbed, Lost, FaultOfLastResort, Promise!Disturbances
  <2>2. \A u \in Threads : u # t => call'[u] = call[u]
    BY <1>6
  <2>3. Lost(call'[t]) /\ call'[t].ping = p
    BY <1>3, <1>6
  <2> QED
    BY <2>1, <2>2, <2>3, DisturbedCalls
<1> QED
  BY <1>1, <1>2, <1>4, <1>5, <1>7 DEF Promise!Disturb

\* What is sent is what the ping calls for, unless its answer was lost.
LEMMA SendReplyAnswers ==
    ASSUME IInv, NEW t \in Threads, SendReply(t), UNCHANGED <<now, wallet, sent>>
    PROVE  call[t].ping \in Pings /\ Promise!Answer(call[t].ping)
<1> DEFINE p == call[t].ping
           a == [ping |-> p, reply |-> call[t].reply]
<1>1. /\ call[t].stage = "sending"
      /\ replies' = replies \cup {[ping |-> p, accepted |-> call[t].accepted,
                                   reply |-> call[t].reply]}
      /\ Continue(t, IdleCall)
      /\ UNCHANGED seen
  BY DEF SendReply
<1>2. p \in Pings /\ p # Nothing /\ ReplyFits(p, a.reply)
  BY <1>1, CallType DEF CallFits
<1>3. p \in Promise!InService
  BY <1>2, ServedPings
<1>4. Answers' = Answers \cup {a}
  <2> DEFINE Sent(r) == [ping |-> r.ping, reply |-> r.reply]
             r == [ping |-> p, accepted |-> call[t].accepted, reply |-> call[t].reply]
  <2>1. replies' = replies \cup {r} /\ Sent(r) = a
    BY <1>1
  <2>2. Answers = {Sent(s) : s \in replies} /\ Answers' = {Sent(s) : s \in replies'}
    BY DEF Answers
  <2> HIDE DEF Sent, r
  <2> QED
    BY <2>1, <2>2
<1>5. \A u \in Threads : u # t /\ Lost(call[u]) => call[u].ping # p
  BY <1>2, LostCalls DEF IInv, ServedOnce
<1>6. p \in Disturbed <=> Lost(call[t])
  BY <1>5, DisturbedCalls
<1>7. IF p \in Disturbed THEN a.reply \in Promise!Disturbances
                         ELSE Promise!AnswerIsDue(p, a.reply)
  BY <1>2, <1>6 DEF Lost, ReplyFits
<1>8. Disturbed' = Disturbed \ {p}
  <2>1. IdleCall \in Calls /\ IdleCall.reply = Nothing
    BY DEF IdleCall, Calls
  <2>2. ~Lost(IdleCall)
    BY <2>1, DisturbancesAreReplies DEF Lost
  <2>3. /\ call'[t] = IdleCall
        /\ \A u \in Threads : u # t => call'[u] = call[u]
    BY <1>1, <2>1, ContinueCall DEF IInv
  <2>4. Disturbed' = {call'[u].ping : u \in {v \in Threads : Lost(call'[v])}}
    BY DEF Disturbed, Lost, FaultOfLastResort, Promise!Disturbances
  <2> QED
    BY <1>5, <2>2, <2>3, <2>4, DisturbedCalls
<1> QED
  BY <1>1, <1>2, <1>3, <1>4, <1>7, <1>8 DEF Promise!Answer, Answers

\* Logging and Ping itself are nobody's business but the service's.
LEMMA QuietWork ==
    ASSUME IInv, NEW t \in Threads, UNCHANGED <<now, wallet, sent>>,
           OpenRequestLog(t) \/ CloseRequestLog(t) \/ Ping(t)
              \/ OpenReplyLog(t) \/ CloseReplyLog(t)
    PROVE  UNCHANGED Promise!vars
<1>1. CASE ~Ping(t)
  <2>1. PICK stage \in {"loggingRequest", "dispatched", "loggingReply", "sending"} :
           Continue(t, [call[t] EXCEPT !.stage = stage])
    BY <1>1 DEF OpenRequestLog, CloseRequestLog, OpenReplyLog, CloseReplyLog, Advance
  <2> DEFINE c == [call[t] EXCEPT !.stage = stage]
  <2>2. call[t] \in Calls
    BY CallType
  <2>3. c \in Calls /\ c.ping = call[t].ping /\ c.reply = call[t].reply
    BY <2>2 DEF Calls
  <2>4. Continue(t, c)
    BY <2>1
  <2> HIDE DEF c
  <2>5. Disturbed' = Disturbed
    BY <2>3, <2>4, SameDisturbed
  <2>6. UNCHANGED <<seen, replies>>
    BY <1>1 DEF OpenRequestLog, CloseRequestLog, OpenReplyLog, CloseReplyLog
  <2> QED
    BY <2>5, <2>6 DEF Promise!vars
<1>2. CASE Ping(t)
  <2> DEFINE p == call[t].ping
             reply == IF FrameworkMatches(p)
                      THEN [kind |-> "response", text |-> ProcessBusinessLogic(p)]
                      ELSE [kind |-> "fault", code |-> "FrameworkVersionMismatch"]
             c == [call[t] EXCEPT !.stage = "replying", !.reply = reply]
  <2>1. call[t].stage = "dispatched" /\ Continue(t, c) /\ UNCHANGED <<seen, replies>>
    BY <1>2 DEF Ping, Reply
  <2>2. call[t] \in Calls
    BY CallType
  <2>3. reply \in PingReplies /\ reply \notin Promise!Disturbances
    BY DEF PingReplies, PingResponses, PingFaults, ProcessBusinessLogic, Promise!Disturbances
  <2>4. c \in Calls /\ c.reply = reply
    BY <2>2, <2>3 DEF Calls
  <2>5. ~Lost(c) /\ ~Lost(call[t])
    BY <2>1, <2>3, <2>4, LostCalls DEF Lost
  <2> HIDE DEF c
  <2>6. Disturbed' = Disturbed
    BY <2>1, <2>4, <2>5, SameDisturbed
  <2> QED
    BY <2>1, <2>6 DEF Promise!vars
<1> QED
  BY <1>1, <1>2

LEMMA PromiseNext == IInv /\ [Next]_vars => [Promise!Next]_Promise!vars
<1> SUFFICES ASSUME IInv, [Next]_vars PROVE Promise!Next \/ UNCHANGED Promise!vars
  OBVIOUS
<1>1. CASE \E request \in Requests : Obtain(request)
  <2>1. /\ wallet \subseteq wallet' /\ now' = now /\ now \in Nat
        /\ UNCHANGED <<call, seen, replies>>
    BY <1>1 DEF Obtain, serviceVars, IInv, TypeOK
  <2> QED
    BY <2>1 DEF Promise!Next, Promise!Environment, Disturbed
<1>2. CASE \E id \in PingIds, token \in wallet \cup ForeignTokens,
              signer \in {"client", "onBehalfOf"}, framework \in Headers :
                 SendPing(id, token, signer, framework)
  <2>1. UNCHANGED <<call, seen, replies, now, wallet>>
    BY <1>2 DEF SendPing, serviceVars
  <2> QED
    BY <2>1 DEF Promise!vars, Disturbed
<1>3. CASE \E t \in Threads, p \in sent : Deliver(t, p)
  BY <1>3, DeliverAccepts DEF Promise!Next
<1>4. CASE \E t \in Threads : Serve(t)
  <2>1. PICK t \in Threads : Work(t) /\ UNCHANGED <<now, wallet, sent>>
    BY <1>4 DEF Serve
  <2>2. CASE RequestLogThrows(t) \/ ReplyLogThrows(t)
    <3>1. call[t].ping \in Pings /\ Promise!Disturb(call[t].ping)
      BY <2>1, <2>2, LogThrowsDisturbs
    <3> QED
      BY <3>1 DEF Promise!Next
  <2>3. CASE SendReply(t)
    <3> DEFINE p == call[t].ping
    <3>1. p \in Pings /\ Promise!Answer(p)
      BY <2>1, <2>3, SendReplyAnswers
    <3> HIDE DEF p
    <3> QED
      BY <3>1 DEF Promise!Next, Promise!Answer
  <2>4. CASE OpenRequestLog(t) \/ CloseRequestLog(t) \/ Ping(t)
                \/ OpenReplyLog(t) \/ CloseReplyLog(t)
    BY <2>1, <2>4, QuietWork
  <2> QED
    BY <2>1, <2>2, <2>3, <2>4 DEF Work
<1>5. CASE Tick
  <2>1. /\ now' = now + 1 /\ now \in Nat
        /\ UNCHANGED <<call, seen, replies, wallet>>
    BY <1>5 DEF Tick, serviceVars, IInv, TypeOK
  <2> QED
    BY <2>1 DEF Promise!Next, Promise!Environment, Disturbed
<1>6. CASE UNCHANGED vars
  BY <1>6 DEF vars, Promise!vars, Disturbed
<1> QED
  BY <1>1, <1>2, <1>3, <1>4, <1>5, <1>6 DEF Next

\* The samples implement PingPromise whatever their threads, log files and
\* overridden checks do: a ping is taken at most once, from the holder of a token
\* that all checks accept, and answered as it should be unless it is disturbed.
THEOREM SamplesKeepThePromise == Spec => ImplementsPingPromise
<1>1. Promise!Spec => ImplementsPingPromise
  BY DEF ImplementsPingPromise
<1> QED
  BY <1>1, Invariance, PromiseInit, PromiseNext, PTL DEF Spec, Promise!Spec
=============================================================================
