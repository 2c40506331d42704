------------------------------- MODULE StsHost -------------------------------
(***************************************************************************)
(* The WCF host of the security token service: worker threads take signed   *)
(* messages from the channel, log them, run the service and its error       *)
(* handler, log the reply and send it.  A message that fails the channel's  *)
(* security checks is answered there and reaches neither log nor service.   *)
(***************************************************************************)
EXTENDS MessageLog, StsToken

CONSTANTS
    Messages,             \* the messages clients may send, any number of times
    ChannelClockSkew,     \* WcfServiceClockSkew
    EnableSoapMessageLog, \* whether the log inspector is installed
    MaxTime               \* bound on the clock

\* The two paths of LogMessageDispatchMessageInspector.
ReceivedRequest == "Kombit.STS.ReceivedRequest.xml"
SentResponse == "Kombit.STS.SentResponse.xml"

\* What a thread may answer: WCF's own fault stands for what no handler caught.
FaultOfLastResort == [kind |-> "fault of last resort"]
Replies == Tokens \cup Faults \cup {FaultOfLastResort}

ASSUME StsHostAssumption ==
    /\ LogFiles = {ReceivedRequest, SentResponse}
    /\ \A m \in Messages :
          /\ m.certificate \in Certificates
          /\ m.intact \in BOOLEAN
          /\ m.wellFormed \in BOOLEAN
          /\ m.created \in Nat
          /\ m.expires \in Nat
          /\ m.rst \in Rsts
    /\ Nothing \notin Messages \cup Rsts \cup Replies
    /\ ChannelClockSkew \in Nat
    /\ EnableSoapMessageLog \in BOOLEAN
    /\ MaxTime \in Nat

VARIABLES
    call,           \* call[t]: the request thread t works on, and how far it is
    clientRequest,  \* the field of the service instance that serves thread t
    seen,           \* the messages the channel's replay detection remembers
    refused,        \* the ids of messages the channel sent a security fault for
    answers,        \* what the service sent back, with the message answered
    now             \* the clock

vars == <<writer, logged, call, clientRequest, seen, refused, answers, now>>

Stages == {"idle", "received", "loggingRequest", "dispatched", "scoped", "prepared",
           "failed", "replying", "loggingReply", "sending"}

Calls == [stage : Stages, message : Messages \cup {Nothing},
          handler : Rsts \cup {Nothing}, period : Periods,
          exception : Exceptions, reply : Replies \cup {Nothing}]

IdleCall == [stage |-> "idle", message |-> Nothing, handler |-> Nothing,
             period |-> [notBefore |-> 0, notOnOrAfter |-> 0],
             exception |-> NoException, reply |-> Nothing]

TypeOK ==
    /\ LogTypeOK(Messages)
    /\ call \in [Threads -> Calls]
    /\ clientRequest \in [Threads -> Rsts \cup {Nothing}]
    /\ seen \subseteq Messages
    /\ refused \subseteq {m.id : m \in Messages}
    /\ answers \subseteq [message : Messages, reply : Replies]
    /\ now \in Nat

Init ==
    /\ LogInit
    /\ call = [t \in Threads |-> IdleCall]
    /\ clientRequest = [t \in Threads |-> Nothing]
    /\ seen = {}
    /\ refused = {}
    /\ answers = {}
    /\ now = 0

\* Mistaken form of Instance: one service object for the whole host.
SingleInstance(t) == CHOOSE u \in Threads : TRUE

\* WCF creates the service object for each request, so its clientRequest field
\* is private to the thread that serves the request.
Instance(t) == t

\* The thread goes on with its call as c.
Continue(t, c) == call' = [call EXCEPT ![t] = c]
Advance(t, stage) == Continue(t, [call[t] EXCEPT !.stage = stage])
Fail(t, exception) ==
    Continue(t, [call[t] EXCEPT !.stage = "failed", !.exception = exception])
Reply(t, stage, reply) ==
    Continue(t, [call[t] EXCEPT !.stage = stage, !.reply = reply])

-----------------------------------------------------------------------------
(* The channel: signature, timestamp, replay detection, client certificate. *)

Fresh(m) == m.created <= now + ChannelClockSkew /\ now <= m.expires + ChannelClockSkew
\* Mistaken form of Replayed: only messages still being served are remembered.
ReplayedInFlight(m) ==
    \E t \in Threads : call[t].message # Nothing /\ call[t].message.id = m.id

Replayed(m) == \E s \in seen : s.id = m.id
Authentic(m) == m.intact /\ Fresh(m) /\ ~Replayed(m) /\ KnownCertificate(m.certificate)

Authenticate(t, m) ==
    /\ call[t].stage = "idle"
    /\ Authentic(m)
    /\ seen' = seen \cup {m}
    /\ Continue(t, [call[t] EXCEPT !.message = m,
                       !.stage = IF EnableSoapMessageLog THEN "received" ELSE "dispatched"])
    /\ UNCHANGED <<writer, logged, clientRequest, refused, answers, now>>

RefuseMessage(m) ==
    /\ ~Authentic(m)
    /\ refused' = refused \cup {m.id}
    /\ UNCHANGED <<writer, logged, call, clientRequest, seen, answers, now>>

-----------------------------------------------------------------------------
(* AfterReceiveRequest. *)

OpenRequestLog(t) ==
    /\ call[t].stage = "received"
    /\ OpenLog(t, ReceivedRequest)
    /\ Advance(t, "loggingRequest")
    /\ UNCHANGED <<clientRequest, seen, refused, answers, now>>

RequestLogThrows(t) ==
    /\ call[t].stage = "received"
    /\ LogThrows(t, ReceivedRequest)
    /\ Fail(t, IOException)
    /\ UNCHANGED <<clientRequest, seen, refused, answers, now>>

CloseRequestLog(t) ==
    /\ call[t].stage = "loggingRequest"
    /\ CloseLog(t, ReceivedRequest, call[t].message)
    /\ Advance(t, "dispatched")
    /\ UNCHANGED <<clientRequest, seen, refused, answers, now>>

-----------------------------------------------------------------------------
(* SecurityTokenService.Issue. *)

\* A malformed request is refused before GetScope; GetScope throws before it
\* stores the request in the field.
ScopeFails(t) ==
    LET m == call[t].message
        exception == IF m.wellFormed THEN ScopeException(m.rst)
                     ELSE FaultException("InvalidRequest")
    IN /\ call[t].stage = "dispatched"
       /\ exception # NoException
       /\ Fail(t, exception)
       /\ UNCHANGED <<writer, logged, clientRequest, seen, refused, answers, now>>

GetScope(t) ==
    LET m == call[t].message
    IN /\ call[t].stage = "dispatched"
       /\ m.wellFormed
       /\ ScopeException(m.rst) = NoException
       /\ clientRequest' = [clientRequest EXCEPT
                               ![Instance(t)] = WithSecondaryParameters(m.rst)]
       /\ Advance(t, "scoped")
       /\ UNCHANGED <<writer, logged, seen, refused, answers, now>>

\* The token handler is constructed with the field, then the lifetime is
\* computed from the request and the clock.
GetSecurityTokenHandler(t) ==
    LET period == GetTokenLifetime(call[t].message.rst.lifetime, now)
        exception == LifetimeException(period, now)
    IN /\ call[t].stage = "scoped"
       /\ IF exception = NoException
          THEN Continue(t, [call[t] EXCEPT !.stage = "prepared", !.period = period,
                                            !.handler = clientRequest[Instance(t)]])
          ELSE Fail(t, exception)
       /\ UNCHANGED <<writer, logged, clientRequest, seen, refused, answers, now>>

\* GetOutputClaimsIdentity, then the handler's CreateToken with a second
\* reading of the clock.  A handler built without a request throws.
Issue(t) ==
    LET m == call[t].message
        principal == Principal(m.certificate)
        claims == ClaimsException(principal, m.rst)
        exception == IF claims # NoException THEN claims
                     ELSE IF call[t].handler = Nothing THEN OtherException
                     ELSE SubjectException(principal, call[t].handler)
    IN /\ call[t].stage = "prepared"
       /\ IF exception = NoException
          THEN Reply(t, "replying", CreateToken(principal, m.rst, call[t].handler,
                                               call[t].period, now))
          ELSE Fail(t, exception)
       /\ UNCHANGED <<writer, logged, clientRequest, seen, refused, answers, now>>

\* Mistaken forms of HandleError: the reply goes out behind the log inspector;
\* an exception that is not a FaultException is left alone.
HandleErrorUnlogged(t) ==
    /\ call[t].stage = "failed"
    /\ Reply(t, "sending", ProvideFault(call[t].exception))
    /\ UNCHANGED <<writer, logged, clientRequest, seen, refused, answers, now>>

HandleErrorFaultsOnly(t) ==
    /\ call[t].stage = "failed"
    /\ call[t].exception.type = "FaultException"
    /\ Reply(t, "replying", ProvideFault(call[t].exception))
    /\ UNCHANGED <<writer, logged, clientRequest, seen, refused, answers, now>>

\* The error handler turns whatever was thrown into the reply.
HandleError(t) ==
    /\ call[t].stage = "failed"
    /\ Reply(t, "replying", ProvideFault(call[t].exception))
    /\ UNCHANGED <<writer, logged, clientRequest, seen, refused, answers, now>>

-----------------------------------------------------------------------------
(* BeforeSendReply, for tokens and faults alike. *)

OpenReplyLog(t) ==
    /\ call[t].stage = "replying"
    /\ EnableSoapMessageLog
    /\ OpenLog(t, SentResponse)
    /\ Advance(t, "loggingReply")
    /\ UNCHANGED <<clientRequest, seen, refused, answers, now>>

\* An exception here is past the error handler: WCF replaces the reply.
ReplyLogThrows(t) ==
    /\ call[t].stage = "replying"
    /\ EnableSoapMessageLog
    /\ LogThrows(t, SentResponse)
    /\ Reply(t, "sending", FaultOfLastResort)
    /\ UNCHANGED <<clientRequest, seen, refused, answers, now>>

CloseReplyLog(t) ==
    /\ call[t].stage = "loggingReply"
    /\ CloseLog(t, SentResponse, call[t].message)
    /\ Advance(t, "sending")
    /\ UNCHANGED <<clientRequest, seen, refused, answers, now>>

\* The reply leaves, the service object is released, the thread is free.
SendReply(t) ==
    /\ call[t].stage = IF EnableSoapMessageLog THEN "sending" ELSE "replying"
    /\ answers' = answers \cup {[message |-> call[t].message, reply |-> call[t].reply]}
    /\ Continue(t, IdleCall)
    /\ clientRequest' = [clientRequest EXCEPT ![Instance(t)] = Nothing]
    /\ UNCHANGED <<writer, logged, seen, refused, now>>

Tick ==
    /\ now < MaxTime
    /\ now' = now + 1
    /\ UNCHANGED <<writer, logged, call, clientRequest, seen, refused, answers>>

-----------------------------------------------------------------------------
\* What a thread does once it has accepted a message.
Work(t) ==
    \/ OpenRequestLog(t) \/ RequestLogThrows(t) \/ CloseRequestLog(t)
    \/ ScopeFails(t) \/ GetScope(t) \/ GetSecurityTokenHandler(t) \/ Issue(t)
    \/ HandleError(t)
    \/ OpenReplyLog(t) \/ ReplyLogThrows(t) \/ CloseReplyLog(t) \/ SendReply(t)

Next ==
    \/ \E t \in Threads, m \in Messages : Authenticate(t, m)
    \/ \E m \in Messages : RefuseMessage(m)
    \/ \E t \in Threads : Work(t)
    \/ Tick

Spec == Init /\ [][Next]_vars
=============================================================================
