----------------------------- MODULE PingService -----------------------------
(***************************************************************************)
(* The web service that is called with an issued token: worker threads take *)
(* signed ping messages from the channel, which validates the token each    *)
(* one carries, log them, run Ping, log the reply and send it.              *)
(***************************************************************************)
EXTENDS MessageLog, StsToken

CONSTANTS
    Pings,            \* the ping messages that may ever be sent
    ServiceClockSkew  \* MaxClockSkew of the service's identity configuration

\* The two paths of LogMessageDispatchMessageInspector.
ReceivedRequest == "Kombit.Service.ReceivedRequest.xml"
SentResponse == "Kombit.Service.SentResponse.xml"

\* What the samples hand around: an STS token with the certificate whose key it
\* is bound to, the certificate that signed it and the type it is sent as.
IssuedTokens == [type : {"saml2", "other"}, issuer : {"sts", "other", "not X509"},
                 holder : Certificates, content : Tokens]

Frameworks == {"missing", "urn:liberty:sb:profile:basic", "other profile"}

PingResponses == [kind : {"response"}, text : {"static", "privileges"}]
PingFaults == [kind : {"fault"}, code : {"FrameworkVersionMismatch", "InternalServiceFault"}]
FaultOfLastResort == [kind |-> "fault of last resort"]
PingReplies == PingResponses \cup PingFaults \cup {FaultOfLastResort}

ASSUME PingServiceAssumption ==
    /\ LogFiles = {ReceivedRequest, SentResponse}
    /\ \A p \in Pings : /\ p.token \in IssuedTokens
                        /\ p.signer \in Certificates
                        /\ p.framework \in Frameworks
                        /\ p.created \in Nat
                        /\ p.expires \in Nat
    /\ Nothing \notin Pings \cup PingReplies
    /\ ServiceClockSkew \in Nat

VARIABLES
    call,     \* call[t]: the ping thread t works on, and how far it is
    seen,     \* the pings the channel's replay detection remembers
    replies,  \* what was sent back, with the ping and when it was accepted
    now       \* the clock

serviceVars == <<writer, logged, call, seen, replies>>

Calls == [stage : {"idle", "received", "loggingRequest", "dispatched",
                   "replying", "loggingReply", "sending"},
          ping : Pings \cup {Nothing}, accepted : Nat, reply : PingReplies \cup {Nothing}]

IdleCall == [stage |-> "idle", ping |-> Nothing, accepted |-> 0, reply |-> Nothing]

ServiceTypeOK ==
    /\ LogTypeOK(Pings)
    /\ call \in [Threads -> Calls]
    /\ seen \subseteq Pings
    /\ replies \subseteq [ping : Pings, accepted : Nat, reply : PingReplies]

ServiceInit ==
    /\ LogInit
    /\ call = [t \in Threads |-> IdleCall]
    /\ seen = {}
    /\ replies = {}

Continue(t, c) == call' = [call EXCEPT ![t] = c]
Advance(t, stage) == Continue(t, [call[t] EXCEPT !.stage = stage])
Reply(t, stage, reply) ==
    Continue(t, [call[t] EXCEPT !.stage = stage, !.reply = reply])

-----------------------------------------------------------------------------
(* The channel. *)

\* The override's own checks, before the base class is called.
ValidateToken(token) == token.type = "saml2" /\ token.issuer = "sts"

\* The base class checks the conditions with the tolerance, and the audience.
ValidConditions(content) ==
    /\ content.conditions.notBefore <= now + ServiceClockSkew
    /\ now < content.conditions.notOnOrAfter + ServiceClockSkew

\* Mistaken form of AllowedAudience: no audience is configured.
AnyAudience(content) == TRUE

AllowedAudience(content) == content.audience = "service"

\* The override returns at once: the base class would refuse every token of the
\* STS, because its confirmation has a recipient.
ValidateConfirmationData(content) == TRUE

\* Mistaken form of HoldsKey: the message is signed, with whatever key.
HoldsSomeKey(p) == p.token.content.method = "holder-of-key"

\* The binding wants the message signed with the key the token is bound to.
HoldsKey(p) == p.token.content.method = "holder-of-key" /\ p.signer = p.token.holder

\* The id of an assertion appears in a message as it is or behind a prefix.
WriteKeyIdentifierClause(prefix) == IF prefix = "_str" THEN "" ELSE prefix

\* Mistaken form of MatchesKeyIdentifierClause: the prefix is not taken off.
MatchesWithPrefixOnly(tokenPrefix, clausePrefix) == clausePrefix = tokenPrefix

MatchesKeyIdentifierClause(tokenPrefix, clausePrefix) ==
    clausePrefix = tokenPrefix \/ clausePrefix = ""

\* WCF resolves the reference to the token and wants both to have ids of their
\* own.  The client prefixes the id of its reference, not the key identifier in
\* it; the service prefixes the id of the token.
Resolves ==
    LET token == "_avoid_duplicate_"
        clause == WriteKeyIdentifierClause("_str")
    IN token # clause /\ MatchesKeyIdentifierClause(token, clause)

Fresh(p) == p.created <= now + ServiceClockSkew /\ now <= p.expires + ServiceClockSkew
\* Mistaken form of Replayed: only pings still in service are remembered.
ReplayedInService(p) == \E t \in Threads : call[t].ping # Nothing /\ call[t].ping.id = p.id

Replayed(p) == \E s \in seen : s.id = p.id

Authentic(p) ==
    /\ Fresh(p) /\ ~Replayed(p) /\ Resolves /\ HoldsKey(p)
    /\ ValidateToken(p.token)
    /\ ValidConditions(p.token.content)
    /\ AllowedAudience(p.token.content)
    /\ ValidateConfirmationData(p.token.content)

\* A ping that is not authentic is answered by the channel with a security
\* fault, which changes nothing here.
Authenticate(t, p) ==
    /\ call[t].stage = "idle"
    /\ Authentic(p)
    /\ seen' = seen \cup {p}
    /\ Continue(t, [call[t] EXCEPT !.stage = "received", !.ping = p, !.accepted = now])
    /\ UNCHANGED <<writer, logged, replies>>

-----------------------------------------------------------------------------
(* AfterReceiveRequest; WCF answers what it throws with its default fault. *)

OpenRequestLog(t) ==
    /\ call[t].stage = "received"
    /\ OpenLog(t, ReceivedRequest)
    /\ Advance(t, "loggingRequest")
    /\ UNCHANGED <<seen, replies>>

\* Mistaken form of RequestLogThrows: nobody turns the exception into a reply.
RequestLogThrowsUnhandled(t) ==
    /\ call[t].stage = "received"
    /\ LogThrows(t, ReceivedRequest)
    /\ Advance(t, "failed")
    /\ UNCHANGED <<seen, replies>>

RequestLogThrows(t) ==
    /\ call[t].stage = "received"
    /\ LogThrows(t, ReceivedRequest)
    /\ Reply(t, "replying", [kind |-> "fault", code |-> "InternalServiceFault"])
    /\ UNCHANGED <<seen, replies>>

CloseRequestLog(t) ==
    /\ call[t].stage = "loggingRequest"
    /\ CloseLog(t, ReceivedRequest, call[t].ping)
    /\ Advance(t, "dispatched")
    /\ UNCHANGED <<seen, replies>>

-----------------------------------------------------------------------------
(* Service.Ping. *)

FrameworkMatches(p) == p.framework = "urn:liberty:sb:profile:basic"

\* The configured text is for callers without privileges.
ProcessBusinessLogic(p) ==
    IF "Privileges_intermediate" \in p.token.content.attributes
    THEN "privileges" ELSE "static"

\* Mistaken form of Ping: a wrong framework header gets no answer.
PingMatchingOnly(t) ==
    /\ call[t].stage = "dispatched"
    /\ FrameworkMatches(call[t].ping)
    /\ Reply(t, "replying",
             [kind |-> "response", text |-> ProcessBusinessLogic(call[t].ping)])
    /\ UNCHANGED <<writer, logged, seen, replies>>

\* Ping validates the framework header before the business logic.
Ping(t) ==
    LET p == call[t].ping
        reply == IF FrameworkMatches(p)
                 THEN [kind |-> "response", text |-> ProcessBusinessLogic(p)]
                 ELSE [kind |-> "fault", code |-> "FrameworkVersionMismatch"]
    IN /\ call[t].stage = "dispatched"
       /\ Reply(t, "replying", reply)
       /\ UNCHANGED <<writer, logged, seen, replies>>

-----------------------------------------------------------------------------
(* BeforeSendReply; an exception here leaves WCF's fault of last resort. *)

OpenReplyLog(t) ==
    /\ call[t].stage = "replying"
    /\ OpenLog(t, SentResponse)
    /\ Advance(t, "loggingReply")
    /\ UNCHANGED <<seen, replies>>

ReplyLogThrows(t) ==
    /\ call[t].stage = "replying"
    /\ LogThrows(t, SentResponse)
    /\ Reply(t, "sending", FaultOfLastResort)
    /\ UNCHANGED <<seen, replies>>

CloseReplyLog(t) ==
    /\ call[t].stage = "loggingReply"
    /\ CloseLog(t, SentResponse, call[t].ping)
    /\ Advance(t, "sending")
    /\ UNCHANGED <<seen, replies>>

SendReply(t) ==
    /\ call[t].stage = "sending"
    /\ replies' = replies \cup {[ping |-> call[t].ping, accepted |-> call[t].accepted,
                                 reply |-> call[t].reply]}
    /\ Continue(t, IdleCall)
    /\ UNCHANGED <<writer, logged, seen>>

Work(t) ==
    \/ OpenRequestLog(t) \/ RequestLogThrows(t) \/ CloseRequestLog(t) \/ Ping(t)
    \/ OpenReplyLog(t) \/ ReplyLogThrows(t) \/ CloseReplyLog(t) \/ SendReply(t)
=============================================================================
