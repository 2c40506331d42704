--------------------------- MODULE ServiceConsumer ---------------------------
(***************************************************************************)
(* The sample consumers that call the web service of module EndToEnd.  Each *)
(* gets a token, sends one ping with it and waits for the answer; it logs    *)
(* what it sends and receives in files that all consumers share.  The call   *)
(* of the token service, which module StsConsumer is about, may fail for     *)
(* reasons that are not visible here.                                       *)
(***************************************************************************)
EXTENDS EndToEnd

CONSTANTS
    Consumers,
    Plans,            \* the calls a consumer may make
    EnableClientLog   \* EnableSoapMessageLog of the consumers

\* The paths of LogServiceMessageClientMessageInspector.
SentRequestToService == "kombit.Consumer.SentRequestToService.xml"
ReceivedResponse == "Kombit.Consumer.ReceivedResponseFromService.xml"

\* SendRequestSecurityTokenRequest asks for an asymmetric key and no lifetime.
UsualRequest(request) ==
    /\ request.rst.keyType = "asymmetric"
    /\ request.rst.secondaryKeyType = "none"
    /\ request.rst.lifetime = [created |-> Unset, expires |-> Unset]

\* A consumer's one ping has the consumer for its message id.
ASSUME ServiceConsumerAssumption ==
    /\ EnableClientLog \in BOOLEAN
    /\ PingIds = Consumers
    /\ NoThread \notin Consumers
    /\ Nothing \notin IssuedTokens
    /\ \A p \in Plans : /\ p.request \in Requests /\ UsualRequest(p.request)
                        /\ p.framework \in Headers

VARIABLES
    plan,          \* plan[c]: the call c makes
    progress,      \* progress[c]: how far it is, its token and its outcome
    clientWriter,  \* the consumers' log files, as in module MessageLog
    clientLogged

ClientLog == INSTANCE MessageLog WITH
                 Threads <- Consumers,
                 LogFiles <- {SentRequestToService, ReceivedResponse},
                 writer <- clientWriter, logged <- clientLogged

clientVars == <<plan, progress, clientWriter, clientLogged>>

Steps == {"obtain", "logRequest", "send", "wait", "logResponse", "done"}
SecurityFault == [kind |-> "security fault"]
Thrown(by) == [kind |-> "thrown", by |-> by]
Outcomes == PingReplies \cup {SecurityFault}
            \cup {Thrown(by) : by \in {"sts", "requestLog", "responseLog", "timeout"}}

CallerTypeOK ==
    /\ TypeOK
    /\ plan \in [Consumers -> Plans]
    /\ progress \in [Consumers ->
          [step : Steps, writing : BOOLEAN, token : wallet \cup {Nothing},
           outcome : Outcomes \cup {Nothing}]]
    /\ ClientLog!LogTypeOK(Consumers)

CallersInit ==
    /\ Init
    /\ plan \in [Consumers -> Plans]
    /\ progress = [c \in Consumers |->
          [step |-> "obtain", writing |-> FALSE, token |-> Nothing, outcome |-> Nothing]]
    /\ ClientLog!LogInit

Proceed(c, p) == progress' = [progress EXCEPT ![c] = p]
End(c, outcome) ==
    Proceed(c, [progress[c] EXCEPT !.step = "done", !.writing = FALSE, !.outcome = outcome])

-----------------------------------------------------------------------------
(* SendRequestSecurityTokenRequest. *)

\* The token becomes that of the channel GenerateServiceChannel makes, whose
\* inspector is installed with the log only.
ObtainToken(c) ==
    /\ progress[c].step = "obtain"
    /\ Obtain(plan[c].request)
    /\ Proceed(c, [progress[c] EXCEPT !.token = TokenFor(plan[c].request),
                      !.step = IF EnableClientLog THEN "logRequest" ELSE "send"])
    /\ UNCHANGED <<plan, clientWriter, clientLogged>>

ObtainFails(c) ==
    /\ progress[c].step = "obtain"
    /\ End(c, Thrown("sts"))
    /\ UNCHANGED <<vars, plan, clientWriter, clientLogged>>

-----------------------------------------------------------------------------
(* BeforeSendRequest and AfterReceiveReply. *)

\* Mistaken form of FileOf: one path for both directions.
OneFile == [logRequest |-> SentRequestToService, logResponse |-> SentRequestToService]

FileOf == [logRequest |-> SentRequestToService, logResponse |-> ReceivedResponse]

Logging(c) == progress[c].step \in DOMAIN FileOf

OpenClientLog(c) ==
    /\ Logging(c)
    /\ ~progress[c].writing
    /\ ClientLog!OpenLog(c, FileOf[progress[c].step])
    /\ Proceed(c, [progress[c] EXCEPT !.writing = TRUE])
    /\ UNCHANGED <<vars, plan>>

\* The exception ends the call, whether or not there is an answer.
ClientLogThrows(c) ==
    /\ Logging(c)
    /\ ~progress[c].writing
    /\ ClientLog!LogThrows(c, FileOf[progress[c].step])
    /\ End(c, Thrown(IF progress[c].step = "logRequest" THEN "requestLog" ELSE "responseLog"))
    /\ UNCHANGED <<vars, plan>>

CloseClientLog(c) ==
    /\ progress[c].writing
    /\ ClientLog!CloseLog(c, FileOf[progress[c].step], c)
    /\ IF progress[c].step = "logResponse"
       THEN End(c, progress[c].outcome)
       ELSE Proceed(c, [progress[c] EXCEPT !.step = "send", !.writing = FALSE])
    /\ UNCHANGED <<vars, plan>>

-----------------------------------------------------------------------------
(* The channel. *)

\* The message is dated and signed after the inspector has logged it.
Send(c) ==
    /\ progress[c].step = "send"
    /\ SendPing(c, progress[c].token, plan[c].request.certificate, plan[c].framework)
    /\ Proceed(c, [progress[c] EXCEPT !.step = "wait"])
    /\ UNCHANGED <<plan, clientWriter, clientLogged>>

\* Mistaken form of TimeOut: the time runs once the service has taken the ping.
TimeOutTaken(c) ==
    /\ progress[c].step = "wait"
    /\ \E p \in seen : p.id = c
    /\ End(c, Thrown("timeout"))
    /\ UNCHANGED <<vars, plan, clientWriter, clientLogged>>

\* The send timeout; the ping stays in the network.
TimeOut(c) ==
    /\ progress[c].step = "wait"
    /\ End(c, Thrown("timeout"))
    /\ UNCHANGED <<vars, plan, clientWriter, clientLogged>>

\* An answer that comes after the timeout is dropped; a security fault does not
\* reach the inspector.
Receive(c, answer) ==
    /\ IF progress[c].step # "wait" THEN UNCHANGED progress
       ELSE IF answer = SecurityFault \/ ~EnableClientLog THEN End(c, answer)
       ELSE Proceed(c, [progress[c] EXCEPT !.step = "logResponse", !.outcome = answer])
    /\ UNCHANGED <<plan, clientWriter, clientLogged>>

\* Mistaken form of Refuse: what the channel says of a second copy reaches the
\* call that sent the first one.
RefuseCopies(p) ==
    /\ ~Authentic(p)
    /\ sent' = sent \ {p}
    /\ Receive(p.id, SecurityFault)
    /\ UNCHANGED <<serviceVars, now, wallet>>

Refuse(p) ==
    /\ p \notin seen
    /\ ~Authentic(p)
    /\ sent' = sent \ {p}
    /\ Receive(p.id, SecurityFault)
    /\ UNCHANGED <<serviceVars, now, wallet>>

HostWorks(t) ==
    /\ Serve(t)
    /\ IF call'[t] = IdleCall THEN Receive(call[t].ping.id, call[t].reply)
       ELSE UNCHANGED clientVars

Consume(c) ==
    \/ ObtainToken(c) \/ ObtainFails(c)
    \/ OpenClientLog(c) \/ ClientLogThrows(c) \/ CloseClientLog(c)
    \/ Send(c) \/ TimeOut(c)

CallersNext ==
    \/ \E c \in Consumers : Consume(c)
    \/ \E p \in sent : Refuse(p)
    \/ \E t \in Threads, p \in sent : Deliver(t, p) /\ UNCHANGED clientVars
    \/ \E t \in Threads : HostWorks(t)
    \/ Tick /\ UNCHANGED clientVars

CallersSpec == CallersInit /\ [][CallersNext]_<<vars, clientVars>>

\* A consumer that can go on does; nothing is assumed of services and network.
FairCallersSpec ==
    CallersSpec /\ \A c \in Consumers : WF_<<vars, clientVars>>(Consume(c))

-----------------------------------------------------------------------------
(* The test of class Consumer that calls the service. *)

SendRstAndThenExecuteServiceServiceSuccessfully ==
    [request |-> [certificate |-> "client",
                  rst |-> [appliesTo |-> "service", claims |-> {"cvr"},
                           onBehalfOf |-> NoOnBehalfOf, keyType |-> "asymmetric",
                           secondaryKeyType |-> "none",
                           lifetime |-> [created |-> Unset, expires |-> Unset]]],
     framework |-> "urn:liberty:sb:profile:basic"]

-----------------------------------------------------------------------------
Called(c) == progress[c].token # Nothing
Ended(c, outcome) == progress[c].step = "done" /\ progress[c].outcome = outcome

\* What the log files can do to a call: nothing unless another consumer calls,
\* or a disk fails.
MayCollide(c) == DiskMayFail \/ \E d \in Consumers : d # c /\ Called(d)

ForService(c) == plan[c].request.rst.appliesTo = "service"
RightHeader(c) == plan[c].framework = "urn:liberty:sb:profile:basic"

\* A call that took its time: the token has expired, or the timestamp of a ping
\* that was sent as soon as the token was there.
Late(c) ==
    LET period == progress[c].token.content.conditions
    IN \/ now >= period.notOnOrAfter + ServiceClockSkew
       \/ now > period.notBefore + PingValidity + ServiceClockSkew

IsDue(c, outcome) ==
    CASE outcome.kind = "response" ->
            ForService(c) /\ RightHeader(c) /\ outcome.text = "privileges"
      [] outcome = [kind |-> "fault", code |-> "FrameworkVersionMismatch"] ->
            ForService(c) /\ ~RightHeader(c)
      [] outcome = SecurityFault -> ~ForService(c) \/ Late(c)
      [] outcome = Thrown("sts") -> ~Called(c)
      [] outcome = Thrown("timeout") -> TRUE
      [] OTHER -> MayCollide(c)

\* Consumer.SendRstAndThenExecuteServiceServiceSuccessfully: a call ends as token
\* and header call for, through the references both sides rewrite, and whatever
\* the other consumers do.  A client whose token is for the service and whose
\* call is not late is not refused; one that calls alone meets no collision.
CallsEndAsDue ==
    \A c \in Consumers : progress[c].step = "done" => IsDue(c, progress[c].outcome)

\* A call that fails before it is sent, or is refused, has not run and never
\* will: only a timeout, a response that cannot be logged and the service's own
\* lost answers leave the caller in doubt.
RefusedCallsDoNotRun ==
    \A c \in Consumers :
        Ended(c, Thrown("sts")) \/ Ended(c, Thrown("requestLog")) \/ Ended(c, SecurityFault)
            => \A p \in seen : p.id # c

\* The four log files of a call that met no other are all about that call: the
\* inspectors on both sides see the same exchange, faults included.
LoneCallIsLoggedFourTimes ==
    EnableClientLog => \A c \in Consumers :
        progress[c].step = "done" /\ progress[c].outcome \in PingReplies /\ ~MayCollide(c)
            => /\ clientLogged[SentRequestToService] = c
               /\ clientLogged[ReceivedResponse] = c
               /\ logged[ReceivedRequest].id = c
               /\ logged[SentResponse].id = c

\* Every call comes to its end, whatever the services and the network do.
EveryCallEnds == \A c \in Consumers : <>(progress[c].step = "done")
=============================================================================
