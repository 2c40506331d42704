----------------------------- MODULE StsConsumer -----------------------------
(***************************************************************************)
(* The sample consumers of the security token service, running against the  *)
(* host of module StsHost.  Each consumer follows one of the integration    *)
(* tests: it sends one request after the other, each when the one before    *)
(* has ended as the test asserts.  It may modify the message before it is   *)
(* signed, tamper with, delay or replay it after it is signed, and it logs  *)
(* what it sends and receives in files that all consumers share.            *)
(***************************************************************************)
EXTENDS StsHost, Sequences

CONSTANTS
    Consumers,
    Plans,            \* the tests a consumer may run
    EnableClientLog,  \* EnableSoapMessageLog of the consumers
    ShortDelay,       \* the sleep of DelaySendingForValidTimeStampTestCase
    LongDelay         \* the sleep of DelaySendingForExpireTestCase

\* The paths of LogStsMessageClientMessageInspector.
SentRequest == "Kombit.Consumer.SentRequestToSTS.xml"
SentRequestModified == "Kombit.Consumer.SentRequestToSTS-modified.xml"
ReceivedResponse == "Kombit.Consumer.ReceivedResponseFromSTS.xml"

\* What a test may assert of a request: a token, the code of a fault, or the
\* MessageSecurityException a security fault becomes.
Verdicts == {"token", "security fault"} \cup FaultCodes

Verdict(outcome) == IF outcome.kind = "fault" THEN outcome.code ELSE outcome.kind

\* The message of request "number" of test p, signed and dated; the inspector that
\* clears the body is installed with the log only.
SignedAt(c, number, p, clock) ==
    [id |-> <<c, number>>, certificate |-> p.requests[number].certificate,
     intact |-> TRUE, wellFormed |-> ~(p.clearsBody /\ EnableClientLog),
     created |-> clock, expires |-> clock + p.duration, rst |-> p.requests[number].rst]

Tampered(message) == [message EXCEPT !.intact = FALSE]

Encoders == {"text", "tamper", "shortDelay", "longDelay", "record", "replay"}

\* Messages has every message a consumer may send, damaged ones included.
ASSUME StsConsumerAssumption ==
    /\ \A c \in Consumers, p \in Plans, clock \in 0..MaxTime :
          \A number \in 1 .. Len(p.requests) :
             {SignedAt(c, number, p, clock), Tampered(SignedAt(c, number, p, clock))}
                \subseteq Messages
    /\ EnableClientLog \in BOOLEAN
    /\ ShortDelay \in Nat
    /\ LongDelay \in Nat
    /\ \A p \in Plans : /\ p.clearsBody \in BOOLEAN
                        /\ p.encoder \in Encoders
                        /\ p.duration \in Nat
                        /\ p.requests # <<>>
                        /\ p.requests \in Seq([certificate : Certificates, rst : Rsts,
                                               expects : SUBSET Verdicts])
                        /\ p.encoder = "replay" => p.requests[1].expects = {"token"}

\* The numbers requests have.
Numbers == UNION {1 .. Len(p.requests) : p \in Plans}

VARIABLES
    plan,          \* plan[c]: the test c runs
    progress,      \* progress[c]: the request c is sending, and how far it is
    previous,      \* previous[c]: previousMessage of its ReplayMessageModifier
    results,       \* results[c]: what each of its requests ended with
    network,       \* the messages under way to the host
    caller,        \* caller[t]: the request thread t answers
    clientWriter,  \* the consumers' log files, as in module MessageLog
    clientLogged

Log == INSTANCE MessageLog WITH
           Threads <- Consumers,
           LogFiles <- {SentRequest, SentRequestModified, ReceivedResponse},
           writer <- clientWriter, logged <- clientLogged

clientVars == <<plan, progress, previous, results, clientWriter, clientLogged>>
consumerVars == <<clientVars, network, caller>>

Steps == {"logRequest", "logModified", "sign", "encode", "asleep", "wait",
          "logResponse", "done"}
SecurityFault == [kind |-> "security fault"]
Thrown(exception) == [kind |-> "thrown", by |-> exception]
Outcomes == Replies \cup {SecurityFault} \cup {Thrown(e) : e \in {"log", "timeout"}}

\* The inspectors are installed with the log only.
FirstStep == IF EnableClientLog THEN "logRequest" ELSE "sign"

FirstRequest == [step |-> FirstStep, number |-> 1, writing |-> FALSE, message |-> Nothing,
           wake |-> 0, response |-> Nothing]

ConsumerTypeOK ==
    /\ plan \in [Consumers -> Plans]
    /\ progress \in [Consumers ->
          [step : Steps, number : Numbers, writing : BOOLEAN,
           message : Messages \cup {Nothing}, wake : Nat,
           response : Outcomes \cup {Nothing}]]
    /\ \A c \in Consumers : progress[c].number <= Len(plan[c].requests)
    /\ previous \in [Consumers -> Messages \cup {Nothing}]
    /\ results \in [Consumers -> SUBSET [number : Numbers, outcome : Outcomes]]
    /\ network \subseteq [from : Consumers, number : Numbers, message : Messages]
    /\ caller \in [Threads -> [from : Consumers, number : Numbers] \cup {Nothing}]
    /\ Log!LogTypeOK([from : Consumers, number : Numbers])

ConsumerInit ==
    /\ Init
    /\ plan \in [Consumers -> Plans]
    /\ progress = [c \in Consumers |-> FirstRequest]
    /\ previous = [c \in Consumers |-> Nothing]
    /\ results = [c \in Consumers |-> {}]
    /\ network = {}
    /\ caller = [t \in Threads |-> Nothing]
    /\ Log!LogInit

\* The consumer goes on with its request as p.
Proceed(c, p) == progress' = [progress EXCEPT ![c] = p]

RequestOf(c, number) == plan[c].requests[number]
AsAsserted(c, outcome) == Verdict(outcome) \in RequestOf(c, progress[c].number).expects

\* Mistaken form of Finish: the test does not stop after its last request.
FinishUncounted(c, outcome) ==
    /\ results' = [results EXCEPT ![c] =
          @ \cup {[number |-> progress[c].number, outcome |-> outcome]}]
    /\ Proceed(c, IF AsAsserted(c, outcome)
                  THEN [FirstRequest EXCEPT !.number = progress[c].number + 1]
                  ELSE [progress[c] EXCEPT !.step = "done", !.writing = FALSE])

\* SendRequestSecurityTokenRequest returns a token or throws; a test goes on with
\* its next request only after what it asserts, anything else ends it.
Finish(c, outcome) ==
    /\ results' = [results EXCEPT ![c] =
          @ \cup {[number |-> progress[c].number, outcome |-> outcome]}]
    /\ Proceed(c, IF AsAsserted(c, outcome) /\ progress[c].number < Len(plan[c].requests)
                  THEN [FirstRequest EXCEPT !.number = progress[c].number + 1]
                  ELSE [progress[c] EXCEPT !.step = "done", !.writing = FALSE])

-----------------------------------------------------------------------------
(* BeforeSendRequest and AfterReceiveReply. *)

FileOf == [logRequest |-> SentRequest, logModified |-> SentRequestModified,
           logResponse |-> ReceivedResponse]

Logging(c) == progress[c].step \in DOMAIN FileOf

OpenClientLog(c) ==
    /\ Logging(c)
    /\ ~progress[c].writing
    /\ Log!OpenLog(c, FileOf[progress[c].step])
    /\ Proceed(c, [progress[c] EXCEPT !.writing = TRUE])
    /\ UNCHANGED <<vars, plan, previous, results, network, caller>>

ClientLogThrows(c) ==
    /\ Logging(c)
    /\ ~progress[c].writing
    /\ Log!LogThrows(c, FileOf[progress[c].step])
    /\ Finish(c, Thrown("log"))
    /\ UNCHANGED <<vars, plan, previous, network, caller>>

\* After the request is logged its body is cleared, if the test wants it, and
\* logged once more; after the response is logged the call returns.
CloseClientLog(c) ==
    LET step == progress[c].step
    IN /\ progress[c].writing
       /\ Log!CloseLog(c, FileOf[step], [from |-> c, number |-> progress[c].number])
       /\ IF step = "logResponse"
          THEN Finish(c, progress[c].response)
          ELSE /\ Proceed(c, [progress[c] EXCEPT !.writing = FALSE,
                     !.step = IF step = "logRequest" /\ plan[c].clearsBody
                              THEN "logModified" ELSE "sign"])
               /\ UNCHANGED results
       /\ UNCHANGED <<vars, plan, previous, network, caller>>

-----------------------------------------------------------------------------
(* The channel: the message is signed and dated, then encoded and sent. *)

Signed(c) == SignedAt(c, progress[c].number, plan[c], now)

Sign(c) ==
    /\ progress[c].step = "sign"
    /\ Proceed(c, [progress[c] EXCEPT !.step = "encode", !.message = Signed(c)])
    /\ UNCHANGED <<vars, plan, previous, results, network, caller, clientWriter, clientLogged>>

Send(c, message) ==
    /\ network' = network \cup
          {[from |-> c, number |-> progress[c].number, message |-> message]}
    /\ Proceed(c, [progress[c] EXCEPT !.step = "wait", !.message = Nothing])

EncodeText(c) ==
    /\ progress[c].step = "encode"
    /\ plan[c].encoder \in {"text", "tamper"}
    /\ Send(c, IF plan[c].encoder = "tamper" THEN Tampered(progress[c].message)
               ELSE progress[c].message)
    /\ UNCHANGED <<vars, plan, previous, results, caller, clientWriter, clientLogged>>

\* Mistaken form of Modify: replayPreviousMessage is not looked at.
ModifyReplaysAlways(c) ==
    LET message == IF previous[c] # Nothing THEN previous[c] ELSE progress[c].message
    IN /\ progress[c].step = "encode"
       /\ plan[c].encoder \in {"record", "replay"}
       /\ previous' = [previous EXCEPT ![c] = message]
       /\ Send(c, message)
       /\ UNCHANGED <<vars, plan, results, caller, clientWriter, clientLogged>>

\* Modify of ReplayMessageModifier: with replayPreviousMessage the first message
\* is sent whenever it is called; without, the last one is kept and not used.
Modify(c) ==
    LET replays == plan[c].encoder = "replay" /\ previous[c] # Nothing
        message == IF replays THEN previous[c] ELSE progress[c].message
    IN /\ progress[c].step = "encode"
       /\ plan[c].encoder \in {"record", "replay"}
       /\ previous' = [previous EXCEPT ![c] = message]
       /\ Send(c, message)
       /\ UNCHANGED <<vars, plan, results, caller, clientWriter, clientLogged>>

Delay == [shortDelay |-> ShortDelay, longDelay |-> LongDelay]

FallAsleep(c) ==
    /\ progress[c].step = "encode"
    /\ plan[c].encoder \in DOMAIN Delay
    /\ Proceed(c, [progress[c] EXCEPT !.step = "asleep",
                                      !.wake = now + Delay[plan[c].encoder]])
    /\ UNCHANGED <<vars, plan, previous, results, network, caller, clientWriter, clientLogged>>

\* Mistaken form of Wake: the delay comes before the signature.
WakeAndSign(c) ==
    /\ progress[c].step = "asleep"
    /\ now >= progress[c].wake
    /\ Send(c, Signed(c))
    /\ UNCHANGED <<vars, plan, previous, results, caller, clientWriter, clientLogged>>

Wake(c) ==
    /\ progress[c].step = "asleep"
    /\ now >= progress[c].wake
    /\ Send(c, progress[c].message)
    /\ UNCHANGED <<vars, plan, previous, results, caller, clientWriter, clientLogged>>

\* Mistaken form of TimeOut: a request that has left is waited for.
TimeOutBeforeSending(c) ==
    /\ progress[c].step = "asleep"
    /\ Finish(c, Thrown("timeout"))
    /\ UNCHANGED <<vars, plan, previous, network, caller, clientWriter, clientLogged>>

\* The channel's send timeout; the message stays under way.
TimeOut(c) ==
    /\ progress[c].step = "wait"
    /\ Finish(c, Thrown("timeout"))
    /\ UNCHANGED <<vars, plan, previous, network, caller, clientWriter, clientLogged>>

\* What the host answers reaches the request it belongs to while that waits; a
\* security fault does not reach the inspectors.
Receive(request, response) ==
    LET c == request.from
    IN /\ UNCHANGED <<plan, previous, clientWriter, clientLogged>>
       /\ IF progress[c].step # "wait" \/ progress[c].number # request.number
          THEN UNCHANGED <<progress, results>>
          ELSE IF response = SecurityFault \/ ~EnableClientLog
          THEN Finish(c, response)
          ELSE /\ Proceed(c, [progress[c] EXCEPT !.step = "logResponse",
                                                 !.response = response])
               /\ UNCHANGED results

-----------------------------------------------------------------------------
(* The host. *)

Deliver(t, e) ==
    /\ Authenticate(t, e.message)
    /\ network' = network \ {e}
    /\ caller' = [caller EXCEPT ![t] = [from |-> e.from, number |-> e.number]]
    /\ UNCHANGED clientVars

Refuse(e) ==
    /\ RefuseMessage(e.message)
    /\ network' = network \ {e}
    /\ Receive(e, SecurityFault)
    /\ UNCHANGED caller

HostWorks(t) ==
    /\ Work(t)
    /\ UNCHANGED network
    /\ IF call'[t] = IdleCall
       THEN /\ Receive(caller[t], call[t].reply)
            /\ caller' = [caller EXCEPT ![t] = Nothing]
       ELSE UNCHANGED <<clientVars, caller>>

Consume(c) ==
    \/ OpenClientLog(c) \/ ClientLogThrows(c) \/ CloseClientLog(c)
    \/ Sign(c) \/ EncodeText(c) \/ Modify(c) \/ FallAsleep(c) \/ Wake(c) \/ TimeOut(c)

ConsumerNext ==
    \/ \E c \in Consumers : Consume(c)
    \/ \E e \in network : (\E t \in Threads : Deliver(t, e)) \/ Refuse(e)
    \/ \E t \in Threads : HostWorks(t)
    \/ Tick /\ UNCHANGED consumerVars

ConsumerSpec == ConsumerInit /\ [][ConsumerNext]_<<vars, consumerVars>>

\* The host schedules every thread that has work to do; its clients may stop.
FairHostSpec ==
    ConsumerSpec /\ \A t \in Threads : WF_<<vars, consumerVars>>(HostWorks(t))

\* A test that can go on does; nothing is assumed of the network or the host.
FairConsumerSpec ==
    ConsumerSpec /\ \A c \in Consumers : WF_<<vars, consumerVars>>(Consume(c))

-----------------------------------------------------------------------------
(* The tests of class Consumer that ask for a token, by their names.  The      *)
(* timestamp of a message is valid for one unit.                               *)

\* The request most tests send with SendRequestSecurityTokenRequest.
ARequest ==
    [certificate |-> "client",
     rst |-> [appliesTo |-> "service", claims |-> {"cvr"}, onBehalfOf |-> NoOnBehalfOf,
              keyType |-> "asymmetric", secondaryKeyType |-> "none",
              lifetime |-> [created |-> Unset, expires |-> Unset]],
     expects |-> {"token"}]

ATest == [clearsBody |-> FALSE, encoder |-> "text", duration |-> 1, requests |-> <<ARequest>>]

ReceiveConnectionNotFoundError ==
    [ARequest EXCEPT !.rst.appliesTo = "noconnectionfound", !.expects = {"5002"}]
FailedBecauseOfAuthentication ==
    [ARequest EXCEPT !.certificate = "stsService", !.expects = {"5607"}]
FailedBecauseOfInvaidRst == [ARequest EXCEPT !.rst.claims = {}, !.expects = {"5015"}]

HandleCommonErrorsWhenIssueToken ==
    [ATest EXCEPT !.requests = <<ReceiveConnectionNotFoundError,
                                 FailedBecauseOfAuthentication, FailedBecauseOfInvaidRst>>]

SendRstAndThenExecuteServiceServiceSuccessfully == ATest

SendRstWithWrongFormatWillReturnErrorResponse ==
    [ATest EXCEPT !.clearsBody = TRUE,
                  !.requests = <<[ARequest EXCEPT !.expects = FaultCodes]>>]

Refused == [ARequest EXCEPT !.expects = {"security fault"}]

SendRstWithInvalidSignatureWillReturnErrorResponse ==
    [ATest EXCEPT !.encoder = "tamper", !.requests = <<Refused>>]

SendRstTwiceWithDifferentMessagesWillBeAccepted ==
    [ATest EXCEPT !.encoder = "record", !.requests = <<ARequest, ARequest>>]

ReplayRstWillReturnErrorResponse ==
    [ATest EXCEPT !.encoder = "replay", !.requests = <<ARequest, Refused>>]

SendRstWithValidTimestampWillNotThrowError == [ATest EXCEPT !.encoder = "shortDelay"]

SendExpiredRstWillReturnErrorResponse ==
    [ATest EXCEPT !.encoder = "longDelay", !.requests = <<Refused>>]

SendRstWithProxyOnBehalfOfSuccessfully ==
    [ATest EXCEPT !.requests =
        <<[ARequest EXCEPT !.rst.onBehalfOf = [kind |-> "x509", who |-> "onBehalfOf"]]>>]

GenerateBootstrapToken ==
    [ARequest EXCEPT !.certificate = "onBehalfOf", !.rst.appliesTo = "bootstrap"]

\* The bootstrap token, once it has come, goes into the second request; it names the
\* user of the certificate it was asked for with.
SendRstWithNormalOnBehalfOfSuccessfully ==
    [ATest EXCEPT !.requests =
        <<GenerateBootstrapToken,
          [ARequest EXCEPT !.rst.onBehalfOf =
              [kind |-> "saml2", who |-> GetSubjectNameId(GenerateBootstrapToken.certificate)]]>>]

Tests ==
    {HandleCommonErrorsWhenIssueToken,
     SendRstAndThenExecuteServiceServiceSuccessfully,
     SendRstWithWrongFormatWillReturnErrorResponse,
     SendRstWithInvalidSignatureWillReturnErrorResponse,
     SendRstTwiceWithDifferentMessagesWillBeAccepted,
     ReplayRstWillReturnErrorResponse,
     SendRstWithValidTimestampWillNotThrowError,
     SendExpiredRstWillReturnErrorResponse,
     SendRstWithProxyOnBehalfOfSuccessfully,
     SendRstWithNormalOnBehalfOfSuccessfully}

-----------------------------------------------------------------------------
TokensOf(c) == {r \in results[c] : r.outcome.kind = "token"}

\* A consumer ends up with a token about its own request, whatever the other
\* consumers and the threads of the host do at the same time.
TokensReachTheirRequester ==
    \A c \in Consumers : \A r \in TokensOf(c) :
        LET request == RequestOf(c, r.number)
        IN /\ r.outcome.audience = request.rst.appliesTo
           /\ r.outcome.recipient = request.rst.appliesTo
           /\ r.outcome.subject = SubjectName(Principal(request.certificate), request.rst)

\* Consumer.ReplayRstWillReturnErrorResponse: replaying a message gets no second
\* token, not even when the first answer was lost to a timeout or a log error.
ReplayGetsOneToken ==
    \A c \in Consumers :
        plan[c].encoder = "replay" =>
            \A r \in TokensOf(c) : r.number = 1

\* What request number of consumer c may end with: what the test asserts of it, or
\* the timeout, or a security fault when the message may have come late; only the
\* disk or another consumer can make a log take away an answer, or a request before
\* it is sent.
EndsAsAsserted(c, number, outcome) ==
    \/ Verdict(outcome) \in RequestOf(c, number).expects
    \/ outcome = Thrown("timeout")
    \/ /\ outcome = SecurityFault
       /\ now > plan[c].duration + ChannelClockSkew
    \/ /\ \/ outcome = Thrown("log")
          \/ /\ EnableSoapMessageLog
             /\ Verdict(outcome) \in {"5050", "fault of last resort"}
       /\ DiskMayFail \/ \E d \in Consumers : d # c

\* Every request of every test ends as its test asserts.  Nothing a consumer does
\* itself, its own late, delayed or replayed messages included, changes that.
TestsGetWhatTheyAssert ==
    \A c \in Consumers : \A r \in results[c] : EndsAsAsserted(c, r.number, r.outcome)

\* A consumer meets a security fault only when its test has tampered with the very
\* message, sends it again, or that message has come too late: no consumer, however
\* long it waits, is refused for the sake of a message it or somebody else sent before.
RefusedForACause(c, number) ==
    \/ plan[c].encoder = "tamper"
    \/ plan[c].encoder = "replay" /\ number > 1
    \/ \E e \in network : /\ e.from = c /\ e.number = number
                          /\ now > e.message.expires + ChannelClockSkew

RefusalsHaveACause ==
    [][\A c \in Consumers : \A r \in results'[c] \ results[c] :
          r.outcome = SecurityFault => RefusedForACause(c, r.number)]_<<vars, consumerVars>>

\* Every request the channel accepts is answered, also when it is malformed,
\* throws or cannot be logged, and when its consumer has given it up.
EveryRequestIsAnswered ==
    \A id \in Consumers \X Numbers :
        (\E m \in seen : m.id = id) ~> (\E a \in answers : a.message.id = id)

\* Every test comes to its end: no log file, sleep or lost answer blocks it.
EveryTestEnds == \A c \in Consumers : <>(progress[c].step = "done")

\* Consumer.SendRstWithWrongFormatWillReturnErrorResponse, with the log disabled:
\* the inspector that clears the body is not installed.
WrongFormatIsRefused ==
    \A c \in Consumers : plan[c].clearsBody => TokensOf(c) = {}
=============================================================================
