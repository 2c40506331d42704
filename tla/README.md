# Verification of the KOMBIT service samples

The repository shows, in .NET, how a KOMBIT user system works with a security token
service: a consumer asks a token service (STS, WS-Trust 1.3) for a SAML 2.0 token,
calls a SOAP service with it, and another consumer gets a JWT from an OAuth service and
calls a REST service with that. This directory holds TLA+ modules of that code, the
configurations with which TLC checks them, and proofs for TLAPS. Paths below are
relative to the root of the repository; `STS/`, `Service/`, `Consumer/`, `Rest/` and
`JwtConsumer/` stand for the `Kombit.Samples.*` directories.

    tlc -config sts_serial.cfg MCStsHost.tla     # a run: PROJECT.json names all of them
    tlapm StsHostProofs.tla                      # the proofs: one module per line of section 6

## 1. The system

| Component | State | Operations | Interacts with | What is hard | What makes it correct |
|---|---|---|---|---|---|
| STS host pipeline: `STS/Code/WsTrustServiceHostFactory`, `LogMessageDispatchMessageInspector`, `KombitExceptionThrownHandler`, `ExceptionThownHandler`, in WCF | one call per worker thread, two log files, replay cache, clock | accept or refuse a message, log, dispatch, handle an error, log and send the reply | clients (messages); token issuing (calls); all its own threads through the log files | threads interleave at every log write; a write that fails before, or after, the token is made; a message delivered twice | every message is served at most once and answered; files are never left open; a reply is the one its message calls for unless another message or the disk interferes |
| Token issuing: `WsTrustSecurityTokenService`, `CustomSaml2SecurityTokenHandler`, `CustomCertificateSecurityTokenHandler`, `WsTrustServiceConfiguration`, `Constants` | `clientRequest`, a field set in one callback and read in a later one | certificate validation, `GetScope`, `GetSecurityTokenHandler`, `GetOutputClaimsIdentity`, `CreateToken` | the WIF base classes, which call these in order and read the clock between them | the field; the order of the checks; two readings of the clock and two maximum lifetimes; OnBehalfOf tokens of four kinds | a token speaks about its own request only; its confirmation outlives its conditions; the fault is that of the first check that fails |
| STS metadata: `DecoratedEndpointBehavior` | the service description WCF builds | `ExportEndpoint` | the WSDL exporter | two lists, of what is and of what is not supported, that have to agree | the description is closed and offers Issue only |
| Ping service: `Service/Code/*` | one call per thread, two log files, replay cache, clock | validate token and message, log, `Ping`, log and send the reply | clients; the STS through its tokens only | entitlement is spread over four checks, one of them overridden to do nothing | only who got a token for this service gets an answer, in time, and once |
| Service call of the consumer: `Consumer/ConnectionHelper.GenerateServiceChannel`, `LogServiceMessageClientMessageInspector`, `StrReferenceSaml2SecurityTokenHandler` | two more log files shared by all consumers; the token | log, sign and send a ping, wait, log the answer | ping service, other consumers through the files | an answer lost to the log or to the timeout after `Ping` ran; a reference to the token that client and service each rewrite | a call ends as its token and header call for; a call that was refused has not run |
| SOAP consumer: `Consumer/*` | three log files shared by all consumers, the previous message of a replaying test | log, modify, sign, encode, tamper, delay, replay, send, wait, log the response | STS host, other consumers through the files | timeouts, late messages, answers lost by the client's own log | each test ends with what it asserts, or has lost its answer |
| REST service: `Rest/*` | the user of each request's HTTP context | `SendAsync`, `OnAuthorizationAsync`, `Ping` | REST consumer | a principal set in one handler and read in another, many requests at once, tokens that expire | only the holder of a valid token for the configured CVR, under the certificate it was issued for, gets to the controller |
| REST consumer: `JwtConsumer/*` | one HTTP client per call, the token | `Post`, `GetAsync`, two timeouts | OAuth service, REST service | a three-second timeout racing an answer; pages where JSON is expected | every test ends with what it asserts or an exception |
| OAuth service | tokens | issue, refuse | REST consumer | outside of the repository | - |

Not part of the running system, and not modelled: settings and certificate lookup
(read once; a certificate appears here under the name of the setting that holds its
thumbprint), the static web pages, bundles and routes, the unused `STS/Code/ErrorHandler`,
generated service references, unit tests of the STS (read as a reference), deployment
files, provisioning data, certificates, and the binary packages
`Kombit.Samples.Common` and `BasicPrivilegeProfileParser`, whose source is not here.
Nor are the scripts under `Service/Scripts` and `Deployment/Service/Scripts`: jQuery,
jQuery UI, Knockout, Modernizr and their like, most of the repository's lines. They came
with the template of the web project, the samples neither change nor call them, and a
model of them would say nothing about the token exchange.

## 2. The modules

                                                   PingPromise (refinement)
                                                       :
    MessageLog ---+                +--- PingService --- EndToEnd --- MCEndToEnd
                  +--- StsHost --+ |                      |
    StsToken -----+--------------|-+                      +--- ServiceConsumer --- MCServiceConsumer
       |                         +--- StsHostProperties --- MCStsHost
       +--- TokenIssuing ............ (refinement)
                                 +--- StsConsumer --- MCStsConsumer
    RestApi --- JwtConsumer --- MCJwtConsumer
                    :
               RestPromise (refinement)
    WsdlExport --- MCWsdlExport

Theorems are in modules of their own, which extend what they are about: `StsTokenProofs`
(lemmas about the operators of `StsToken`), `StsHostProofs`, `StsIssuingProofs`,
`StsConsumerProofs`, `EndToEndProofs`, `ServiceConsumerProofs`, `JwtConsumerProofs` and
`WsdlExportProofs`.

`MessageLog` is the one mechanism all SOAP hosts and consumers share: `File.WriteAllText`
on a fixed path. It opens the file for one writer, truncating it, and throws while
somebody else has it open. `writer` says who has a file open, `logged` what the file
holds. `StsHost`, `PingService` and (as an instance with variables of their own)
`StsConsumer` and `ServiceConsumer` are built on it.

`StsToken` has no variables. It holds what the STS computes for a request: `Principal`
(the certificate handler), `ScopeException`, `WithSecondaryParameters`
(`GetScope`), `GetTokenLifetime` and `LifetimeException` (WIF, with the numbers of
`WsTrustServiceConfiguration`), `ClaimsException` and `GetOutputClaimsIdentity`,
`SubjectException`, `SubjectName`, `ConfirmationExpires` and `CreateToken` (the token
handler), and `ProvideFault` (the error handler). XML, attribute formats and key material
are abstracted to the members of small sets; every check and every exception is kept.

`StsHost` runs these for any number of threads. `call[t]` is the request of thread `t`
and the `stage` it has reached; `clientRequest[t]` is the field of the service object WCF
made for that request; `seen` is the channel's replay cache; `answers` and `refused`
record what clients got. One action per callback, in the order of WCF and WIF:

| Action | Code |
|---|---|
| `Authenticate`, `RefuseMessage` | security channel, `CustomCertificateSecurityTokenHandler.ValidateToken` |
| `OpenRequestLog`, `RequestLogThrows`, `CloseRequestLog` | `AfterReceiveRequest`: the two ends of `WriteAllText`, and its exception |
| `ScopeFails`, `GetScope` | `GetScope`, which throws before it sets `clientRequest` |
| `GetSecurityTokenHandler` | reads the field, then the base class computes the lifetime |
| `Issue` | `GetOutputClaimsIdentity`, then `CreateToken` with its own reading of the clock |
| `HandleError` | `ExceptionThownHandler.ProvideFault` |
| `OpenReplyLog`, `ReplyLogThrows`, `CloseReplyLog`, `SendReply` | `BeforeSendReply`, past the error handler, and the channel |

`TokenIssuing` is the abstract specification: messages are accepted, each one once; an
answer is a matter of the message and the clock (`ReplyIsDue`, a list of conditions that
says, for instance, that a token is valid for the period its request asked for, and that
`InvalidRequest` is due only when that period was not `Acceptable` at some reading of the
clock: empty, longer than 20 minutes, or over); a message may be *disturbed*, and lose its
proper answer, only while another one is in flight or when the disk fails. `StsHostProperties`
has the refinement mapping (`Promise`) and the properties.

`PingService` has the same shape as `StsHost`, with the checks of the service:
`ValidateToken`, the (empty) `ValidateConfirmationData`, audience, conditions, and the key
the token is bound to. The service has no error handler, so WCF's own fault stands for
what an inspector throws. `EndToEnd` adds clients: `Obtain` is a request to the STS,
represented by the operators of `StsToken` in one step, and `SendPing` puts a signed ping
on a network that keeps it for ever, so that delivery may be late, repeated or missing.
`wallet` is the set of tokens the STS has issued. A ping names its token by a reference:
the client writes it without the prefix of the reference's own id
(`WriteKeyIdentifierClause`), the service prefixes the id of the token, so that WCF does
not find the same id twice, and takes the prefix off again to compare
(`MatchesKeyIdentifierClause`). `Resolves` puts the two programs together.

`PingPromise` is the abstract specification of that service, without threads, log files or
stages: a ping is taken at most once, only from somebody *entitled* to it, and gets the
answer its header calls for unless another ping in service or a failing disk disturbs it.
`Entitled` lists what a careful service would check, recipient and expiry of the
confirmation included. The service looks at neither: the base class refuses every
confirmation with a recipient (ID4157), the tokens of this STS all have one, and so
`ValidateConfirmationData` is overridden to check nothing at all
(`Service/Code/CustomSaml2SecurityTokenHandler.cs:46-62`). That `EndToEnd` implements
`PingPromise` (`Promise`) shows that with tokens of this STS the confirmation of an accepted
ping is addressed to the service and in time all the same.

`ServiceConsumer` puts the consumers in front of `EndToEnd`: each obtains a token, logs its
ping, sends it, waits, and logs the answer. `progress[c]` says how far consumer `c` is,
with its token and outcome; the two files of `LogServiceMessageClientMessageInspector` are
shared. The call of the STS may fail for any reason here, since that is what
`StsConsumer` is about.

`StsConsumer` extends `StsHost` with consumers. `plan[c]` is the test consumer `c` runs:
what it does to its messages, and the sequence of its `requests`, each with the certificate,
the request and what the test asserts of the answer (`expects`). The ten plans have the names
of the tests of class `Consumer` that ask for a token; `Tests` is the set of them.
`HandleCommonErrorsWhenIssueToken` is one plan of three requests, and the test with a
bootstrap token asks for that token first and puts the user it names into its second request.
A consumer goes on with the next request only after the answer the test asserts (`Finish`).
What `ValidateIssuedToken` reads off the XML of a token is left out. `progress[c]` says how far
`c` is on the way through the WS-Trust channel, the inspector and the encoder; `previous[c]` is
the state of `ReplayMessageModifier`; `clientWriter` and `clientLogged` are the consumers' log
files. A sent message stays in `network` until the host takes it, also when its consumer has
given up on it.

`RestApi` has threads that take requests through `SendAsync`, `OnAuthorizationAsync` and
`Ping`; `user` is the principal of the HTTP context. `JwtConsumer` extends it with the
consumers, whose plans again have the names of the tests, the OAuth service and the clock.
Two tests only look into their token (`ValidateToken`): a claim that comes twice or not at
all throws, which is up to the OAuth service.

`RestPromise` is the abstract specification of the REST service: a request is taken at most
once, judged in one step by the request and the clock (`StatusIsDue`), and answered as it was
judged. The code decides in three places, the message handler, the route and the filter, and
hands the outcome of the first to the last in the principal of the HTTP context. The
refinement mapping (`Promise`, at the end of `JwtConsumer`) calls a request judged from the
moment the handler is through with it. Its `Entitled` asks whether the OAuth service issued
the token for the caller's certificate, where the code asks for signature, issuer and
confirmation.

`WsdlExport` has one action, `ExportEndpoint`, for each contract the behaviour provides
for. The factory configures one of the three. `Listed` is the list of operations to remove
as it stands when a port type has been gone through: it is not emptied between port types, and
`Operations.Remove` throws for an operation of another one (`RemoveThrows`). `transports`
follows the TransportBindings that WCF writes into the endpoints' policies. Each operation that
is removed from the binding costs every policy the first one it has (`AfterPasses`); one that
does not stand where the code expects it makes the removal throw (`PassThrows`). Policies of
operations have none. WCF appends the port type it exports to those of the description;
after an exception it gives the description up (`failed`).

## 3. What is assumed of the frameworks

WCF, WIF, ASP.NET and the OAuth service are not in the repository. From how the code uses
them, the modules take: WCF makes a service object for each request (its default, and
the one the field `clientRequest` relies on); the security channel checks signature,
timestamp with the configured tolerance, and replay before any inspector runs, and a
security fault passes no inspector; an exception in `AfterReceiveRequest` goes to the
error handlers, one in `BeforeSendReply` does not and leaves the fault of last resort;
`SecurityTokenService.Issue` calls scope, token handler, lifetime, claims and `CreateToken`
in that order; a handler that finds two NameIdentifier claims throws. Whether the base
certificate handler derives a name claim depends on the certificate, so it is the constant
`BaseNameClaims`. `WriteAllText` shares the file for reading only. The HTTP context of a
request belongs to that request, on whatever thread it runs. The OAuth service gives a
token bound to the connection's certificate, an error, or a page of its web server.

The checked-in settings of consumer and STS name different certificates for the same role
(`Consumer/app.config:8`, `STS/Web.config:22-23`), and
point the consumer to another STS. The model takes settings by role, as the tests do: the
invalid client certificate of the authentication test is the STS's own service
certificate, which is what makes the STS answer 5607.

## 4. The runs

| Run | Question | Bounds and why they are enough |
|---|---|---|
| `sts_serial` | With one request at a time, is every reply the one its message calls for (`RepliesAreDue`, lifetimes included), and do both files then hold the same exchange (`LogsPairWhenQuiet`)? Type invariant. | One thread, one message id; every certificate with every address, no claims, a CVR claim or another one; every OnBehalfOf kind and name for every certificate; every pair of key types; lifetimes absent, and on both sides of every comparison of the lifetime check with a default of 1, a maximum of 2 and a skew of 1. |
| `sts_concurrent` | Whatever threads do, are files owned by who writes them, messages served once, tokens about their own request, confirmations longer than conditions; does the host implement `TokenIssuing`? | Two threads, since every conflict in the code is between two: one file, one field, one cache entry. Three ids of users that differ in certificate, address, key type and OnBehalfOf, a damaged copy and one that is not valid yet; one tick, so that a clock reading can fall between any two steps. |
| `ping` | Who gets an answer from Ping, does the confirmation nobody checks hold, is a ping executed once and always answered; do hosts and network implement `PingPromise`? | Two threads, two pings, one token out of three requests (another user's and one with a requested expiry among them), a look-alike token, a missing header; clock to 2, which is past the end of a token of lifetime 1 with tolerance 1. |
| `service_calls` | How does each call of the service end, has a call that failed run, are all four files about the same call? Does every call end, and does the service still implement `PingPromise`? | Two consumers and two threads, since collisions are between two; the test of class `Consumer`, a call without the header, and one with a token for another service. The disk does not fail, so that each lost answer has to come from the other consumer, or its ping (in `ping` the disk may fail, which leaves that clause of `PingPromise` idle); one tick, at which the pings under way expire (validity 0, no tolerance). Tokens that expire at the service are in `ping`; here a client asks for no lifetime, so its token outlives the tick. |
| `consumer_tests` | Does each request of each integration test end with what the test asserts (`TestsGetWhatTheyAssert`), is each security fault due to the very message it answers (`RefusalsHaveACause`), and is each accepted message answered? Besides what it asserts a test may end with the timeout, with a security fault once its message may be late, or with an answer that a log took away, which takes a failing disk or another consumer. | All ten plans, one consumer and one thread, failing disk; clock to 5, past the long delay (4) plus the tolerance. Delays, validity and tolerance keep the order of the real ones: 10 s < 3 s + 8 s for the short delay, and the long one is longer than both. |
| `consumer_users` | Two consumers at once: does each token reach its own requester, does each test get what it asserts, and does every test end? | Two consumers of any of three plans: the plain test, the one with a bootstrap token and its second certificate, and the replay; they share a log folder, and two threads of a host serve them without a log. |
| `rest` | Does each test of the REST consumer get what it asserts, who gets the congratulations, does every test end; does the service implement `RestPromise`? | All plans and one for another CVR; three calls of other clients and one with an unbound path; two threads; clock to 3, past lifetime 1 plus tolerance 1. |
| `wsdl` | Is the description closed, and with Issue alone? Which exports throw? | Every order of the three contracts, every choice of operation policies, and four policies of the endpoint: no TransportBinding, one in place, one elsewhere, one of each. A third one would be removed like the first. |
| `sts_log_history`, `sts_cvr_claim`, `ping_static_text`, `consumer_unlogged` | Four statements of the repository the code does not keep; see section 7. | as above |

Deadlock is checked in the STS host runs. The other configurations switch it off, because
there the clients run out of things to do and the clock stops at its bound.

Bounds are constants: `MaxTime` (clock), `MaxTokens` (tokens issued), `PingIds`, and the
sets `Messages`, `Pings`, `Plans`, `Calls`. They bound what the environment does, never
what the code does: the guard `p \in Pings` of `SendPing` says which pings clients send,
and `Calls` holds every call the consumers of `JwtConsumer` make, as its assumption says,
next to those of `OtherCalls`. The assumption of `StsConsumer` says the same of `Messages`:
every message a plan can sign at any time up to `MaxTime`, damaged or not. That of
`ServiceConsumer` says how the consumers ask for their token (`UsualRequest`): with an
asymmetric key and no lifetime, as `SendRequestSecurityTokenRequest` does. Model values are used for threads, consumers and message ids; no
symmetry is declared, since the liveness runs would not be sound with it and the others
do not need it.

The modules hold, next to some definitions, a *mistaken form* of them: a bug the code could
plausibly have. With the mistaken form in place of the definition TLC finds the property
violated that PROJECT.json names with it; that shows that the property depends on the code.

## 5. Fairness

`FairHostSpec` of `StsConsumer` and `FairSpec` of `EndToEnd` are weak fairness of what each
thread of the host does: the thread pool schedules a thread with work to do, and nothing
in the code waits (a file that is taken throws, it does not block), so one step is always
possible. Nothing is assumed of clients, delivery or the clock.

`FairConsumerSpec`, `FairCallersSpec` and `FairSpec` of `JwtConsumer` are weak fairness of
the consumers' own steps, timeouts among them. Nothing is assumed of host, services or
network, so a test has to end even if they never answer. A sleeping consumer depends on
the clock, for which no fairness is assumed; the plans of `consumer_users` contain no
delay.

## 6. The proofs

Every theorem is for all sets of threads, messages, pings, plans or contracts and every
value of the settings that the named assumptions of the modules allow.

| Module | Theorem | Property |
|---|---|---|
| `StsHostProofs` | `TypeCorrect` | `TypeOK` |
| | `LogFilesAreOwned` | `LogOwnership` |
| | `MessagesAreServedOnce` | `ServedAtMostOnce` |
| | `TokensBelongToTheirRequest` | `TokensMatchTheirRequest` |
| | `ConfirmationsOutliveConditions` | `ConfirmationOutlivesConditions` |
| `StsIssuingProofs` | `HostKeepsThePromise` | `ImplementsTokenIssuing` (refinement) |
| | `LoneRequestsGetTheirDue` | `RepliesAreDue`, for hosts that are `Alone` |
| | `LoneRequestsPairTheLogs` | `LogsPairWhenQuiet`, for hosts that are `Alone` |
| `StsConsumerProofs` | `ConsumerTypesCorrect` | `ConsumerTypeOK` |
| | `TokensGetHome` | `TokensReachTheirRequester` |
| | `ReplaysGetOneToken` | `ReplayGetsOneToken` |
| | `TestsEndAsTheyAssert` | `TestsGetWhatTheyAssert`, under `SettingsOfTheTests` |
| | `RefusalsAreCaused` | `RefusalsHaveACause` (action property), under `SettingsOfTheTests` |
| | `ConsumersUseTheHost` | `ConsumerSpec => Spec`: the host with these clients is the host |
| | `ConsumersGetThePromise` | `ImplementsTokenIssuing` (refinement) |
| `EndToEndProofs` | `TypeCorrect` | `TypeOK` |
| | `PingsRunOnce` | `PingedAtMostOnce` |
| | `OnlyTheEntitledArePinged` | `PingsAreEntitled` |
| | `UncheckedConfirmationsHold` | `ConfirmationHoldsUnchecked` |
| | `SamplesKeepThePromise` | `ImplementsPingPromise` (refinement) |
| `ServiceConsumerProofs` | `CallersTypesCorrect` | `CallerTypeOK` |
| | `CallsGetWhatIsDue` | `CallsEndAsDue` |
| | `RefusedCallsNeverRun` | `RefusedCallsDoNotRun` |
| | `LoneCallsAreLogged` | `LoneCallIsLoggedFourTimes` |
| | `CallersSeeThePromise` | `ImplementsPingPromise` (refinement) |
| `JwtConsumerProofs` | `TypeCorrect` | `TypeOK` |
| | `OnlyTheDueAreCongratulated` | `CongratulationsAreDue` |
| | `TestsEndAsExpected` | `OutcomeIsDue` |
| | `RestServiceKeepsThePromise` | `ImplementsRestPromise` (refinement) |
| `WsdlExportProofs` | `ListsLeaveIssue` | `BindingsImplementPortTypes` |
| | `TheDescriptionIsClosed` | `NothingDangles` |
| | `FailuresAreMisplacedTransports` | `FailedExportsHaveACause` |
| | `ExportsDoNotDisturb` | `EarlierExportsStay` (action property) |

In each module `InitInvariant` and `NextInvariant` show that an invariant `IInv` is
inductive, with one lemma per action or per group of actions that change the same
things; `Invariance` lifts it to the specification and the theorems above follow.

**The STS host.** The properties about tokens look at `answers` alone, where a token appears
only when it is sent; what makes them true is known four steps earlier. The invariant
carries it along: `CallFits` says that a call in stage `scoped` has its own request in the
field, that one in stage `prepared` has a handler built with its own request and a period
that ends no later than the clock then allowed (`PeriodFits`), and that from the stage
`replying` on the reply fits the message (`ReplyFits`). `Remembered` says that whatever
is being served or was answered is in the replay cache; without it nothing excludes a
second delivery. The lemmas on the operators of `StsToken` (`LifetimeType`,
`CreateTokenType`, ...) are in `StsTokenProofs`.

The refinement needs more: which fault or token is *due*. `DueInv` says for each stage
what has been checked so far, that a call that has failed holds either the inspector's
exception or one that is due, and that a reply is due unless the call is *lost*. Accepting a
message, losing an answer to the log and sending an answer are then the three actions of
`TokenIssuing` (`AuthenticateAccepts`, `LogThrowsDisturbs`, `SendReplyAnswers`), and
everything else stutters (`QuietWork`, `ServiceLosesNothing`). That a log that throws
has another message in flight to blame uses `LogOwnership` and `ServedAtMostOnce`.

Two properties are false with two threads and are proved for a host that has one, on a disk
that does not fail (`Alone`): there nothing throws away a reply (`NothingThrowsAlone`), so no
call is ever lost and every reply is due (`UndisturbedInv`, from the refinement's lemmas);
and each log file follows the only call, the request from the dispatch on, the reply from
the moment it is ready to be sent (`LogsFollow`), whichever way the service ended.

**The consumers of the STS.** `CInv` is `IInv` of the host and what its clients rely on.
Every message on its way, in the network (`EntryFits`) or on a thread (`ServiceFits`),
carries the certificate and the request of the test it belongs to, however it was delayed
or damaged (`Owned`), so a reply that fits its message fits the consumer. For a replaying
test there is more: its first message is the one it remembers and will send again, and the
channel knows that message before the second request is sent (`WasReplayed`), because a
test goes on only after a token, and a token means that the message was accepted. The
subtle case is the answer that comes late: the consumer has given up its first request and
is done, while the message is still under way (`UnderWay`).

That every step of consumers and host together is a step of the host or leaves it alone
(`ConsumerStepsAreHostSteps`) carries all that is proved of the host over to it with these
clients, the promise of `TokenIssuing` among it. What the tests assert (`TestInv`) is proved
from that promise: a request that names no lifetime has exactly one verdict that is due
(`DueIsDetermined`), and it is the one its test expects (`PlanExpectsWhatIsDue`), so what is
left to show is that nothing but a log takes a due answer away and that the channel refuses
the right messages. For the latter the invariant knows when each message was dated and that a
delayed one is sent only after its sleep (`EntryDue`), that the channel has seen no message
that is still to be sent (`SeenFits`), and that a consumer has one message under way at most
(`OneUnderWay`), so that the one it waits for cannot be refused on account of an older one. An
answer that is lost has a log to blame (`ServiceDue`, `ClientLogsOwned`), and with it the disk
or another consumer.

Of the security fault of a late message `TestsGetWhatTheyAssert` compares only the clock with
the validity, since the message is gone when the result is looked at. `RefusalsHaveACause` looks
at the step in which the fault is handed out, where the message is still there: its own expiry
has passed, or the test has damaged it or sent it before. It needs one more fact, that no
security fault waits to be logged (`NoFaultToLog`), so that the step which refuses a message is the
only one to hand out such a fault (`NextIsCaused`).

The two theorems hold where `SettingsOfTheTests` does, which is how the tests are run: the client
log is on (`Consumer/app.config:38`; section 7 shows what happens without), the plans are the tests
of class `Consumer`, each with any validity of its timestamp, and the delay of the test that
wants its message to expire is longer than that validity and the tolerance of the channel
together: 302 seconds (`Consumer/MessageModifier.cs:75`) against 1 (`Consumer/Consumer.cs:253`) and 8
(`STS/Web.config:26`). Nothing is asked of the other delay: ten seconds
against 3 and 8 leave one second, and if that is used up on the way the property says that the
test fails.

The proofs rest on the named assumptions on the constants. One of them has content:
`DefaultTokenLifetime + MaxClockSkew <= ConfirmationLifetime`. In the code these are
10 minutes and 100 seconds (`WsTrustServiceConfiguration.cs:32,34`, fixed) and the setting
`MaximumTokenLifetime`, 60 minutes in `STS/Web.config:24`. With a setting below 12 minutes
the theorem about confirmations does not hold, and tokens would leave the STS whose
confirmation ends before their conditions.

**The samples end to end.** Whether the unchecked confirmation holds is decided when the STS makes the token, in another process, so the invariant has two halves:
`WalletFits` says what every token of this STS satisfies (its holder asked for it, it is what
`TokenAt` makes of that very request at some reading of the clock so far, its
confirmation is addressed like its conditions and outlives them, it carries privileges), and `CallFits` that
a ping in service was entitled at the time it was accepted (`EntitledAt`), which the
tokens' expiry does not change later. `ServedOnce` and `LogsOwned` are as in the STS.
The refinement of `PingPromise` has the same shape as the one above.

**The calls of the service.** `CInv` of `ServiceConsumerProofs` is `IInv` of the samples end
to end and what a consumer relies on. Its ping is the only one with its id and carries its
own token, header and a time since it got that token (`OwnPing`, `NetworkFits`); a token
of the STS is bound to the key the ping is signed with (`TokenHeld`). So when the channel
refuses a first copy, of all it checks only the audience or the time can be the reason
(`RefuseInvariant`), and when it refuses another copy, the consumer that sent the first one
does not hear of it. An answer lost to a log file has another consumer to blame
(`LossIsExplained`): on the client's side because that consumer has the file open
(`ClientLogsOwned`), on the service's because its ping is in service
(`LogThrowsExplained`, from `LogThrowsDisturbs`). The same argument, turned round, gives
the log files: a consumer that is alone is the only one to write any of the four, so
`ClientLogFits` and `HostLogFits` need not follow the steps of anybody else. All of this
stays true because who has a token keeps it, time does not turn back and answers are not
taken back (`Frame`).

**The REST service and its consumers.** Each stage of a request on a thread is related to
the principal in its HTTP context, and each stage of a consumer's test to its token, its
call and the answers on their way. The assumption on `OtherCalls` has content: other
clients call the controller's path without a token, or with one the OAuth service did not
sign. It is what the signature check relies on, and without it nothing could be said about
who is congratulated.

For the refinement of `RestPromise` the invariant must also know that every request is in one
place only, on its way, on one thread or answered, and that a consumer's call is none of the
requests of others (`OnceInv`); then one thread's step changes one request's judgement. The
handler's checks and `Entitled` agree (`ValidIsEntitled`) because the OAuth service signs
nothing but what it issues, always with a confirmation and never for the future. The later
stages decide nothing that is not settled already (`LaterStagesDecideNothing`).

**The description.** The port type of an exported contract has its Issue operation and nothing
else, one of a contract not exported yet has none; bindings, messages and policies follow the
port types. So when an endpoint is exported, every port type before the new one is cut already,
the list is empty until the new one is reached, and `Operations.Remove` never throws
whatever the order (`ListedOperations`). What can throw is the removal of a TransportBinding, and that
needs one in the wrong place.

Model-checked only: liveness (`EveryRequestIsAnswered`, `PingsAreAnswered`,
`EveryTestEnds`, `EveryCallEnds`), which needs fairness and is out of the prover's reach.
Every invariant, action property and refinement of the passing runs is a theorem. The four
statements of section 7 are refuted by TLC, there is nothing to prove.

## 7. Where the repository says something else

| Run | Statement | What the code does |
|---|---|---|
| `sts_log_history` | "a folder to store all the received request to this service and its response to client", `STS/readme.md:39` | Every request is written to one fixed file, over the one before (`STS/Code/LogMessageDispatchMessageInspector.cs:42`). `README.md:103` says the like of the consumer. |
| `sts_cvr_claim` | "must contain a CVR claim", `WsTrustSecurityTokenService.cs:120` | Any claim will do; `missingCvr` is computed and not read. |
| `ping_static_text` | "returns a statically configured text message", `README.md:9` | For tokens with privileges, all those of the STS, `Ping` returns message id and privileges. |
| `consumer_unlogged` | "how to handle Error response in case of sending a RST with wrong format", `Consumer/Consumer.cs:153` | The modifier is part of the log behaviour (`ConnectionHelper.cs:147-148`); with the log off the message is well-formed and gets a token. |

Smaller ones, seen while reading and not worth a run: the comment of
`DummyAppliesToError` (`STS/Code/Constants.cs:27`) says that the STS throws for it, but it
does not look at it; the error logged for other OnBehalfOf tokens
(`WsTrustSecurityTokenService.cs:145`) asks for SAML 2.0 or X.509, and a token is issued
all the same; the comment at `Consumer/MessageModifier.cs:51` says that the ten seconds'
delay makes the message expire, which the test at `Consumer.cs:227` relies on not
happening.

## 8. Plan

Done: the STS with its host, log and abstract specification, and its safety proofs; the
ping service with its own abstract specification, and the path from token to ping; the
consumers' STS tests and their calls of the service; the REST service with its consumer;
the metadata export.

Done as well: proofs of every safety property the runs check, for the STS host, the samples
end to end, the consumers of both, the REST service with its consumer and the description, and
of the three refinements, those of the two hosts also with their consumers in front.

What is left to add: the part of liveness that needs no fairness, namely that a test or a
request in service only ever moves on, as action properties with a rank that no step raises.
