----------------------------- MODULE JwtConsumer -----------------------------
(***************************************************************************)
(* The consumers of the REST service.  Each one asks an OAuth token service *)
(* outside the samples for a token and calls the REST service with it; both *)
(* HTTP exchanges can time out, and what is under way then arrives late.    *)
(***************************************************************************)
EXTENDS RestApi

CONSTANTS
    Consumers,
    Plans,        \* the tests a consumer may run
    OtherCalls,   \* requests the REST service gets from other clients
    JwtLifetime,  \* lifetime of the tokens of the OAuth service
    MaxTime       \* bound on the clock

\* The OAuth service: a token for the certificate of the connection and the CVR
\* of the scope, an error, or a page of its web server.
Granted(p) == p.clientId = "valid" /\ p.scope # "invalid"
TokenAt(p, clock) ==
    [signer |-> "sts", issuer |-> "sts", confirmation |-> p.askWith, cvr |-> p.scope,
     notBefore |-> clock, expires |-> clock + JwtLifetime]

\* GetAsync's request, with the token and the certificate of its connection.
CallWith(c, token, certificate) ==
    [id |-> c, path |-> "api", authorization |-> "token",
     token |-> token, certificate |-> certificate]

\* Calls has every call a consumer may make.  Other clients hold no token of the
\* OAuth service that would take them to the controller.
ASSUME JwtConsumerAssumption ==
    /\ \A p \in Plans : /\ p.clientId \in {"valid", "invalid"}
                        /\ p.scope \in Cvrs \cup {"invalid"}
                        /\ p.askWith \in Certificates
                        /\ p.callWith \in Certificates
                        /\ p.calls \in BOOLEAN
    /\ \A c \in Consumers, p \in Plans, clock \in 0..MaxTime :
          Granted(p) => CallWith(c, TokenAt(p, clock), p.callWith) \in Calls
    /\ OtherCalls \subseteq Calls
    /\ \A r \in OtherCalls : r.path = "api" => r.token = Nobody \/ r.token.signer # "sts"
    /\ "absent" \notin Certificates
    /\ JwtLifetime \in Nat
    /\ MaxTime \in Nat

VARIABLES
    plan,       \* plan[c]: the test c runs
    job,        \* job[c]: how far it is, its token and what it ended with
    asked,      \* the consumers whose request is under way to the OAuth service
    answers,    \* the answers of the OAuth service that are under way
    issued,     \* the tokens it has issued
    calls       \* the HTTP requests under way to the REST service

consumerVars == <<plan, job, asked, answers, issued, calls>>
vars == <<apiVars, now, consumerVars>>

Answers == [kind : {"token"}, token : Jwts] \cup [kind : {"error", "html"}]
Outcomes == Statuses \cup {"invalid_request", "validated", "exception"}

\* Types of both modules' variables.
TypeOK ==
    /\ ApiTypeOK
    /\ now \in 0..MaxTime
    /\ plan \in [Consumers -> Plans]
    /\ job \in [Consumers -> [stage : {"ready", "asking", "holding", "calling", "done"},
                              token : Jwts \cup {Nobody}, outcome : Outcomes \cup {Nobody}]]
    /\ asked \subseteq Consumers
    /\ answers \subseteq [to : Consumers, answer : Answers]
    /\ issued \subseteq Jwts
    /\ calls \subseteq Calls

Init ==
    /\ ApiInit
    /\ now = 0
    /\ plan \in [Consumers -> Plans]
    /\ job = [c \in Consumers |-> [stage |-> "ready", token |-> Nobody, outcome |-> Nobody]]
    /\ asked = {}
    /\ answers = {}
    /\ issued = {}
    /\ calls = OtherCalls

Goes(c, stage) == job' = [job EXCEPT ![c].stage = stage]
Ends(c, outcome) ==
    job' = [job EXCEPT ![c].stage = "done", ![c].outcome = outcome]

-----------------------------------------------------------------------------
(* SendRESTOAuthRequest. *)

\* Post, with an HttpClient of its own.
Post(c) ==
    /\ job[c].stage = "ready"
    /\ Goes(c, "asking")
    /\ asked' = asked \cup {c}
    /\ UNCHANGED <<apiVars, now, plan, answers, issued, calls>>

OAuthIssues(c) ==
    LET token == TokenAt(plan[c], now)
    IN /\ c \in asked
       /\ Granted(plan[c])
       /\ asked' = asked \ {c}
       /\ issued' = issued \cup {token}
       /\ answers' = answers \cup {[to |-> c, answer |-> [kind |-> "token", token |-> token]]}
       /\ UNCHANGED <<apiVars, now, plan, job, calls>>

OAuthRefuses(c) ==
    /\ c \in asked
    /\ asked' = asked \ {c}
    /\ \E kind \in {"html"} \cup (IF Granted(plan[c]) THEN {} ELSE {"error"}) :
          answers' = answers \cup {[to |-> c, answer |-> [kind |-> kind]]}
    /\ UNCHANGED <<apiVars, now, plan, job, issued, calls>>

\* The body of the answer is parsed as JSON, whatever it is.
ReceiveAnswer(c) ==
    /\ job[c].stage = "asking"
    /\ \E a \in answers :
          /\ a.to = c
          /\ \/ /\ a.answer.kind = "token"
                /\ job' = [job EXCEPT ![c].stage = "holding", ![c].token = a.answer.token]
             \/ a.answer.kind = "error" /\ Ends(c, "invalid_request")
             \/ a.answer.kind = "html" /\ Ends(c, "exception")
          /\ answers' = answers \ {a}
    /\ UNCHANGED <<apiVars, now, plan, asked, issued, calls>>

\* Mistaken form of PostTimesOut: the three seconds start when the service has
\* taken the request.
PostTimesOutTaken(c) ==
    /\ job[c].stage = "asking"
    /\ c \notin asked
    /\ Ends(c, "exception")
    /\ UNCHANGED <<apiVars, now, plan, asked, answers, issued, calls>>

\* After three seconds task.Result throws out of the continuation.
PostTimesOut(c) ==
    /\ job[c].stage = "asking"
    /\ Ends(c, "exception")
    /\ UNCHANGED <<apiVars, now, plan, asked, answers, issued, calls>>

-----------------------------------------------------------------------------
(* ValidateToken of the consumer, which reads the token itself. *)

InScope(token, p) == token.cvr = p.scope

\* GetTokenInfo throws for a claim type that comes twice, and the look-up for one
\* that does not come; both depend on the OAuth service alone.
ValidateToken(c) ==
    /\ job[c].stage = "holding"
    /\ ~plan[c].calls
    /\ \/ InScope(job[c].token, plan[c]) /\ Ends(c, "validated")
       \/ Ends(c, "exception")
    /\ UNCHANGED <<apiVars, now, plan, asked, answers, issued, calls>>

-----------------------------------------------------------------------------
(* The call of the REST service. *)

CallOf(c) == CallWith(c, job[c].token, plan[c].callWith)

GetAsync(c) ==
    /\ job[c].stage = "holding"
    /\ plan[c].calls
    /\ calls' = calls \cup {CallOf(c)}
    /\ Goes(c, "calling")
    /\ UNCHANGED <<apiVars, now, plan, asked, answers, issued>>

ReceiveResponse(c) ==
    /\ job[c].stage = "calling"
    /\ \E r \in responses : r.request = CallOf(c) /\ Ends(c, r.status)
    /\ UNCHANGED <<apiVars, now, plan, asked, answers, issued, calls>>

CallTimesOut(c) ==
    /\ job[c].stage = "calling"
    /\ Ends(c, "exception")
    /\ UNCHANGED <<apiVars, now, plan, asked, answers, issued, calls>>

Deliver(t, r) ==
    /\ Accept(t, r)
    /\ calls' = calls \ {r}
    /\ UNCHANGED <<now, plan, job, asked, answers, issued>>

Serve(t) == Work(t) /\ UNCHANGED <<now, consumerVars>>

Tick ==
    /\ now < MaxTime
    /\ now' = now + 1
    /\ UNCHANGED <<apiVars, consumerVars>>

Consume(c) ==
    \/ Post(c) \/ ReceiveAnswer(c) \/ PostTimesOut(c) \/ ValidateToken(c)
    \/ GetAsync(c) \/ ReceiveResponse(c) \/ CallTimesOut(c)

Next ==
    \/ \E c \in Consumers : Consume(c) \/ OAuthIssues(c) \/ OAuthRefuses(c)
    \/ \E t \in Threads, r \in calls : Deliver(t, r)
    \/ \E t \in Threads : Serve(t)
    \/ Tick

Spec == Init /\ [][Next]_vars

\* A consumer that can go on does, its timeouts included; nothing is assumed of
\* the services or the network.
FairSpec == Spec /\ \A c \in Consumers : WF_vars(Consume(c))

-----------------------------------------------------------------------------
(* The tests of StsOAuthConsumer; the scope and the client id that are wrong    *)
(* in them are wrong for the OAuth service.                                     *)

SendOAuthRequestAndCallRESTAPISuccessfully ==
    [clientId |-> "valid", scope |-> JwtCvr, askWith |-> "client", callWith |-> "client",
     calls |-> TRUE]

\* SendOAuthObORequestSuccessfully has another scope, with the same context.
SendOAuthRequestSuccessfully ==
    [SendOAuthRequestAndCallRESTAPISuccessfully EXCEPT !.calls = FALSE]

SendOAuthRequestAndCallRESTAPIFailedBecauseOfWrongClientCertificateX5t ==
    [SendOAuthRequestAndCallRESTAPISuccessfully EXCEPT !.callWith = "client 2"]

SendOAuthRequestInvalidClientIdError ==
    [SendOAuthRequestAndCallRESTAPISuccessfully EXCEPT !.clientId = "invalid"]

SendOAuthRequestInvalidScopeError ==
    [SendOAuthRequestAndCallRESTAPISuccessfully EXCEPT !.scope = "invalid"]

-----------------------------------------------------------------------------
\* "Congratulations!" goes only to a caller that holds, under the certificate of
\* its connection, a token issued for the configured CVR and still valid when
\* it was checked, however the pipeline's threads interleave.
CongratulationsAreDue ==
    \A r \in responses : r.status = "OK" =>
        /\ r.request.token \in issued
        /\ r.request.token.confirmation = r.request.certificate
        /\ r.request.token.cvr = JwtCvr
        /\ r.checked <= r.request.token.expires + JwtClockSkew

\* What StsOAuthConsumer's tests expect: the wrong certificate is unauthorized,
\* an invalid client or scope is an invalid request, and the right ones reach
\* the controller unless the CVR is another one or the token has expired.
Expected(c) ==
    IF ~Granted(plan[c]) THEN {"invalid_request"}
    ELSE IF ~plan[c].calls THEN {"validated"}
    ELSE IF plan[c].askWith # plan[c].callWith THEN {"Unauthorized"}
    ELSE {IF plan[c].scope = JwtCvr THEN "OK" ELSE "Forbidden"}
         \cup (IF now > job[c].token.expires + JwtClockSkew THEN {"Unauthorized"} ELSE {})

OutcomeIsDue ==
    \A c \in Consumers :
        job[c].stage = "done" /\ job[c].outcome # "exception"
            => job[c].outcome \in Expected(c)

\* What the pipeline will answer, known from the moment the message handler is
\* through with the request.
StatusOf(t) ==
    LET r == work[t].request
    IN IF work[t].stage = "answering" THEN work[t].status
       ELSE IF r.path # "api" THEN "NotFound"
       ELSE IF r.token.cvr = JwtCvr THEN "OK"
       ELSE "Forbidden"

Serving == {t \in Threads : work[t].stage # "idle"}
Answered == {[request |-> r.request, status |-> r.status] : r \in responses}
Judged == Answered \cup {[request |-> work[t].request, status |-> StatusOf(t)] :
                            t \in {u \in Serving : work[u].stage # "received"}}
Accepted == {r.request : r \in responses} \cup {work[t].request : t \in Serving}

\* The REST service keeps the promise of module RestPromise: handler, confirmation,
\* route, filter and controller together decide about each request once, by one
\* function of the request and the clock, and that decision is what is answered.
Promise == INSTANCE RestPromise WITH
               accepted <- Accepted, judged <- Judged, answered <- Answered
ImplementsRestPromise == Promise!Spec

\* Every test comes to its end, whatever the services do.
EveryTestEnds == \A c \in Consumers : <>(job[c].stage = "done")
=============================================================================
