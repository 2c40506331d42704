------------------------------ MODULE EndToEnd ------------------------------
(***************************************************************************)
(* Clients that get tokens from the security token service and call the web *)
(* service with them.  The token service appears as what it promises        *)
(* (module TokenIssuing): a token about the request it answers, made in one  *)
(* step.  A ping stays in the network for ever, so it may be delivered late, *)
(* repeatedly, in any order or never.                                       *)
(***************************************************************************)
EXTENDS PingService, FiniteSets

CONSTANTS
    Requests,      \* what clients ask the STS for: a certificate and an RST
    ForeignTokens, \* tokens that do not come from the STS
    MaxTokens,     \* bound on the tokens issued
    PingIds,       \* the message ids clients may use
    Headers,       \* the framework headers they send
    PingValidity,  \* how long the timestamp of a ping is valid
    MaxTime        \* bound on the clock

ASSUME EndToEndAssumption ==
    /\ \A r \in Requests : r.certificate \in Certificates /\ r.rst \in Rsts
    /\ ForeignTokens \subseteq {f \in IssuedTokens : f.issuer # "sts"}
    /\ Headers \subseteq Frameworks
    /\ MaxTokens \in Nat
    /\ PingValidity \in Nat
    /\ MaxTime \in Nat

VARIABLES
    wallet,   \* the tokens the STS has issued
    sent      \* the pings in the network

vars == <<writer, logged, call, seen, replies, now, wallet, sent>>

TypeOK ==
    /\ ServiceTypeOK
    /\ now \in Nat
    /\ wallet \subseteq {token \in IssuedTokens : token.issuer = "sts"}
    /\ sent \subseteq Pings

Init ==
    /\ ServiceInit
    /\ now = 0
    /\ wallet = {}
    /\ sent = {}

\* The checks of the STS, one step after the other without an exception.
WouldIssue(request) ==
    LET principal == Principal(request.certificate)
        period == GetTokenLifetime(request.rst.lifetime, now)
    IN /\ KnownCertificate(request.certificate)
       /\ ScopeException(request.rst) = NoException
       /\ LifetimeException(period, now) = NoException
       /\ ClaimsException(principal, request.rst) = NoException
       /\ SubjectException(principal, WithSecondaryParameters(request.rst)) = NoException

\* The token made for a request when the clock says so, bound to the client's
\* key, as its RST asks for with UseKey.
TokenAt(request, clock) ==
    [type |-> "saml2", issuer |-> "sts", holder |-> request.certificate,
     content |-> CreateToken(Principal(request.certificate), request.rst,
                             WithSecondaryParameters(request.rst),
                             GetTokenLifetime(request.rst.lifetime, clock), clock)]

TokenFor(request) == TokenAt(request, now)

\* SendRequestSecurityTokenRequest.
Obtain(request) ==
    /\ Cardinality(wallet) < MaxTokens
    /\ WouldIssue(request)
    /\ wallet' = wallet \cup {TokenFor(request)}
    /\ UNCHANGED <<serviceVars, now, sent>>

\* GenerateServiceChannel and Ping: a client sends one message with a token, its
\* own or not, signed with its own key.
SendPing(id, token, signer, framework) ==
    LET p == [id |-> id, token |-> token, signer |-> signer, framework |-> framework,
              created |-> now, expires |-> now + PingValidity]
    IN /\ \A q \in sent : q.id # id
       /\ token \in wallet \cup ForeignTokens
       /\ p \in Pings
       /\ sent' = sent \cup {p}
       /\ UNCHANGED <<serviceVars, now, wallet>>

Deliver(t, p) ==
    /\ Authenticate(t, p)
    /\ UNCHANGED <<now, wallet, sent>>

Serve(t) == Work(t) /\ UNCHANGED <<now, wallet, sent>>

Tick ==
    /\ now < MaxTime
    /\ now' = now + 1
    /\ UNCHANGED <<serviceVars, wallet, sent>>

Next ==
    \/ \E request \in Requests : Obtain(request)
    \/ \E id \in PingIds, token \in wallet \cup ForeignTokens,
          signer \in {"client", "onBehalfOf"}, framework \in Headers :
             SendPing(id, token, signer, framework)
    \/ \E t \in Threads, p \in sent : Deliver(t, p)
    \/ \E t \in Threads : Serve(t)
    \/ Tick

Spec == Init /\ [][Next]_vars

\* The service's host schedules every thread that has work to do.
FairSpec == Spec /\ \A t \in Threads : WF_vars(Serve(t))

-----------------------------------------------------------------------------
Responses == {r \in replies : r.reply.kind = "response"}

\* Whoever gets an answer from Ping sent the very token that the STS made, before
\* the ping was accepted, of a request for this service signed with the same key
\* as the ping, and sent it in time: what ValidateToken, the audience restriction
\* and the binding check together.
PingsAreEntitled ==
    \A r \in Responses :
        LET token == r.ping.token
        IN /\ token \in wallet
           /\ \E request \in Requests, clock \in 0 .. r.accepted :
                 /\ token = TokenAt(request, clock)
                 /\ request.certificate = r.ping.signer
                 /\ request.rst.appliesTo = "service"
           /\ r.accepted < token.content.conditions.notOnOrAfter + ServiceClockSkew

\* ValidateConfirmationData is overridden to check nothing, since the base class
\* refuses any confirmation with a recipient (ID4157), and those of the STS all
\* have one; the recipient's value and the expiry go unchecked with it.  Even so
\* the confirmation of every ping that is accepted is addressed to this service
\* and has not expired.
ConfirmationHoldsUnchecked ==
    \A r \in replies :
        /\ r.ping.token.content.recipient = "service"
        /\ r.accepted < r.ping.token.content.confirmationExpires + ServiceClockSkew

\* However often a ping is delivered, it is executed at most once.
PingedAtMostOnce ==
    \A r, s \in replies : r.ping.id = s.ping.id => r = s

\* Every ping the channel accepts is answered: with a response, a fault, or the
\* fault of last resort when its reply cannot be logged.
PingsAreAnswered ==
    \A id \in PingIds :
        (\E p \in seen : p.id = id) ~> (\E r \in replies : r.ping.id = id)

\* The two hosts keep the promise of module PingPromise: recipient and expiry of
\* the confirmation, which the service does not look at, included.
Disturbed ==
    {call[t].ping : t \in {u \in Threads :
        call[u].reply \in {FaultOfLastResort,
                           [kind |-> "fault", code |-> "InternalServiceFault"]}}}
Promise == INSTANCE PingPromise WITH
               accepted <- seen, disturbed <- Disturbed,
               answers <- {[ping |-> r.ping, reply |-> r.reply] : r \in replies}
ImplementsPingPromise == Promise!Spec

\* The README: Ping "returns a statically configured text message".
PingReturnsConfiguredText ==
    \A r \in Responses : r.reply.text = "static"
=============================================================================
