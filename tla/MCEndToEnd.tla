----------------------------- MODULE MCEndToEnd -----------------------------
(***************************************************************************)
(* Instances of the composed samples for TLC.                               *)
(***************************************************************************)
EXTENDS EndToEnd

TheLogFiles == {ReceivedRequest, SentResponse}

ARequest == [certificate |-> "client",
             rst |-> [appliesTo |-> "service", claims |-> {"cvr"},
                      onBehalfOf |-> NoOnBehalfOf, keyType |-> "asymmetric",
                      secondaryKeyType |-> "none",
                      lifetime |-> [created |-> Unset, expires |-> Unset]]]

\* A user's token for the service, one with a requested expiry, and another
\* user's bootstrap token.
SomeRequests ==
    {ARequest,
     [ARequest EXCEPT !.rst.lifetime.expires = 2],
     [ARequest EXCEPT !.certificate = "onBehalfOf", !.rst.appliesTo = "bootstrap"]}

OneRequest == {ARequest}

OnlyMatching == {"urn:liberty:sb:profile:basic"}
MatchingOrMissing == OnlyMatching \cup {"missing"}

\* A look-alike signed by somebody else.
SomeForeignTokens == {[TokenAt(ARequest, 1) EXCEPT !.issuer = "other"]}
NoForeignTokens == {}

ThePings ==
    [id : PingIds, signer : {"client", "onBehalfOf"}, framework : Headers,
     created : 0 .. MaxTime, expires : PingValidity .. MaxTime + PingValidity,
     token : {TokenAt(request, clock) : request \in Requests, clock \in 0 .. MaxTime}
             \cup ForeignTokens]
=============================================================================
