----------------------------- MODULE MCStsHost -----------------------------
(***************************************************************************)
(* Instances of the token service for TLC.                                  *)
(***************************************************************************)
EXTENDS StsHostProperties

CONSTANTS m1, m2, m3   \* message ids

TheLogFiles == {ReceivedRequest, SentResponse}

NoLifetime == [created |-> Unset, expires |-> Unset]

AnRst == [appliesTo |-> "service", claims |-> {"cvr"}, onBehalfOf |-> NoOnBehalfOf,
          keyType |-> "asymmetric", secondaryKeyType |-> "none", lifetime |-> NoLifetime]

AMessage == [id |-> m1, certificate |-> "client", intact |-> TRUE, wellFormed |-> TRUE,
             created |-> 0, expires |-> 1, rst |-> AnRst]

\* One client after the other: certificates, scopes and claims together, every
\* OnBehalfOf token, every key type and every lifetime.
ScopesAndUsers ==
    {[AMessage EXCEPT !.certificate = certificate, !.rst.appliesTo = appliesTo,
                      !.rst.claims = claims, !.rst.onBehalfOf = onBehalfOf] :
        certificate \in Certificates, appliesTo \in AppliesTos,
        claims \in {{}, {"cvr"}, {"other"}},
        onBehalfOf \in {NoOnBehalfOf, [kind |-> "unreadable", who |-> "none"]}}

OnBehalf ==
    {[AMessage EXCEPT !.certificate = certificate, !.rst.onBehalfOf = onBehalfOf] :
        certificate \in Certificates, onBehalfOf \in OnBehalfOfs}

SomeLifetimes ==
    {NoLifetime} \cup {[created |-> Unset, expires |-> e] : e \in {1, 3}}
                 \cup {[created |-> c, expires |-> Unset] : c \in {0, 1, 2}}
                 \cup {[created |-> 1, expires |-> e] : e \in {0, 1, 2, 3, 4}}

Keys ==
    {[AMessage EXCEPT !.rst.keyType = keyType, !.rst.secondaryKeyType = secondary] :
        keyType \in KeyTypes, secondary \in KeyTypes \cup {"none"}}

SerialMessages ==
    ScopesAndUsers \cup OnBehalf \cup Keys
        \cup {[AMessage EXCEPT !.rst.lifetime = lifetime] : lifetime \in SomeLifetimes}
        \cup {[AMessage EXCEPT !.wellFormed = FALSE], [AMessage EXCEPT !.intact = FALSE]}

\* Concurrent clients: a user, another user's request to another service, a
\* request on behalf of that user, a request that is refused, and copies of
\* the first one that are damaged or late.
ConcurrentMessages ==
    {AMessage,
     [AMessage EXCEPT !.intact = FALSE],
     [AMessage EXCEPT !.id = m2, !.certificate = "onBehalfOf", !.created = 1, !.expires = 2,
                      !.rst.appliesTo = "bootstrap",
                      !.rst.lifetime = [created |-> Unset, expires |-> 2]],
     [AMessage EXCEPT !.id = m3,
                      !.rst.onBehalfOf = [kind |-> "saml2", who |-> "Maren Jensdatter"],
                      !.rst.secondaryKeyType = "bearer"],
     [AMessage EXCEPT !.id = m3, !.rst.appliesTo = "noconnectionfound"]}
=============================================================================
