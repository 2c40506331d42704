---------------------------- MODULE TokenIssuing ----------------------------
(***************************************************************************)
(* What the security token service promises, whatever threads, instances    *)
(* and log files it is built from: every message is served at most once,    *)
(* the answer depends on that message and the clock alone, and an answer    *)
(* other than the one the message calls for needs a reason outside of it:   *)
(* another message in flight at the same host, or a disk that fails.        *)
(***************************************************************************)
EXTENDS StsToken

CONSTANTS Messages, DiskMayFail

VARIABLES
    accepted,   \* the messages the service has taken
    disturbed,  \* those in flight whose proper answer is lost
    answers,    \* the answers given, with the message each belongs to
    now         \* the clock

vars == <<accepted, disturbed, answers, now>>

InFlight == {m \in accepted : \A a \in answers : a.message # m}

\* The fault code a well-behaved client expects, in the order of the checks.
Refusable(m) == ~m.wellFormed \/ m.rst.appliesTo = "missing"
NoConnection(m) == m.rst.appliesTo = "noconnectionfound"
Scoped(m) == ~Refusable(m) /\ ~NoConnection(m)
NoMappedUser(m) == m.certificate = "stsService"
NoClaims(m) == m.rst.claims = {}
Unreadable(m) == m.rst.onBehalfOf.kind = "unreadable"
Nameless(m) == m.rst.onBehalfOf = [kind |-> "saml2", who |-> "none"]

\* The period a request asks for when the clock shows "clock", and the periods a
\* token may have then: not empty, at most as long as the longest lifetime, and
\* neither over nor yet to come by more than the tolerance.
Asked(m, clock) ==
    LET start == IF m.rst.lifetime.created = Unset THEN clock ELSE m.rst.lifetime.created
    IN [notBefore |-> start,
        notOnOrAfter |-> IF m.rst.lifetime.expires = Unset
                         THEN start + DefaultTokenLifetime ELSE m.rst.lifetime.expires]
Acceptable(period, clock) ==
    /\ period.notBefore < period.notOnOrAfter
    /\ period.notOnOrAfter <= period.notBefore + MaximumTokenLifetime
    /\ period.notBefore - MaxClockSkew <= clock
    /\ clock <= period.notOnOrAfter + MaxClockSkew

\* The clock was read no later than "latest".
FaultIsDue(m, code, latest) ==
    \/ code = "5002" /\ m.wellFormed /\ NoConnection(m)
    \/ code = "5607" /\ Scoped(m) /\ NoMappedUser(m)
    \/ code = "5015" /\ Scoped(m) /\ ~NoMappedUser(m) /\ NoClaims(m)
    \/ code = "Sender" /\ Scoped(m) /\ ~NoMappedUser(m) /\ ~NoClaims(m) /\ Unreadable(m)
    \/ code = "5050" /\ m.wellFormed /\ m.rst.appliesTo = "missing"
    \/ code = "5050" /\ Scoped(m) /\ ~NoMappedUser(m) /\ ~NoClaims(m) /\ Nameless(m)
    \/ code = "InvalidRequest" /\ ~m.wellFormed
    \/ /\ code = "InvalidRequest" /\ Scoped(m)
       /\ \E clock \in 0 .. latest : ~Acceptable(Asked(m, clock), clock)

\* The token speaks about the sender and the OnBehalfOf token of this message
\* only, is addressed where it asked and valid for the period it asked for, and its
\* confirmation outlives it.
TokenIsDue(m, token, latest) ==
    /\ Scoped(m) /\ ~NoMappedUser(m) /\ ~NoClaims(m)
    /\ ~Unreadable(m) /\ ~Nameless(m)
    /\ token.recipient = m.rst.appliesTo
    /\ token.audience = m.rst.appliesTo
    /\ IF m.rst.onBehalfOf = NoOnBehalfOf
       THEN /\ token.subject = GetSubjectNameId(m.certificate)
            /\ token.confirmedBy = "none"
       ELSE token.confirmedBy = GetSubjectNameId(m.certificate)
    /\ m.rst.onBehalfOf.kind = "saml2" => token.subject = m.rst.onBehalfOf.who
    /\ "AssuranceLevel 1" \in token.attributes
          <=> m.certificate = "client" /\ m.rst.onBehalfOf = NoOnBehalfOf
    /\ token.method = "bearer" <=>
          "bearer" = IF m.rst.secondaryKeyType # "none"
                     THEN m.rst.secondaryKeyType ELSE m.rst.keyType
    /\ \E clock \in 0 .. latest : /\ token.conditions = Asked(m, clock)
                                  /\ Acceptable(token.conditions, clock)
    /\ token.conditions.notOnOrAfter <= token.confirmationExpires

ReplyIsDue(m, reply, latest) ==
    \/ reply.kind = "token" /\ TokenIsDue(m, reply, latest)
    \/ reply.kind = "fault" /\ FaultIsDue(m, reply.code, latest)

Disturbance(reply) ==
    \/ reply.kind = "fault of last resort"
    \/ reply.kind = "fault" /\ reply.code = "5050"

Init ==
    /\ accepted = {}
    /\ disturbed = {}
    /\ answers = {}
    /\ now = 0

Accept(m) ==
    /\ \A a \in accepted : a.id # m.id
    /\ accepted' = accepted \cup {m}
    /\ UNCHANGED <<disturbed, answers, now>>

Disturb(m) ==
    /\ m \in InFlight
    /\ DiskMayFail \/ \E other \in InFlight : other # m
    /\ disturbed' = disturbed \cup {m}
    /\ UNCHANGED <<accepted, answers, now>>

Answer(m) ==
    /\ m \in InFlight
    /\ \E a \in answers' :
          /\ answers' = answers \cup {a}
          /\ a.message = m
          /\ \/ m \notin disturbed /\ ReplyIsDue(m, a.reply, now)
             \/ m \in disturbed /\ Disturbance(a.reply)
    /\ disturbed' = disturbed \ {m}
    /\ UNCHANGED <<accepted, now>>

Tick == now' = now + 1 /\ UNCHANGED <<accepted, disturbed, answers>>

Next == Tick \/ \E m \in Messages : Accept(m) \/ Disturb(m) \/ Answer(m)

Spec == Init /\ [][Next]_vars
=============================================================================
