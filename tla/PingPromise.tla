----------------------------- MODULE PingPromise -----------------------------
(***************************************************************************)
(* What the web service promises to the holder of a token, whatever threads *)
(* and log files it is built from and whichever of its checks its handlers  *)
(* override: it takes a ping at most once, and only with a token the STS     *)
(* issued for it to the sender, in time by the conditions of the token and   *)
(* by its confirmation data; and it answers what the ping calls for, unless  *)
(* another ping in service or a failing disk disturbs it.                    *)
(***************************************************************************)
EXTENDS Integers

CONSTANTS Pings, ServiceClockSkew, DiskMayFail

VARIABLES
    now,        \* the clock
    wallet,     \* the tokens the STS has issued
    accepted,   \* the pings the service has taken
    disturbed,  \* those in service whose proper answer is lost
    answers     \* the answers given, with the ping each belongs to

vars == <<now, wallet, accepted, disturbed, answers>>

Init ==
    /\ now = 0
    /\ wallet = {}
    /\ accepted = {}
    /\ disturbed = {}
    /\ answers = {}

InService == {p \in accepted : \A a \in answers : a.ping # p}

Entitled(p) ==
    /\ p.token \in wallet
    /\ p.signer = p.token.holder
    /\ p.token.content.audience = "service"
    /\ p.token.content.recipient = "service"
    /\ now < p.token.content.conditions.notOnOrAfter + ServiceClockSkew
    /\ now < p.token.content.confirmationExpires + ServiceClockSkew

\* Every token of the STS has privileges, so the configured text is never due.
AnswerIsDue(p, reply) ==
    IF p.framework = "urn:liberty:sb:profile:basic"
    THEN reply = [kind |-> "response", text |-> "privileges"]
    ELSE reply = [kind |-> "fault", code |-> "FrameworkVersionMismatch"]

Disturbances == {[kind |-> "fault", code |-> "InternalServiceFault"],
                 [kind |-> "fault of last resort"]}

\* The STS issues tokens and time passes: nothing is promised about either.
Environment ==
    /\ wallet \subseteq wallet'
    /\ now <= now'
    /\ UNCHANGED <<accepted, disturbed, answers>>

Accept(p) ==
    /\ \A a \in accepted : a.id # p.id
    /\ Entitled(p)
    /\ accepted' = accepted \cup {p}
    /\ UNCHANGED <<now, wallet, disturbed, answers>>

Disturb(p) ==
    /\ p \in InService
    /\ DiskMayFail \/ \E other \in InService : other # p
    /\ disturbed' = disturbed \cup {p}
    /\ UNCHANGED <<now, wallet, accepted, answers>>

Answer(p) ==
    /\ p \in InService
    /\ \E a \in answers' :
          /\ answers' = answers \cup {a}
          /\ a.ping = p
          /\ IF p \in disturbed THEN a.reply \in Disturbances ELSE AnswerIsDue(p, a.reply)
    /\ disturbed' = disturbed \ {p}
    /\ UNCHANGED <<now, wallet, accepted>>

Next == Environment \/ \E p \in Pings : Accept(p) \/ Disturb(p) \/ Answer(p)

Spec == Init /\ [][Next]_vars
=============================================================================
