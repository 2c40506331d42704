----------------------------- MODULE RestPromise -----------------------------
(***************************************************************************)
(* What the REST service promises, without handler, filter, controller or   *)
(* the principal they share: it takes a request at most once, judges it in   *)
(* one step by the request and the clock alone, and answers as it judged.    *)
(***************************************************************************)
EXTENDS Integers

CONSTANTS Calls, JwtCvr, JwtClockSkew

VARIABLES
    now,        \* the clock
    issued,     \* the tokens the OAuth service has issued
    accepted,   \* the requests the service has taken
    judged,     \* the requests it has decided about, with their status
    answered    \* those of judged whose answer was given

vars == <<now, issued, accepted, judged, answered>>

Init ==
    /\ now = 0
    /\ issued = {}
    /\ accepted = {}
    /\ judged = {}
    /\ answered = {}

\* The caller has a token of the OAuth service, for the certificate it calls with,
\* in time.
Entitled(r) ==
    /\ r.token \in issued
    /\ r.token.confirmation = r.certificate
    /\ now <= r.token.expires + JwtClockSkew

StatusIsDue(r, status) ==
    \/ /\ r.path = "api"
       /\ Entitled(r)
       /\ status = IF r.token.cvr = JwtCvr THEN "OK" ELSE "Forbidden"
    \/ /\ r.path = "api"
       /\ ~Entitled(r)
       /\ status = "Unauthorized"
    \/ /\ r.path = "nested api"
       /\ status \in {"Unauthorized", "NotFound"}
    \/ /\ r.path = "other"
       /\ status = "NotFound"

\* Tokens are issued and time passes: nothing is promised about either.
Environment ==
    /\ issued \subseteq issued'
    /\ now <= now'
    /\ UNCHANGED <<accepted, judged, answered>>

Accept(r) ==
    /\ r \notin accepted
    /\ accepted' = accepted \cup {r}
    /\ UNCHANGED <<now, issued, judged, answered>>

Judge(r) ==
    /\ r \in accepted
    /\ \A j \in judged : j.request # r
    /\ \E status \in {"OK", "Unauthorized", "Forbidden", "NotFound"} :
          /\ StatusIsDue(r, status)
          /\ judged' = judged \cup {[request |-> r, status |-> status]}
    /\ UNCHANGED <<now, issued, accepted, answered>>

Answer(j) ==
    /\ j \notin answered
    /\ answered' = answered \cup {j}
    /\ UNCHANGED <<now, issued, accepted, judged>>

Next ==
    \/ Environment
    \/ \E r \in Calls : Accept(r) \/ Judge(r)
    \/ \E j \in judged : Answer(j)

Spec == Init /\ [][Next]_vars
=============================================================================
