-------------------------- MODULE JwtConsumerProofs --------------------------
(***************************************************************************)
(* Safety of the REST service and its consumers for any number of threads,  *)
(* consumers, plans and requests: types, the tests' expectations,           *)
(* congratulations for those who are due them only, and the refinement of   *)
(* RestPromise.                                                             *)
(***************************************************************************)
EXTENDS JwtConsumer, TLAPS

-----------------------------------------------------------------------------
(* The inductive invariant. *)

\* The token handler, at a given time.
ValidAt(r, clock) ==
    /\ r.authorization = "token"
    /\ r.token.signer = "sts"
    /\ r.token.issuer = "sts"
    /\ r.token.notBefore <= clock + JwtClockSkew
    /\ clock <= r.token.expires + JwtClockSkew
    /\ Confirmed(r)

\* What is known of a consumer that holds a token.
HoldsToken(c) ==
    /\ Granted(plan[c])
    /\ job[c].token \in issued
    /\ \E clock \in 0..now : job[c].token = TokenAt(plan[c], clock)

JobFits(c) ==
    /\ job[c].stage \in {"holding", "calling"} => HoldsToken(c)
    /\ job[c].stage = "calling" => plan[c].calls
    /\ job[c].stage = "done" /\ job[c].outcome # "exception" =>
          /\ Granted(plan[c]) => job[c].token \in Jwts
          /\ job[c].outcome \in Expected(c)

AnswerFits(a) ==
    /\ a.answer.kind = "token" =>
          /\ Granted(plan[a.to])
          /\ a.answer.token \in issued
          /\ \E clock \in 0..now : a.answer.token = TokenAt(plan[a.to], clock)
    /\ a.answer.kind = "error" => ~Granted(plan[a.to])

\* A request that can reach the controller has a token from the OAuth service.
Bears(r) == r.path = "api" /\ r.authorization = "token" /\ r.token.signer = "sts"
RequestFits(r) == r \in Calls /\ (Bears(r) => r.token \in issued)

\* What a status says of the request, checked at some time or not at all.
StatusFits(r, checked, status) ==
    /\ status = "OK" => /\ r.path = "api"
                        /\ ValidAt(r, checked)
                        /\ r.token.cvr = JwtCvr
    /\ status = "Forbidden" => ValidAt(r, checked) /\ r.token.cvr # JwtCvr
    /\ status = "Unauthorized" =>
          \E clock \in 0..now : ~ValidAt(r, clock) /\ (Bears(r) => r.token.notBefore <= clock)
    /\ status = "NotFound" => r.path # "api"

\* What each stage of the pipeline knows about the request it has and its user.
StageFits(w, principal) ==
    LET r == w.request
    IN /\ w.stage # "idle" => RequestFits(r)
       /\ w.stage = "routed" /\ r.path = "api" =>
             principal = r.token /\ ValidAt(r, w.checked)
       /\ w.stage = "authorized" => /\ r.path = "api"
                                    /\ ValidAt(r, w.checked)
                                    /\ r.token.cvr = JwtCvr
       /\ IF w.stage = "answering"
          THEN w.status \in Statuses /\ StatusFits(r, w.checked, w.status)
          ELSE w.status = Nobody

WorkFits(t) == StageFits(work[t], user[t])

IssuedFit ==
    \A token \in issued : token.confirmation \in Certificates /\ token.notBefore <= now
AnswersFit == \A a \in answers : AnswerFits(a)
CallsFit == \A r \in calls : RequestFits(r)
ResponsesFit ==
    \A r \in responses : RequestFits(r.request) /\ StatusFits(r.request, r.checked, r.status)

IInv ==
    /\ TypeOK
    /\ \A c \in Consumers : JobFits(c)
    /\ \A t \in Threads : WorkFits(t)
    /\ IssuedFit
    /\ AnswersFit
    /\ CallsFit
    /\ ResponsesFit

-----------------------------------------------------------------------------
(* Facts that later steps do not take back. *)

\* A clock that goes on keeps what was known of earlier times, and a set of issued
\* tokens that grows keeps what was known of its members.
Onwards ==
    /\ now \in Nat /\ now' \in Nat /\ now <= now'
    /\ issued \subseteq issued'
    /\ plan' = plan

LEMMA RequestStays ==
    ASSUME Onwards, NEW r, RequestFits(r)
    PROVE  RequestFits(r)'
  BY DEF Onwards, RequestFits, Bears

LEMMA StatusStays ==
    ASSUME Onwards, NEW r, NEW checked, NEW status, StatusFits(r, checked, status)
    PROVE  StatusFits(r, checked, status)'
<1>1. 0..now \subseteq 0..now'
  BY DEF Onwards
<1> QED
  BY <1>1 DEF StatusFits, ValidAt, Confirmed, Bears

LEMMA StageStays ==
    ASSUME Onwards, NEW w, NEW principal, StageFits(w, principal)
    PROVE  StageFits(w, principal)'
<1>1. w.stage # "idle" => RequestFits(w.request)'
  <2> PICK r : r = w.request
    OBVIOUS
  <2> QED
    BY RequestStays DEF StageFits
<1>2. w.stage = "answering" => StatusFits(w.request, w.checked, w.status)'
  BY StatusStays DEF StageFits
<1> QED
  BY <1>1, <1>2 DEF StageFits, ValidAt, Confirmed

LEMMA WorkStays ==
    ASSUME Onwards, NEW t \in Threads, WorkFits(t),
           work'[t] = work[t], user'[t] = user[t]
    PROVE  WorkFits(t)'
<1>1. PICK w, principal : w = work[t] /\ principal = user[t]
  OBVIOUS
<1>2. StageFits(w, principal)'
  BY <1>1, StageStays DEF WorkFits
<1> QED
  BY <1>1, <1>2 DEF WorkFits

LEMMA AnswerStays ==
    ASSUME Onwards, NEW a, AnswerFits(a)
    PROVE  AnswerFits(a)'
<1>1. 0..now \subseteq 0..now'
  BY DEF Onwards
<1> QED
  BY <1>1 DEF AnswerFits, Onwards

\* What a test expects at its end it expects for ever after.
LEMMA JobStays ==
    ASSUME Onwards, TypeOK, NEW c \in Consumers, JobFits(c), job'[c] = job[c]
    PROVE  JobFits(c)'
<1>1. 0..now \subseteq 0..now'
  BY DEF Onwards
<1>2. HoldsToken(c) => HoldsToken(c)'
  BY <1>1 DEF HoldsToken, Onwards
<1>3. ASSUME job[c].outcome \in Expected(c), Granted(plan[c]) => job[c].token \in Jwts
      PROVE  job[c].outcome \in Expected(c)'
  <2>1. ASSUME Granted(plan[c]), now > job[c].token.expires + JwtClockSkew
        PROVE  now' > job[c].token.expires + JwtClockSkew
    <3> DEFINE expires == job[c].token.expires
    <3>1. job[c].token \in Jwts
      BY <1>3, <2>1
    <3>2. expires \in Int
      BY <3>1 DEF Jwts
    <3>3. JwtClockSkew \in Nat
      BY RestApiAssumption
    <3>4. now > expires + JwtClockSkew
      BY <2>1
    <3> HIDE DEF expires
    <3>5. now' > expires + JwtClockSkew
      BY <3>2, <3>3, <3>4 DEF Onwards
    <3> QED
      BY <3>5 DEF expires
  <2>2. plan' = plan /\ job'[c] = job[c]
    BY DEF Onwards
  <2> QED
    BY <1>3, <2>1, <2>2 DEF Expected
<1> QED
  BY <1>2, <1>3 DEF JobFits, Onwards
\* All that stays when a step leaves the consumers alone, or the service.
LEMMA OthersStay ==
    ASSUME IInv, Onwards, issued' = issued
    PROVE  /\ \A c \in Consumers : job'[c] = job[c] => JobFits(c)'
           /\ \A t \in Threads : work'[t] = work[t] /\ user'[t] = user[t] => WorkFits(t)'
           /\ IssuedFit'
           /\ answers' \subseteq answers => AnswersFit'
           /\ calls' \subseteq calls => CallsFit'
           /\ responses' = responses => ResponsesFit'
<1>1. \A c \in Consumers : job'[c] = job[c] => JobFits(c)'
  BY JobStays DEF IInv
<1>2. \A t \in Threads : work'[t] = work[t] /\ user'[t] = user[t] => WorkFits(t)'
  BY WorkStays DEF IInv
<1>3. IssuedFit'
  <2> SUFFICES ASSUME NEW token \in issued
               PROVE  token.confirmation \in Certificates /\ token.notBefore <= now'
    BY DEF IssuedFit
  <2>1. /\ token.notBefore \in Int /\ token.notBefore <= now
        /\ token.confirmation \in Certificates
    BY DEF IInv, TypeOK, Jwts, IssuedFit
  <2> QED
    BY <2>1 DEF Onwards
<1>4. answers' \subseteq answers => AnswersFit'
  BY AnswerStays DEF IInv, AnswersFit
<1>5. calls' \subseteq calls => CallsFit'
  BY RequestStays DEF IInv, CallsFit
<1>6. responses' = responses => ResponsesFit'
  BY RequestStays, StatusStays DEF IInv, ResponsesFit
<1> QED
  BY <1>1, <1>2, <1>3, <1>4, <1>5, <1>6

-----------------------------------------------------------------------------
(* Initially. *)

LEMMA InitInvariant == Init => IInv
<1> SUFFICES ASSUME Init PROVE IInv
  OBVIOUS
<1>1. TypeOK
  BY JwtConsumerAssumption DEF Init, ApiInit, TypeOK, ApiTypeOK, IdleWork
<1>2. \A c \in Consumers : JobFits(c)
  BY DEF Init, JobFits
<1>3. \A t \in Threads : WorkFits(t)
  BY DEF Init, ApiInit, IdleWork, WorkFits, StageFits
<1>4. CallsFit
  <2> SUFFICES ASSUME NEW r \in OtherCalls PROVE RequestFits(r)
    BY DEF Init, CallsFit
  <2>1. r \in Calls /\ (r.path = "api" => r.token = Nobody \/ r.token.signer # "sts")
    BY JwtConsumerAssumption
  <2>2. r.token = Nobody => r.authorization # "token"
    BY <2>1, RestApiAssumption
  <2> QED
    BY <2>1, <2>2 DEF RequestFits, Bears
<1>5. IssuedFit /\ AnswersFit /\ ResponsesFit
  BY DEF Init, ApiInit, IssuedFit, AnswersFit, ResponsesFit
<1> QED
  BY <1>1, <1>2, <1>3, <1>4, <1>5 DEF IInv

-----------------------------------------------------------------------------
(* Steps of the REST service. *)

Works == [stage : {"idle", "received", "routed", "authorized", "answering"},
          request : Calls \cup {Nobody}, checked : Nat, status : Statuses \cup {Nobody}]

\* What every action of a thread relies on.
LEMMA WorkType ==
    ASSUME IInv, NEW t \in Threads
    PROVE  /\ work[t] \in Works
           /\ now \in Nat
           /\ StageFits(work[t], user[t])
           /\ work[t].stage # "idle" =>
                 LET r == work[t].request
                 IN /\ r \in Calls
                    /\ r.path \in {"api", "nested api", "other"}
                    /\ r.token \in Jwts \cup {Nobody}
                    /\ r.authorization = "token" => r.token \in Jwts
<1>1. TypeOK /\ WorkFits(t)
  BY DEF IInv
<1>2. work[t] \in Works /\ now \in Nat
  BY <1>1 DEF TypeOK, ApiTypeOK, Works
<1>3. work[t].stage # "idle" => work[t].request \in Calls
  BY <1>1 DEF WorkFits, StageFits, RequestFits
<1> QED
  BY <1>1, <1>2, <1>3, RestApiAssumption DEF WorkFits

\* A thread that goes on has to care about its own request and user only.
LEMMA WorkStep ==
    ASSUME IInv, NEW t \in Threads, NEW w \in Works, Continue(t, w),
           NEW principal \in Jwts \cup {Nobody}, user' = [user EXCEPT ![t] = principal],
           UNCHANGED <<responses, now, consumerVars>>,
           StageFits(w, principal)
    PROVE  IInv'
<1>1. TypeOK /\ now \in Nat
  BY WorkType DEF IInv
<1>2. Onwards /\ UNCHANGED <<plan, job, asked, answers, issued, calls>>
  BY <1>1 DEF Onwards, consumerVars
<1>3. /\ work' \in [Threads -> Works] /\ user' \in [Threads -> Jwts \cup {Nobody}]
      /\ work'[t] = w /\ user'[t] = principal
      /\ \A u \in Threads : u # t => work'[u] = work[u] /\ user'[u] = user[u]
  BY <1>1 DEF Continue, TypeOK, ApiTypeOK, Works
<1>4. TypeOK'
  BY <1>1, <1>2, <1>3 DEF TypeOK, ApiTypeOK, Works
<1>5. \A u \in Threads : WorkFits(u)'
  <2>1. StageFits(w, principal)'
    BY <1>2, StageStays
  <2>2. WorkFits(t)'
    BY <1>3, <2>1 DEF WorkFits
  <2> QED
    BY <1>2, <1>3, <2>2, OthersStay
<1> QED
  BY <1>2, <1>4, <1>5, OthersStay DEF IInv

LEMMA DeliverInvariant ==
    ASSUME IInv, NEW t \in Threads, NEW r \in calls, Deliver(t, r)
    PROVE  IInv'
<1>1. PICK w : w = [work[t] EXCEPT !.stage = "received", !.request = r]
  OBVIOUS
<1>2. /\ work[t].stage = "idle"
      /\ work' = [work EXCEPT ![t] = w]
      /\ user' = [user EXCEPT ![t] = Nobody]
      /\ calls' = calls \ {r}
      /\ UNCHANGED <<responses, now, plan, job, asked, answers, issued>>
  BY <1>1 DEF Deliver, Accept, Continue, Context
<1>3. /\ TypeOK /\ now \in Nat /\ work[t] \in Works /\ StageFits(work[t], user[t])
      /\ RequestFits(r)
  BY WorkType DEF IInv, CallsFit
<1>4. w \in Works /\ w.stage = "received" /\ w.request = r /\ w.status = Nobody
  BY <1>1, <1>2, <1>3 DEF Works, RequestFits, StageFits
<1>5. Onwards
  BY <1>2, <1>3 DEF Onwards
<1>6. /\ work' \in [Threads -> Works] /\ user' \in [Threads -> Jwts \cup {Nobody}]
      /\ work'[t] = w /\ user'[t] = Nobody
      /\ \A u \in Threads : u # t => work'[u] = work[u] /\ user'[u] = user[u]
  BY <1>2, <1>3, <1>4 DEF TypeOK, ApiTypeOK, Works
<1>7. TypeOK'
  BY <1>2, <1>3, <1>6 DEF TypeOK, ApiTypeOK, Works
<1>8. StageFits(w, Nobody)
  BY <1>3, <1>4 DEF StageFits
<1>9. WorkFits(t)'
  <2>1. StageFits(w, Nobody)'
    BY <1>5, <1>8, StageStays
  <2> QED
    BY <1>6, <2>1 DEF WorkFits
<1>10. \A u \in Threads : WorkFits(u)'
  BY <1>2, <1>5, <1>6, <1>9, OthersStay
<1> QED
  BY <1>2, <1>5, <1>7, <1>10, OthersStay DEF IInv

\* A thread that has an answer for the request it serves.
LEMMA RespondInvariant ==
    ASSUME IInv, NEW t \in Threads, NEW status \in Statuses, Respond(t, status),
           work[t].stage # "idle",
           StatusFits(work[t].request, work[t].checked, status),
           UNCHANGED <<user, responses, now, consumerVars>>
    PROVE  IInv'
<1>1. PICK w : w = [work[t] EXCEPT !.stage = "answering", !.status = status]
  OBVIOUS
<1>2. work[t] \in Works /\ RequestFits(work[t].request)
  BY WorkType DEF StageFits
<1>3. /\ w \in Works /\ w.stage = "answering" /\ w.request = work[t].request
      /\ w.checked = work[t].checked /\ w.status = status
  BY <1>1, <1>2 DEF Works
<1>4. StageFits(w, user[t])
  BY <1>2, <1>3 DEF StageFits
<1>5. user \in [Threads -> Jwts \cup {Nobody}] /\ user' = [user EXCEPT ![t] = user[t]]
  BY DEF IInv, TypeOK, ApiTypeOK
<1>6. PICK principal \in Jwts \cup {Nobody} : principal = user[t]
  BY <1>5
<1>7. Continue(t, w)
  BY <1>1 DEF Respond
<1> QED
  BY <1>3, <1>4, <1>5, <1>6, <1>7, WorkStep

\* SendAsync: what ValidAt says of now is what the token handler checks.
LEMMA SendAsyncInvariant ==
    ASSUME IInv, NEW t \in Threads, SendAsync(t), UNCHANGED <<now, consumerVars>>
    PROVE  IInv'
<1>1. PICK r : r = work[t].request
  OBVIOUS
<1>2. work[t].stage = "received" /\ UNCHANGED responses
  BY DEF SendAsync
<1>3. /\ work[t] \in Works /\ now \in Nat /\ r.token \in Jwts \cup {Nobody}
      /\ RequestFits(r) /\ work[t].status = Nobody
  BY <1>1, <1>2, WorkType DEF StageFits
<1>4. Valid(r) <=> ValidAt(r, now)
  BY DEF Valid, ValidJwt, ValidAt
<1>5. user \in [Threads -> Jwts \cup {Nobody}]
  BY DEF IInv, TypeOK, ApiTypeOK
<1>6. CASE ~CanHandle(r) /\ Continue(t, [work[t] EXCEPT !.stage = "routed"]) /\ UNCHANGED user
  <2>1. PICK w : w = [work[t] EXCEPT !.stage = "routed"]
    OBVIOUS
  <2>2. w \in Works /\ w.stage = "routed" /\ w.request = r /\ w.status = Nobody
    BY <1>1, <1>3, <2>1 DEF Works
  <2>3. PICK principal \in Jwts \cup {Nobody} : principal = user[t]
    BY <1>5
  <2>4. Continue(t, w) /\ user' = [user EXCEPT ![t] = principal]
    BY <1>5, <1>6, <2>1, <2>3
  <2>5. StageFits(w, principal)
    BY <1>3, <1>6, <2>2 DEF StageFits, CanHandle
  <2> QED
    BY <1>2, <2>2, <2>4, <2>5, WorkStep
<1>7. CASE /\ Valid(r)
           /\ user' = [user EXCEPT ![Context(t)] = r.token]
           /\ Continue(t, [work[t] EXCEPT !.stage = "routed", !.checked = now])
  <2>1. PICK w : w = [work[t] EXCEPT !.stage = "routed", !.checked = now]
    OBVIOUS
  <2>2. /\ w \in Works /\ w.stage = "routed" /\ w.request = r /\ w.status = Nobody
        /\ w.checked = now
    BY <1>1, <1>3, <2>1 DEF Works
  <2>3. Continue(t, w) /\ user' = [user EXCEPT ![t] = r.token]
    BY <1>7, <2>1 DEF Context
  <2>4. StageFits(w, r.token)
    BY <1>3, <1>4, <1>7, <2>2 DEF StageFits
  <2> QED
    BY <1>2, <1>3, <2>2, <2>3, <2>4, WorkStep
<1>8. CASE ~Valid(r) /\ Respond(t, "Unauthorized") /\ UNCHANGED user
  <2>1. Bears(r) => r.token.notBefore <= now
    BY <1>3 DEF IInv, IssuedFit, RequestFits
  <2>2. StatusFits(r, work[t].checked, "Unauthorized")
    BY <1>3, <1>4, <1>8, <2>1 DEF StatusFits
  <2> QED
    BY <1>1, <1>2, <1>8, <2>2, RespondInvariant DEF Statuses
<1> QED
  BY <1>1, <1>6, <1>7, <1>8 DEF SendAsync

LEMMA RouteNotFoundInvariant ==
    ASSUME IInv, NEW t \in Threads, RouteNotFound(t), UNCHANGED <<now, consumerVars>>
    PROVE  IInv'
<1>1. StatusFits(work[t].request, work[t].checked, "NotFound")
  BY DEF StatusFits, RouteNotFound
<1> QED
  BY <1>1, RespondInvariant DEF RouteNotFound, Statuses

\* The principal the filter finds is the one SendAsync left for this request.
LEMMA OnAuthorizationAsyncInvariant ==
    ASSUME IInv, NEW t \in Threads, OnAuthorizationAsync(t), UNCHANGED <<now, consumerVars>>
    PROVE  IInv'
<1>1. PICK r : r = work[t].request
  OBVIOUS
<1>2. /\ work[t].stage = "routed" /\ r.path = "api" /\ UNCHANGED <<user, responses>>
      /\ IF user[t] = Nobody \/ user[t].cvr # JwtCvr
         THEN Respond(t, "Forbidden")
         ELSE Continue(t, [work[t] EXCEPT !.stage = "authorized"])
  BY <1>1 DEF OnAuthorizationAsync, Context
<1>3. /\ work[t] \in Works /\ RequestFits(r) /\ work[t].status = Nobody
      /\ user[t] = r.token /\ ValidAt(r, work[t].checked)
  BY <1>1, <1>2, WorkType DEF StageFits
<1>4. r.token \in Jwts /\ r.token # Nobody
  BY <1>1, <1>2, <1>3, WorkType, RestApiAssumption DEF ValidAt
<1>5. CASE r.token.cvr # JwtCvr
  <2>1. StatusFits(r, work[t].checked, "Forbidden")
    BY <1>3, <1>5 DEF StatusFits
  <2> QED
    BY <1>1, <1>2, <1>3, <1>5, <2>1, RespondInvariant DEF Statuses
<1>6. CASE r.token.cvr = JwtCvr
  <2>1. PICK w : w = [work[t] EXCEPT !.stage = "authorized"]
    OBVIOUS
  <2>2. /\ w \in Works /\ w.stage = "authorized" /\ w.request = r /\ w.status = Nobody
        /\ w.checked = work[t].checked
    BY <1>1, <1>3, <2>1 DEF Works
  <2>3. Continue(t, w)
    BY <1>2, <1>3, <1>4, <1>6, <2>1
  <2>4. user \in [Threads -> Jwts \cup {Nobody}] /\ user' = [user EXCEPT ![t] = r.token]
    BY <1>2, <1>3 DEF IInv, TypeOK, ApiTypeOK
  <2>5. StageFits(w, r.token)
    BY <1>2, <1>3, <1>6, <2>2 DEF StageFits
  <2> QED
    BY <1>2, <1>4, <2>2, <2>3, <2>4, <2>5, WorkStep
<1> QED
  BY <1>5, <1>6

LEMMA PingInvariant ==
    ASSUME IInv, NEW t \in Threads, Ping(t), UNCHANGED <<now, consumerVars>>
    PROVE  IInv'
<1>1. StatusFits(work[t].request, work[t].checked, "OK")
  BY WorkType DEF StageFits, StatusFits, Ping
<1> QED
  BY <1>1, RespondInvariant DEF Ping, Statuses

LEMMA SendResponseInvariant ==
    ASSUME IInv, NEW t \in Threads, SendResponse(t), UNCHANGED <<now, consumerVars>>
    PROVE  IInv'
<1>1. PICK r : r = [request |-> work[t].request, checked |-> work[t].checked,
                    status |-> work[t].status]
  OBVIOUS
<1>2. /\ work[t].stage = "answering"
      /\ responses' = responses \cup {r}
      /\ work' = [work EXCEPT ![t] = IdleWork]
      /\ UNCHANGED <<user, now, plan, job, asked, answers, issued, calls>>
  BY <1>1 DEF SendResponse, Continue, consumerVars
<1>3. /\ TypeOK /\ now \in Nat /\ work[t] \in Works /\ r.request \in Calls
      /\ RequestFits(r.request) /\ r.status \in Statuses
      /\ StatusFits(r.request, r.checked, r.status)
  BY <1>1, <1>2, WorkType DEF IInv, StageFits
<1>4. IdleWork \in Works /\ IdleWork.stage = "idle" /\ IdleWork.status = Nobody
  BY DEF IdleWork, Works
<1>5. Onwards
  BY <1>2, <1>3 DEF Onwards
<1>6. /\ work' \in [Threads -> Works] /\ work'[t] = IdleWork
      /\ \A u \in Threads : u # t => work'[u] = work[u] /\ user'[u] = user[u]
  BY <1>2, <1>3, <1>4 DEF TypeOK, ApiTypeOK, Works
<1>7. TypeOK'
  <2>1. r \in [request : Calls, checked : Nat, status : Statuses]
    BY <1>1, <1>3 DEF Works
  <2> QED
    BY <1>2, <1>3, <1>6, <2>1 DEF TypeOK, ApiTypeOK, Works
<1>8. \A u \in Threads : WorkFits(u)'
  <2>1. WorkFits(t)'
    BY <1>4, <1>6 DEF WorkFits, StageFits
  <2> QED
    BY <1>2, <1>5, <1>6, <2>1, OthersStay
<1>9. ResponsesFit'
  <2>1. RequestFits(r.request)' /\ StatusFits(r.request, r.checked, r.status)'
    BY <1>3, <1>5, RequestStays, StatusStays
  <2>2. \A s \in responses : RequestFits(s.request)' /\ StatusFits(s.request, s.checked, s.status)'
    BY <1>5, RequestStays, StatusStays DEF IInv, ResponsesFit
  <2> QED
    BY <1>2, <2>1, <2>2 DEF ResponsesFit
<1> QED
  BY <1>2, <1>5, <1>7, <1>8, <1>9, OthersStay DEF IInv
LEMMA ServeInvariant ==
    ASSUME IInv, NEW t \in Threads, Serve(t)
    PROVE  IInv'
  BY SendAsyncInvariant, RouteNotFoundInvariant, OnAuthorizationAsyncInvariant,
     PingInvariant, SendResponseInvariant
     DEF Serve, Work

-----------------------------------------------------------------------------
(* Steps of the consumers. *)

Jobs == [stage : {"ready", "asking", "holding", "calling", "done"},
         token : Jwts \cup {Nobody}, outcome : Outcomes \cup {Nobody}]

LEMMA JobType ==
    ASSUME IInv, NEW c \in Consumers
    PROVE  job[c] \in Jobs /\ plan[c] \in Plans /\ now \in Nat /\ JobFits(c)
  BY JwtConsumerAssumption DEF IInv, TypeOK, Jobs

\* A consumer that goes on, with nothing new from the OAuth service and at most
\* one more call under way.
LEMMA JobStep ==
    ASSUME IInv, NEW c \in Consumers, NEW j \in Jobs, job' = [job EXCEPT ![c] = j],
           asked' \subseteq Consumers, answers' \subseteq answers,
           CallsFit',
           UNCHANGED <<apiVars, now, plan, issued>>,
           job'[c] = j => JobFits(c)'
    PROVE  IInv'
<1>1. TypeOK /\ now \in Nat
  BY JobType DEF IInv
<1>2. Onwards /\ UNCHANGED <<work, user, responses, now, plan, issued>>
  BY <1>1 DEF Onwards, apiVars
<1>3. /\ job' \in [Consumers -> Jobs]
      /\ job'[c] = j
      /\ \A d \in Consumers : d # c => job'[d] = job[d]
  BY <1>1 DEF TypeOK, Jobs
<1>4. calls' \subseteq Calls
  BY DEF CallsFit, RequestFits
<1>5. TypeOK'
  BY <1>1, <1>2, <1>3, <1>4 DEF TypeOK, ApiTypeOK, Jobs
<1>6. \A d \in Consumers : JobFits(d)'
  BY <1>2, <1>3, OthersStay
<1> QED
  BY <1>2, <1>5, <1>6, OthersStay DEF IInv

\* Whatever stops a test with an exception breaks no expectation.
LEMMA EndsInvariant ==
    ASSUME IInv, NEW c \in Consumers, Ends(c, "exception"),
           asked' \subseteq Consumers, answers' \subseteq answers,
           UNCHANGED <<apiVars, now, plan, issued, calls>>
    PROVE  IInv'
<1>1. PICK j : j = [job[c] EXCEPT !.stage = "done", !.outcome = "exception"]
  OBVIOUS
<1>2. j \in Jobs /\ j.stage = "done" /\ j.outcome = "exception"
  BY <1>1, JobType DEF Jobs, Outcomes
<1>3. job' = [job EXCEPT ![c] = j]
  BY <1>1 DEF Ends
<1>4. job'[c] = j => JobFits(c)'
  BY <1>2 DEF JobFits
<1>5. CallsFit'
  <2>1. Onwards
    BY JobType DEF Onwards
  <2> QED
    BY <2>1, OthersStay
<1> QED
  BY <1>2, <1>3, <1>4, <1>5, JobStep

LEMMA PostInvariant ==
    ASSUME IInv, NEW c \in Consumers, Post(c)
    PROVE  IInv'
<1>1. PICK j : j = [job[c] EXCEPT !.stage = "asking"]
  OBVIOUS
<1>2. j \in Jobs /\ j.stage = "asking"
  BY <1>1, JobType DEF Jobs
<1>3. /\ job' = [job EXCEPT ![c] = j] /\ asked' = asked \cup {c}
      /\ UNCHANGED <<apiVars, now, plan, answers, issued, calls>>
  BY <1>1 DEF Post, Goes
<1>4. job'[c] = j => JobFits(c)'
  BY <1>2 DEF JobFits
<1>5. CallsFit' /\ asked' \subseteq Consumers
  <2>1. Onwards
    BY <1>3, JobType DEF Onwards
  <2> QED
    BY <1>3, <2>1, OthersStay DEF IInv, TypeOK
<1> QED
  BY <1>2, <1>3, <1>4, <1>5, JobStep

\* A token is the one granted to the plan of the consumer it goes to.
LEMMA ReceiveAnswerInvariant ==
    ASSUME IInv, NEW c \in Consumers, ReceiveAnswer(c)
    PROVE  IInv'
<1>1. PICK a \in answers :
         /\ a.to = c
         /\ \/ /\ a.answer.kind = "token"
               /\ job' = [job EXCEPT ![c].stage = "holding", ![c].token = a.answer.token]
            \/ a.answer.kind = "error" /\ Ends(c, "invalid_request")
            \/ a.answer.kind = "html" /\ Ends(c, "exception")
         /\ answers' = answers \ {a}
  BY DEF ReceiveAnswer
<1>2. UNCHANGED <<apiVars, now, plan, asked, issued, calls>>
  BY DEF ReceiveAnswer
<1>3. Onwards /\ AnswerFits(a) /\ job[c] \in Jobs /\ TypeOK
  BY <1>2, JobType DEF Onwards, IInv, AnswersFit
<1>4. CallsFit' /\ asked' \subseteq Consumers /\ answers' \subseteq answers
  BY <1>1, <1>2, <1>3, OthersStay DEF TypeOK
<1>5. CASE /\ a.answer.kind = "token"
           /\ job' = [job EXCEPT ![c].stage = "holding", ![c].token = a.answer.token]
  <2>1. PICK j : j = [job[c] EXCEPT !.stage = "holding", !.token = a.answer.token]
    OBVIOUS
  <2>2. a.answer.token \in Jwts
    BY <1>3, <1>5 DEF AnswerFits, TypeOK
  <2>3. j \in Jobs /\ j.stage = "holding" /\ j.token = a.answer.token
    BY <1>3, <2>1, <2>2 DEF Jobs
  <2>4. job' = [job EXCEPT ![c] = j]
    BY <1>5, <2>1
  <2>5. /\ Granted(plan[c]) /\ j.token \in issued
        /\ \E clock \in 0..now : j.token = TokenAt(plan[c], clock)
    BY <1>1, <1>3, <1>5, <2>3 DEF AnswerFits
  <2>6. job'[c] = j => JobFits(c)'
    BY <1>2, <2>3, <2>5 DEF JobFits, HoldsToken
  <2> QED
    BY <1>2, <1>4, <2>3, <2>4, <2>6, JobStep
<1>6. CASE a.answer.kind = "error" /\ Ends(c, "invalid_request")
  <2>1. PICK j : j = [job[c] EXCEPT !.stage = "done", !.outcome = "invalid_request"]
    OBVIOUS
  <2>2. j \in Jobs /\ j.stage = "done" /\ j.outcome = "invalid_request"
    BY <1>3, <2>1 DEF Jobs, Outcomes
  <2>3. job' = [job EXCEPT ![c] = j]
    BY <1>6, <2>1 DEF Ends
  <2>4. job'[c] = j => JobFits(c)'
    BY <1>1, <1>2, <1>3, <1>6, <2>2 DEF JobFits, Expected, AnswerFits
  <2> QED
    BY <1>2, <1>4, <2>2, <2>3, <2>4, JobStep
<1>7. CASE Ends(c, "exception")
  BY <1>2, <1>4, <1>7, EndsInvariant
<1> QED
  BY <1>1, <1>5, <1>6, <1>7

LEMMA ValidateTokenInvariant ==
    ASSUME IInv, NEW c \in Consumers, ValidateToken(c)
    PROVE  IInv'
<1>1. /\ job[c].stage = "holding" /\ ~plan[c].calls
      /\ UNCHANGED <<apiVars, now, plan, asked, answers, issued, calls>>
  BY DEF ValidateToken
<1>2. Onwards /\ HoldsToken(c) /\ job[c] \in Jobs /\ TypeOK
  BY <1>1, JobType DEF Onwards, IInv, JobFits
<1>3. CallsFit' /\ asked' \subseteq Consumers /\ answers' \subseteq answers
  BY <1>1, <1>2, OthersStay DEF TypeOK
<1>4. CASE Ends(c, "validated")
  <2>1. PICK j : j = [job[c] EXCEPT !.stage = "done", !.outcome = "validated"]
    OBVIOUS
  <2>2. /\ j \in Jobs /\ j.stage = "done" /\ j.outcome = "validated"
        /\ j.token = job[c].token
    BY <1>2, <2>1 DEF Jobs, Outcomes
  <2>3. job' = [job EXCEPT ![c] = j]
    BY <1>4, <2>1 DEF Ends
  <2>4. j.token \in Jwts
    BY <1>2, <2>2 DEF HoldsToken, TypeOK
  <2>5. job'[c] = j => JobFits(c)'
    BY <1>1, <1>2, <2>2, <2>4 DEF JobFits, Expected, HoldsToken
  <2> QED
    BY <1>1, <1>3, <2>2, <2>3, <2>5, JobStep
<1>5. CASE Ends(c, "exception")
  BY <1>1, <1>3, <1>5, EndsInvariant
<1> QED
  BY <1>4, <1>5 DEF ValidateToken

\* The call carries the token the OAuth service issued for the plan.
LEMMA GetAsyncInvariant ==
    ASSUME IInv, NEW c \in Consumers, GetAsync(c)
    PROVE  IInv'
<1>1. PICK r, j : r = CallOf(c) /\ j = [job[c] EXCEPT !.stage = "calling"]
  OBVIOUS
<1>2. /\ job[c].stage = "holding" /\ plan[c].calls
      /\ calls' = calls \cup {r} /\ job' = [job EXCEPT ![c] = j]
      /\ UNCHANGED <<apiVars, now, plan, asked, answers, issued>>
  BY <1>1 DEF GetAsync, Goes
<1>3. Onwards /\ HoldsToken(c) /\ job[c] \in Jobs /\ TypeOK /\ plan[c] \in Plans
  BY <1>2, JobType DEF Onwards, IInv, JobFits
<1>4. j \in Jobs /\ j.stage = "calling" /\ j.token = job[c].token
  BY <1>1, <1>3 DEF Jobs
<1>5. r \in Calls
  <2>1. PICK clock \in 0..now : job[c].token = TokenAt(plan[c], clock)
    BY <1>3 DEF HoldsToken
  <2>2. clock \in 0..MaxTime
    <3>1. MaxTime \in Nat /\ now \in 0..MaxTime
      BY <1>3, JwtConsumerAssumption DEF TypeOK
    <3> QED
      BY <3>1
  <2> QED
    BY <1>1, <1>3, <2>1, <2>2, JwtConsumerAssumption DEF HoldsToken, CallOf
<1>6. RequestFits(r)
  <2>1. r.token = job[c].token
    BY <1>1 DEF CallOf, CallWith
  <2> QED
    BY <1>3, <1>5, <2>1 DEF RequestFits, HoldsToken
<1>7. CallsFit'
  BY <1>2, <1>3, <1>6, RequestStays DEF IInv, CallsFit
<1>8. job'[c] = j => JobFits(c)'
  BY <1>2, <1>3, <1>4 DEF JobFits, HoldsToken
<1>9. asked' \subseteq Consumers /\ answers' \subseteq answers
  BY <1>2, <1>3 DEF TypeOK
<1> QED
  BY <1>2, <1>4, <1>7, <1>8, <1>9, JobStep

\* What the service answered is what the test of this consumer expects, whenever
\* the token was checked after it was issued.
LEMMA ResponseExpected ==
    ASSUME IInv, NEW c \in Consumers, job[c].stage = "calling",
           NEW r \in responses, r.request = CallOf(c)
    PROVE  r.status \in Expected(c) /\ job[c].token \in Jwts
<1>1. PICK p : p = plan[c]
  OBVIOUS
<1>2. PICK token : token = job[c].token
  OBVIOUS
<1>3. PICK q : q = r.request
  OBVIOUS
<1>4. /\ p \in Plans /\ now \in Nat /\ HoldsToken(c) /\ p.calls
      /\ StatusFits(q, r.checked, r.status) /\ r.status \in Statuses /\ token \in Jwts
  BY <1>1, <1>2, <1>3, JobType
     DEF JobFits, HoldsToken, IInv, ResponsesFit, TypeOK, ApiTypeOK
<1>5. PICK issuedAt \in 0..now : token = TokenAt(p, issuedAt)
  BY <1>1, <1>2, <1>4 DEF HoldsToken
<1>6. /\ q.path = "api" /\ q.authorization = "token" /\ q.token = token
      /\ q.certificate = p.callWith
  BY <1>1, <1>2, <1>3 DEF CallOf, CallWith
<1>7. /\ token.signer = "sts" /\ token.issuer = "sts" /\ token.confirmation = p.askWith
      /\ token.cvr = p.scope /\ token.notBefore = issuedAt
  BY <1>5 DEF TokenAt
<1>8. Confirmed(q) <=> p.askWith = p.callWith
  <2>1. p.askWith # "absent" /\ p.callWith # Nobody
    BY <1>4, JwtConsumerAssumption, RestApiAssumption
  <2> QED
    BY <1>6, <1>7, <2>1 DEF Confirmed
<1>9. Granted(plan[c]) /\ plan[c] = p /\ job[c].token = token
  BY <1>1, <1>2, <1>4 DEF HoldsToken
<1>10. CASE r.status \in {"OK", "Forbidden"}
  <2>1. p.askWith = p.callWith
    BY <1>4, <1>8, <1>10 DEF StatusFits, ValidAt
  <2>2. r.status = IF p.scope = JwtCvr THEN "OK" ELSE "Forbidden"
    BY <1>4, <1>6, <1>7, <1>10 DEF StatusFits
  <2> QED
    BY <1>4, <1>9, <2>1, <2>2 DEF Expected
<1>11. CASE r.status = "Unauthorized"
  <2>1. PICK clock \in 0..now : ~ValidAt(q, clock) /\ (Bears(q) => q.token.notBefore <= clock)
    BY <1>4, <1>11 DEF StatusFits
  <2>2. q.token.notBefore <= clock
    BY <1>6, <1>7, <2>1 DEF Bears
  <2>3. CASE p.askWith # p.callWith
    BY <1>4, <1>9, <1>11, <2>3 DEF Expected
  <2>4. CASE p.askWith = p.callWith
    <3>1. ~(token.notBefore <= clock + JwtClockSkew /\ clock <= token.expires + JwtClockSkew)
      BY <1>6, <1>7, <1>8, <2>1, <2>4 DEF ValidAt
    <3>2. token.notBefore \in Int /\ token.expires \in Int
      BY <1>4 DEF Jwts
    <3>3. JwtClockSkew \in Nat
      BY RestApiAssumption
    <3>4. now > token.expires + JwtClockSkew
      BY <1>4, <1>6, <2>1, <2>2, <3>1, <3>2, <3>3
    <3> QED
      BY <1>4, <1>9, <1>11, <2>4, <3>4 DEF Expected
  <2> QED
    BY <2>3, <2>4
<1>12. r.status # "NotFound"
  BY <1>4, <1>6 DEF StatusFits
<1> QED
  BY <1>2, <1>4, <1>10, <1>11, <1>12 DEF Statuses

LEMMA ReceiveResponseInvariant ==
    ASSUME IInv, NEW c \in Consumers, ReceiveResponse(c)
    PROVE  IInv'
<1>1. PICK r \in responses : r.request = CallOf(c) /\ Ends(c, r.status)
  BY DEF ReceiveResponse
<1>2. /\ job[c].stage = "calling"
      /\ UNCHANGED <<apiVars, now, plan, asked, answers, issued, calls>>
  BY DEF ReceiveResponse
<1>3. Onwards /\ job[c] \in Jobs /\ TypeOK
  BY <1>2, JobType DEF Onwards, IInv
<1>4. PICK j : j = [job[c] EXCEPT !.stage = "done", !.outcome = r.status]
  OBVIOUS
<1>5. /\ j \in Jobs /\ j.stage = "done" /\ j.outcome = r.status
      /\ j.token = job[c].token
  BY <1>3, <1>4 DEF Jobs, Outcomes, TypeOK, ApiTypeOK
<1>6. job' = [job EXCEPT ![c] = j]
  BY <1>1, <1>4 DEF Ends
<1>7. job'[c] = j => JobFits(c)'
  <2>1. r.status \in Expected(c) /\ j.token \in Jwts
    BY <1>1, <1>2, <1>5, ResponseExpected
  <2> QED
    BY <1>2, <1>5, <2>1 DEF JobFits, Expected
<1>8. CallsFit' /\ asked' \subseteq Consumers /\ answers' \subseteq answers
  BY <1>2, <1>3, OthersStay DEF TypeOK
<1> QED
  BY <1>2, <1>5, <1>6, <1>7, <1>8, JobStep

LEMMA ConsumeInvariant ==
    ASSUME IInv, NEW c \in Consumers, Consume(c)
    PROVE  IInv'
<1>1. CASE PostTimesOut(c) \/ CallTimesOut(c)
  <2>1. /\ Ends(c, "exception")
        /\ UNCHANGED <<apiVars, now, plan, asked, answers, issued, calls>>
    BY <1>1 DEF PostTimesOut, CallTimesOut
  <2>2. asked' \subseteq Consumers /\ answers' \subseteq answers
    BY <2>1 DEF IInv, TypeOK
  <2> QED
    BY <2>1, <2>2, EndsInvariant
<1> QED
  BY <1>1, PostInvariant, ReceiveAnswerInvariant, ValidateTokenInvariant,
     GetAsyncInvariant, ReceiveResponseInvariant
     DEF Consume

-----------------------------------------------------------------------------
(* Steps of the OAuth service, and time. *)

LEMMA OAuthIssuesInvariant ==
    ASSUME IInv, NEW c \in Consumers, OAuthIssues(c)
    PROVE  IInv'
<1>1. PICK token, a : /\ token = TokenAt(plan[c], now)
                      /\ a = [to |-> c, answer |-> [kind |-> "token", token |-> token]]
  OBVIOUS
<1>2. /\ Granted(plan[c])
      /\ asked' = asked \ {c} /\ issued' = issued \cup {token}
      /\ answers' = answers \cup {a}
      /\ UNCHANGED <<work, user, responses, now, plan, job, calls>>
  BY <1>1 DEF OAuthIssues, apiVars
<1>3. TypeOK /\ plan[c] \in Plans /\ now \in Nat
  BY JobType DEF IInv
<1>4. Onwards
  BY <1>2, <1>3 DEF Onwards
<1>5. token \in Jwts
  <2>1. plan[c].scope \in Cvrs /\ plan[c].askWith \in Confirmations
    BY <1>2, <1>3, JwtConsumerAssumption DEF Granted, Confirmations
  <2>2. now + JwtLifetime \in Int
    BY <1>3, JwtConsumerAssumption
  <2> QED
    BY <1>1, <1>3, <2>1, <2>2 DEF TokenAt, Jwts
<1>6. TypeOK'
  <2>1. a \in [to : Consumers, answer : Answers]
    BY <1>1, <1>5 DEF Answers
  <2> QED
    BY <1>2, <1>3, <1>5, <2>1 DEF TypeOK, ApiTypeOK
<1>7. \A d \in Consumers : JobFits(d)'
  BY <1>2, <1>3, <1>4, JobStays DEF IInv
<1>8. \A t \in Threads : WorkFits(t)'
  BY <1>2, <1>4, WorkStays DEF IInv
<1>9. IssuedFit'
  BY <1>1, <1>2, <1>3, JwtConsumerAssumption DEF IInv, IssuedFit, TokenAt
<1>10. AnswersFit'
  <2>1. AnswerFits(a)'
    <3>1. a.to = c /\ a.answer.kind = "token" /\ a.answer.token = token
      BY <1>1
    <3>2. now \in 0..now
      BY <1>3
    <3> QED
      BY <1>1, <1>2, <3>1, <3>2 DEF AnswerFits
  <2>2. \A b \in answers : AnswerFits(b)'
    BY <1>4, AnswerStays DEF IInv, AnswersFit
  <2> QED
    BY <1>2, <2>1, <2>2 DEF AnswersFit
<1>11. CallsFit'
  BY <1>2, <1>4, RequestStays DEF IInv, CallsFit
<1>12. ResponsesFit'
  BY <1>2, <1>4, RequestStays, StatusStays DEF IInv, ResponsesFit
<1> QED
  BY <1>6, <1>7, <1>8, <1>9, <1>10, <1>11, <1>12 DEF IInv

LEMMA OAuthRefusesInvariant ==
    ASSUME IInv, NEW c \in Consumers, OAuthRefuses(c)
    PROVE  IInv'
<1>1. PICK kind \in {"html"} \cup (IF Granted(plan[c]) THEN {} ELSE {"error"}) :
         answers' = answers \cup {[to |-> c, answer |-> [kind |-> kind]]}
  BY DEF OAuthRefuses
<1>2. PICK a : a = [to |-> c, answer |-> [kind |-> kind]]
  OBVIOUS
<1>3. /\ asked' = asked \ {c}
      /\ UNCHANGED <<work, user, responses, now, plan, job, issued, calls>>
  BY DEF OAuthRefuses, apiVars
<1>4. Onwards /\ TypeOK
  BY <1>3, JobType DEF Onwards, IInv
<1>5. TypeOK'
  <2>1. a \in [to : Consumers, answer : Answers]
    BY <1>1, <1>2 DEF Answers
  <2> QED
    BY <1>1, <1>2, <1>3, <1>4, <2>1 DEF TypeOK, ApiTypeOK
<1>6. AnswersFit'
  <2>1. AnswerFits(a)'
    BY <1>1, <1>2, <1>3 DEF AnswerFits
  <2>2. \A b \in answers : AnswerFits(b)'
    BY <1>4, AnswerStays DEF IInv, AnswersFit
  <2> QED
    BY <1>1, <1>2, <2>1, <2>2 DEF AnswersFit
<1> QED
  BY <1>3, <1>4, <1>5, <1>6, OthersStay DEF IInv

LEMMA TickInvariant ==
    ASSUME IInv, Tick
    PROVE  IInv'
<1>1. /\ now < MaxTime /\ now' = now + 1
      /\ UNCHANGED <<work, user, responses, plan, job, asked, answers, issued, calls>>
  BY DEF Tick, apiVars, consumerVars
<1>2. TypeOK /\ now \in Nat /\ MaxTime \in Nat
  BY JwtConsumerAssumption DEF IInv, TypeOK
<1>3. Onwards
  BY <1>1, <1>2 DEF Onwards
<1>4. TypeOK'
  BY <1>1, <1>2 DEF TypeOK, ApiTypeOK
<1> QED
  BY <1>1, <1>3, <1>4, OthersStay DEF IInv

-----------------------------------------------------------------------------
LEMMA NextInvariant == IInv /\ [Next]_vars => IInv'
<1> SUFFICES ASSUME IInv, [Next]_vars PROVE IInv'
  OBVIOUS
<1>1. CASE \E c \in Consumers : Consume(c) \/ OAuthIssues(c) \/ OAuthRefuses(c)
  BY <1>1, ConsumeInvariant, OAuthIssuesInvariant, OAuthRefusesInvariant
<1>2. CASE \E t \in Threads, r \in calls : Deliver(t, r)
  BY <1>2, DeliverInvariant
<1>3. CASE \E t \in Threads : Serve(t)
  BY <1>3, ServeInvariant
<1>4. CASE Tick
  BY <1>4, TickInvariant
<1>5. CASE UNCHANGED vars
  <2>1. UNCHANGED <<work, user, responses, now, plan, job, asked, answers, issued, calls>>
    BY <1>5 DEF vars, apiVars, consumerVars
  <2>2. Onwards
    BY <2>1, JwtConsumerAssumption DEF Onwards, IInv, TypeOK
  <2>3. TypeOK'
    BY <2>1 DEF IInv, TypeOK, ApiTypeOK
  <2> QED
    BY <2>1, <2>2, <2>3, OthersStay DEF IInv
<1> QED
  BY <1>1, <1>2, <1>3, <1>4, <1>5 DEF Next

\* The invariant of the REST service and its consumers.
THEOREM Invariance == Spec => []IInv
<1> QED
  BY InitInvariant, NextInvariant, PTL DEF Spec

\* Every state is typed: in particular every request gets one of four statuses.
THEOREM TypeCorrect == Spec => []TypeOK
<1>1. IInv => TypeOK
  BY DEF IInv
<1> QED
  BY <1>1, Invariance, PTL

\* The controller congratulates only the holder of a token of the OAuth service
\* for the configured CVR, used under its own certificate and in time.  That no
\* token comes without a confirmation is what makes bearer tokens harmless.
THEOREM OnlyTheDueAreCongratulated == Spec => []CongratulationsAreDue
<1>1. IInv => CongratulationsAreDue
  <2> SUFFICES ASSUME IInv, NEW r \in responses, r.status = "OK"
               PROVE  /\ r.request.token \in issued
                      /\ r.request.token.confirmation = r.request.certificate
                      /\ r.request.token.cvr = JwtCvr
                      /\ r.checked <= r.request.token.expires + JwtClockSkew
    BY DEF CongratulationsAreDue
  <2>1. RequestFits(r.request) /\ StatusFits(r.request, r.checked, r.status)
    BY DEF IInv, ResponsesFit
  <2>2. /\ ValidAt(r.request, r.checked) /\ r.request.path = "api"
        /\ r.request.token.cvr = JwtCvr
    BY <2>1 DEF StatusFits
  <2>3. r.request.token \in issued
    BY <2>1, <2>2 DEF ValidAt, RequestFits, Bears
  <2>4. r.request.token.confirmation # "absent"
    BY <2>3, JwtConsumerAssumption DEF IInv, IssuedFit
  <2> QED
    BY <2>2, <2>3, <2>4 DEF ValidAt, Confirmed
<1> QED
  BY <1>1, Invariance, PTL

\* A test that ends without an exception ends as its assertions say, however many
\* tests and other clients keep the service's threads busy.
THEOREM TestsEndAsExpected == Spec => []OutcomeIsDue
<1>1. IInv => OutcomeIsDue
  BY DEF IInv, JobFits, OutcomeIsDue
<1> QED
  BY <1>1, Invariance, PTL

-----------------------------------------------------------------------------
(* The refinement of RestPromise.  What it needs next to IInv: every request is  *)
(* in one place only, and tokens are what the OAuth service makes them.          *)

\* Some client has made the request: another one, or a consumer that got that far.
Made(r) ==
    \/ r \in OtherCalls
    \/ \E c \in Consumers : r.id = c /\ job[c].stage \in {"calling", "done"}

OnceInv ==
    /\ \A t, u \in Serving : work[t].request = work[u].request => t = u
    /\ \A t \in Serving, s \in responses : work[t].request # s.request
    /\ \A r \in calls : r \notin Accepted
    /\ \A r \in calls \cup Accepted : Made(r)
    /\ \A token \in issued : token.signer = "sts" /\ token.issuer = "sts"

LEMMA OnceInit == Init => OnceInv
<1> SUFFICES ASSUME Init PROVE OnceInv
  OBVIOUS
<1>1. Serving = {} /\ responses = {} /\ issued = {} /\ calls = OtherCalls
  BY DEF Init, ApiInit, IdleWork, Serving
<1>2. Accepted = {}
  BY <1>1 DEF Accepted
<1> QED
  BY <1>1, <1>2 DEF OnceInv, Made

\* A consumer that has called has called for ever.
JobsGoOn ==
    \A c \in Consumers : job[c].stage \in {"calling", "done"}
                            => job'[c].stage \in {"calling", "done"}

\* Steps that serve no new request, answer none and make none.
LEMMA OnceStays ==
    ASSUME OnceInv, JobsGoOn, Serving' = Serving, UNCHANGED <<responses, calls>>,
           \A t \in Serving : work'[t].request = work[t].request,
           \A token \in issued' : token.signer = "sts" /\ token.issuer = "sts"
    PROVE  OnceInv' /\ Accepted' = Accepted
<1>1. Accepted' = Accepted
  BY DEF Accepted
<1>2. \A r \in calls' \cup Accepted' : Made(r)'
  BY <1>1 DEF OnceInv, Made, JobsGoOn
<1> QED
  BY <1>1, <1>2 DEF OnceInv

\* What a thread's step does to the requests being served.
LEMMA ServingStep ==
    ASSUME IInv, NEW t \in Threads, NEW w, Continue(t, w)
    PROVE  /\ work'[t] = w
           /\ \A u \in Threads : u # t => work'[u] = work[u]
           /\ Serving' = IF w.stage = "idle" THEN Serving \ {t} ELSE Serving \cup {t}
<1>1. work'[t] = w /\ \A u \in Threads : u # t => work'[u] = work[u]
  BY DEF IInv, TypeOK, ApiTypeOK, Continue
<1> QED
  BY <1>1 DEF Serving

-----------------------------------------------------------------------------
(* A request is delivered. *)

LEMMA DeliverOnce ==
    ASSUME IInv, OnceInv, NEW t \in Threads, NEW r \in calls, Deliver(t, r)
    PROVE  OnceInv' /\ Promise!Accept(r)
<1> DEFINE w == [work[t] EXCEPT !.stage = "received", !.request = r]
<1>1. /\ work[t].stage = "idle" /\ Continue(t, w) /\ calls' = calls \ {r}
      /\ UNCHANGED <<responses, now, job, issued>>
  BY DEF Deliver, Accept
<1>2. work[t] \in Works /\ r \in Calls
  BY WorkType DEF IInv, CallsFit, RequestFits
<1>3. w.stage = "received" /\ w.request = r
  BY <1>2 DEF Works
<1> HIDE DEF w
<1>4. /\ work'[t] = w /\ \A u \in Threads : u # t => work'[u] = work[u]
      /\ t \notin Serving /\ Serving' = Serving \cup {t} /\ Serving \subseteq Threads
  BY <1>1, <1>3, ServingStep DEF Serving
<1>5. /\ r \notin Accepted
      /\ Accepted' = Accepted \cup {r}
  <2>1. r \notin Accepted
    BY DEF OnceInv
  <2> QED
    BY <1>1, <1>3, <1>4, <2>1 DEF Accepted
<1>6. Judged' = Judged /\ Answered' = Answered
  <2>1. \A u \in Serving : work'[u] = work[u] /\ StatusOf(u)' = StatusOf(u)
    BY <1>4 DEF StatusOf
  <2>2. Answered' = Answered
    BY <1>1 DEF Answered
  <2>3. {u \in Serving' : work'[u].stage # "received"}
           = {u \in Serving : work[u].stage # "received"}
    BY <1>3, <1>4, <2>1
  <2> QED
    BY <2>1, <2>2, <2>3 DEF Judged
<1>7. OnceInv'
  <2>1. \A q \in calls' \cup Accepted' : Made(q)'
    BY <1>1, <1>5 DEF OnceInv, Made
  <2>2. \A u, v \in Serving' : work'[u].request = work'[v].request => u = v
    BY <1>3, <1>4, <1>5 DEF OnceInv, Accepted
  <2>3. \A u \in Serving', s \in responses' : work'[u].request # s.request
    BY <1>1, <1>3, <1>4, <1>5 DEF OnceInv, Accepted
  <2>4. \A q \in calls' : q \notin Accepted'
    BY <1>1, <1>5 DEF OnceInv
  <2> QED
    BY <1>1, <2>1, <2>2, <2>3, <2>4 DEF OnceInv
<1> QED
  BY <1>1, <1>5, <1>6, <1>7 DEF Promise!Accept

-----------------------------------------------------------------------------
(* A thread serves the request it has. *)

LEMMA GoesOn ==
    ASSUME IInv, OnceInv, NEW t \in Serving, NEW w, Continue(t, w),
           w.stage \notin {"idle", "received"}, w.request = work[t].request,
           work[t].stage = "received" \/ StatusOf(t)' = StatusOf(t),
           UNCHANGED <<responses, now, consumerVars>>
    PROVE  /\ OnceInv'
           /\ Judged' = Judged \cup
                 {[request |-> work[t].request, status |-> StatusOf(t)']}
           /\ UNCHANGED <<now, issued, Accepted, Answered>>
<1>1. UNCHANGED <<job, issued, calls>> /\ t \in Threads
  BY DEF consumerVars, Serving
<1>2. /\ work'[t] = w /\ \A u \in Threads : u # t => work'[u] = work[u]
      /\ Serving' = Serving
  BY <1>1, ServingStep
<1>3. OnceInv' /\ Accepted' = Accepted
  BY <1>1, <1>2, OnceStays DEF OnceInv, JobsGoOn, Serving
<1>4. Answered' = Answered
  BY DEF Answered
<1>5. Judged' = Judged \cup {[request |-> work[t].request, status |-> StatusOf(t)']}
  <2> DEFINE Entry(u) == [request |-> work[u].request, status |-> StatusOf(u)]
             Done == {u \in Serving : work[u].stage # "received"}
  <2>1. \A u \in Serving : u # t => Entry(u)' = Entry(u)
    BY <1>2 DEF StatusOf, Serving
  <2>2. Entry(t)' = [request |-> work[t].request, status |-> StatusOf(t)']
    BY <1>2
  <2>3. Done' = Done \cup {t}
    BY <1>2 DEF Serving
  <2>4. t \in Done => Entry(t)' = Entry(t)
    BY <2>2
  <2>5. Judged = Answered \cup {Entry(u) : u \in Done}
    BY DEF Judged
  <2>6. Judged' = Answered' \cup {Entry(u)' : u \in Done'}
    BY DEF Judged
  <2> HIDE DEF Entry, Done
  <2>7. Done \subseteq Serving
    BY DEF Done
  <2>8. {Entry(u)' : u \in Done'} = {Entry(u) : u \in Done} \cup {Entry(t)'}
    BY <2>1, <2>3, <2>4, <2>7
  <2> QED
    BY <1>4, <2>2, <2>5, <2>6, <2>8
<1> QED
  BY <1>1, <1>3, <1>4, <1>5

\* The checks of the token handler find out who is entitled, though they look at
\* signature, issuer and confirmation and never at what was issued.
LEMMA ValidIsEntitled ==
    ASSUME IInv, OnceInv, NEW r \in Calls, RequestFits(r), r.path = "api"
    PROVE  Valid(r) <=> Promise!Entitled(r)
<1>1. ASSUME Valid(r) PROVE Promise!Entitled(r)
  <2>1. r.token \in issued
    BY <1>1 DEF Valid, ValidJwt, RequestFits, Bears
  <2>2. r.token.confirmation # "absent"
    BY <2>1, JwtConsumerAssumption DEF IInv, IssuedFit
  <2> QED
    BY <1>1, <2>1, <2>2 DEF Valid, ValidJwt, Confirmed, Promise!Entitled
<1>2. ASSUME Promise!Entitled(r) PROVE Valid(r)
  <2>1. /\ r.token \in issued /\ r.token.confirmation = r.certificate
        /\ now <= r.token.expires + JwtClockSkew
    BY <1>2 DEF Promise!Entitled
  <2>2. /\ r.token.signer = "sts" /\ r.token.issuer = "sts"
        /\ r.token.confirmation \in Certificates /\ r.token.notBefore <= now
    BY <2>1 DEF OnceInv, IInv, IssuedFit
  <2>3. r.authorization = "token"
    BY <2>1, RestApiAssumption DEF IInv, TypeOK
  <2>4. r.certificate # Nobody
    BY <2>1, <2>2, RestApiAssumption
  <2>5. r.token.notBefore <= now + JwtClockSkew
    <3>1. r.token \in Jwts /\ now \in 0..MaxTime
      BY <2>1 DEF IInv, TypeOK
    <3>2. r.token.notBefore \in Int
      BY <3>1 DEF Jwts
    <3>3. MaxTime \in Nat /\ JwtClockSkew \in Nat
      BY RestApiAssumption, JwtConsumerAssumption
    <3> QED
      BY <2>2, <3>1, <3>2, <3>3
  <2> QED
    BY <2>1, <2>2, <2>3, <2>4, <2>5 DEF Valid, ValidJwt, Confirmed
<1> QED
  BY <1>1, <1>2

LEMMA SendAsyncJudges ==
    ASSUME IInv, OnceInv, NEW t \in Threads, SendAsync(t), UNCHANGED <<now, consumerVars>>
    PROVE  OnceInv' /\ work[t].request \in Calls /\ Promise!Judge(work[t].request)
<1>1. PICK r : r = work[t].request
  OBVIOUS
<1>2. /\ work[t].stage = "received" /\ UNCHANGED responses
      /\ t \in Serving /\ work[t] \in Works
      /\ r \in Calls /\ r.path \in {"api", "nested api", "other"}
      /\ RequestFits(r)
  BY <1>1, WorkType DEF SendAsync, Serving, StageFits
<1>3. PICK w : /\ Continue(t, w) /\ w.request = r
               /\ \/ /\ ~CanHandle(r)
                     /\ w.stage = "routed"
                  \/ /\ CanHandle(r) /\ Valid(r)
                     /\ w.stage = "routed"
                  \/ /\ CanHandle(r) /\ ~Valid(r)
                     /\ w.stage = "answering" /\ w.status = "Unauthorized"
  <2>1. PICK w1, w2, w3 :
           /\ w1 = [work[t] EXCEPT !.stage = "routed"]
           /\ w2 = [work[t] EXCEPT !.stage = "routed", !.checked = now]
           /\ w3 = [work[t] EXCEPT !.stage = "answering", !.status = "Unauthorized"]
    OBVIOUS
  <2>2. /\ w1.request = r /\ w1.stage = "routed"
        /\ w2.request = r /\ w2.stage = "routed"
        /\ w3.request = r /\ w3.stage = "answering" /\ w3.status = "Unauthorized"
    BY <1>1, <1>2, <2>1 DEF Works
  <2>3. \/ ~CanHandle(r) /\ Continue(t, w1)
        \/ CanHandle(r) /\ Valid(r) /\ Continue(t, w2)
        \/ CanHandle(r) /\ ~Valid(r) /\ Continue(t, w3)
    BY <1>1, <2>1 DEF SendAsync, Respond
  <2> QED
    BY <2>2, <2>3
<1>4. PICK status : status = StatusOf(t)'
  OBVIOUS
<1>5. /\ OnceInv' /\ Judged' = Judged \cup {[request |-> r, status |-> status]}
      /\ UNCHANGED <<now, issued, Accepted, Answered>>
  BY <1>1, <1>2, <1>3, <1>4, GoesOn
<1>6. /\ status \in {"OK", "Unauthorized", "Forbidden", "NotFound"}
      /\ Promise!StatusIsDue(r, status)
  <2>1. work'[t] = w
    BY <1>3, ServingStep
  <2>2. status = IF w.stage = "answering" THEN w.status
                 ELSE IF r.path # "api" THEN "NotFound"
                 ELSE IF r.token.cvr = JwtCvr THEN "OK" ELSE "Forbidden"
    BY <1>3, <1>4, <2>1 DEF StatusOf
  <2>3. r.path = "api" => (Valid(r) <=> Promise!Entitled(r))
    BY <1>2, ValidIsEntitled
  <2> QED
    BY <1>2, <1>3, <2>2, <2>3 DEF Promise!StatusIsDue, CanHandle
<1>7. r \in Accepted
  BY <1>1, <1>2 DEF Accepted
<1>8. \A j \in Judged : j.request # r
  <2>1. \A s \in responses : s.request # r
    BY <1>1, <1>2 DEF OnceInv
  <2>2. \A u \in Serving : work[u].stage # "received" => work[u].request # r
    BY <1>1, <1>2 DEF OnceInv
  <2>3. SUFFICES ASSUME NEW j \in Judged PROVE j.request # r
    OBVIOUS
  <2>4. CASE \E s \in responses : j = [request |-> s.request, status |-> s.status]
    BY <2>1, <2>4
  <2>5. CASE \E u \in Serving : /\ work[u].stage # "received"
                               /\ j = [request |-> work[u].request, status |-> StatusOf(u)]
    BY <2>2, <2>5
  <2> QED
    BY <2>4, <2>5 DEF Judged, Answered
<1> QED
  BY <1>1, <1>2, <1>5, <1>6, <1>7, <1>8 DEF Promise!Judge

\* Route, filter and controller only carry out what is decided.
LEMMA LaterStagesDecideNothing ==
    ASSUME IInv, OnceInv, NEW t \in Threads, UNCHANGED <<now, consumerVars>>,
           RouteNotFound(t) \/ OnAuthorizationAsync(t) \/ Ping(t)
    PROVE  OnceInv' /\ UNCHANGED Promise!vars
<1>1. PICK r : r = work[t].request
  OBVIOUS
<1>2. /\ work[t].stage \in {"routed", "authorized"} /\ UNCHANGED responses
      /\ t \in Serving /\ work[t] \in Works
  BY WorkType DEF RouteNotFound, OnAuthorizationAsync, Ping, Serving
<1>3. PICK w : /\ Continue(t, w) /\ w.request = r
               /\ \/ w.stage = "answering" /\ w.status = StatusOf(t)
                  \/ w.stage = "authorized" /\ StatusOf(t) = "OK" /\ r.path = "api"
  <2> DEFINE a == [work[t] EXCEPT !.stage = "authorized"]
             b(status) == [work[t] EXCEPT !.stage = "answering", !.status = status]
  <2>1. a.request = r /\ a.stage = "authorized"
    BY <1>1, <1>2 DEF Works
  <2>2. ASSUME NEW status
        PROVE  b(status).request = r /\ b(status).stage = "answering"
                  /\ b(status).status = status
    BY <1>1, <1>2 DEF Works
  <2>3. CASE RouteNotFound(t)
    <3>1. StatusOf(t) = "NotFound" /\ Continue(t, b("NotFound"))
      BY <2>3 DEF RouteNotFound, Respond, StatusOf
    <3> HIDE DEF b
    <3> QED
      BY <2>2, <3>1
  <2>4. CASE OnAuthorizationAsync(t)
    <3>1. /\ work[t].stage = "routed" /\ r.path = "api"
          /\ IF user[t] = Nobody \/ user[t].cvr # JwtCvr
             THEN Continue(t, b("Forbidden")) ELSE Continue(t, a)
      BY <1>1, <2>4 DEF OnAuthorizationAsync, Context, Respond
    <3>2. user[t] = r.token /\ r.token \in Jwts
      BY <1>1, <3>1, WorkType DEF StageFits, ValidAt
    <3>3. user[t] # Nobody
      BY <3>2, RestApiAssumption
    <3>4. StatusOf(t) = IF r.token.cvr = JwtCvr THEN "OK" ELSE "Forbidden"
      BY <1>1, <3>1 DEF StatusOf
    <3> HIDE DEF a, b
    <3> QED
      BY <2>1, <2>2, <3>1, <3>2, <3>3, <3>4
  <2>5. CASE Ping(t)
    <3>1. work[t].stage = "authorized" /\ r.path = "api" /\ r.token.cvr = JwtCvr
      BY <1>1, <2>5, WorkType DEF Ping, StageFits
    <3>2. StatusOf(t) = "OK" /\ Continue(t, b("OK"))
      BY <1>1, <2>5, <3>1 DEF StatusOf, Ping, Respond
    <3> HIDE DEF b
    <3> QED
      BY <2>2, <3>2
  <2> QED
    BY <2>3, <2>4, <2>5
<1>4. StatusOf(t)' = StatusOf(t)
  <2>1. work'[t] = w
    BY <1>3, ServingStep
  <2>2. ASSUME w.stage = "authorized", StatusOf(t) = "OK", r.path = "api"
        PROVE  r.token.cvr = JwtCvr
    BY <1>1, <1>2, <2>2 DEF StatusOf
  <2> QED
    BY <1>1, <1>3, <2>1, <2>2 DEF StatusOf
<1>5. /\ OnceInv' /\ UNCHANGED <<now, issued, Accepted, Answered>>
      /\ Judged' = Judged \cup {[request |-> r, status |-> StatusOf(t)]}
  BY <1>1, <1>2, <1>3, <1>4, GoesOn
<1>6. [request |-> r, status |-> StatusOf(t)] \in Judged
  BY <1>1, <1>2 DEF Judged
<1> QED
  BY <1>5, <1>6 DEF Promise!vars

LEMMA SendResponseAnswers ==
    ASSUME IInv, OnceInv, NEW t \in Threads, SendResponse(t), UNCHANGED <<now, consumerVars>>
    PROVE  OnceInv' /\ \E j \in Judged : Promise!Answer(j)
<1>1. PICK s, j : /\ s = [request |-> work[t].request, checked |-> work[t].checked,
                          status |-> work[t].status]
                  /\ j = [request |-> work[t].request, status |-> work[t].status]
  OBVIOUS
<1>2. /\ work[t].stage = "answering" /\ Continue(t, IdleWork)
      /\ responses' = responses \cup {s} /\ UNCHANGED <<job, issued, calls>>
      /\ t \in Serving /\ IdleWork.stage = "idle"
  BY <1>1 DEF SendResponse, consumerVars, Serving, IdleWork
<1>3. /\ \A u \in Threads : u # t => work'[u] = work[u]
      /\ Serving' = Serving \ {t} /\ Serving \subseteq Threads
  BY <1>2, ServingStep DEF Serving
<1>4. Accepted' = Accepted
  BY <1>1, <1>2, <1>3 DEF Accepted
<1>5. OnceInv'
  <2>1. \A q \in calls' \cup Accepted' : Made(q)'
    BY <1>2, <1>4 DEF OnceInv, Made
  <2>2. \A u \in Serving', x \in responses' : work'[u].request # x.request
    BY <1>1, <1>2, <1>3 DEF OnceInv
  <2>3. \A u, v \in Serving' : work'[u].request = work'[v].request => u = v
    BY <1>3 DEF OnceInv
  <2> QED
    BY <1>2, <1>4, <2>1, <2>2, <2>3 DEF OnceInv
<1>6. Answered' = Answered \cup {j}
  BY <1>1, <1>2 DEF Answered
<1>7. StatusOf(t) = j.status /\ j.request = work[t].request
  BY <1>1, <1>2 DEF StatusOf
<1>8. j \in Judged
  BY <1>1, <1>2, <1>7 DEF Judged
<1>9. Judged' = Judged
  <2> DEFINE Entry(u) == [request |-> work[u].request, status |-> StatusOf(u)]
             Done == {u \in Serving : work[u].stage # "received"}
  <2>1. \A u \in Serving : u # t => Entry(u)' = Entry(u)
    BY <1>3 DEF StatusOf
  <2>2. Done' = Done \ {t} /\ t \in Done /\ Done \subseteq Serving
    BY <1>2, <1>3
  <2>3. Entry(t) = j
    BY <1>1, <1>7
  <2>4. Judged = Answered \cup {Entry(u) : u \in Done}
    BY DEF Judged
  <2>5. Judged' = Answered' \cup {Entry(u)' : u \in Done'}
    BY DEF Judged
  <2> HIDE DEF Entry, Done
  <2>6. {Entry(u) : u \in Done} = {Entry(u)' : u \in Done'} \cup {j}
    BY <2>1, <2>2, <2>3
  <2> QED
    BY <1>6, <2>4, <2>5, <2>6
<1>10. j \notin Answered
  <2>1. \A x \in responses : x.request # j.request
    BY <1>1, <1>2 DEF OnceInv
  <2> QED
    BY <2>1 DEF Answered
<1>11. UNCHANGED <<now, issued>>
  BY <1>2
<1> QED
  BY <1>4, <1>5, <1>6, <1>8, <1>9, <1>10, <1>11 DEF Promise!Answer

-----------------------------------------------------------------------------
(* The consumers, the OAuth service and the clock. *)

\* A step that leaves the threads and their answers alone leaves the promise alone.
LEMMA MappingStays ==
    ASSUME UNCHANGED apiVars
    PROVE  /\ UNCHANGED <<Accepted, Judged, Answered, responses, Serving>>
           /\ \A t \in Threads : work'[t] = work[t]
<1>1. work' = work /\ responses' = responses /\ Serving' = Serving
  BY DEF apiVars, Serving
<1> QED
  BY <1>1 DEF Accepted, Judged, Answered, StatusOf

\* A consumer's call is new, since nobody else has a token of the OAuth service
\* and it has not called before.
LEMMA GetAsyncOnce ==
    ASSUME IInv, OnceInv, NEW c \in Consumers, GetAsync(c)
    PROVE  OnceInv'
<1>1. PICK r : r = CallOf(c)
  OBVIOUS
<1>2. /\ job[c].stage = "holding" /\ calls' = calls \cup {r}
      /\ job' = [job EXCEPT ![c].stage = "calling"]
      /\ UNCHANGED <<apiVars, issued>>
  BY <1>1 DEF GetAsync, Goes
<1>3. UNCHANGED <<Accepted, Serving, responses>> /\ \A t \in Threads : work'[t] = work[t]
  BY <1>2, MappingStays
<1>4. r.id = c /\ r.path = "api" /\ r.token = job[c].token
  BY <1>1 DEF CallOf, CallWith
<1>5. HoldsToken(c)
  BY <1>2, JobType DEF JobFits
<1>6. r.token \in issued /\ r.token \in Jwts /\ r.token.signer = "sts"
  BY <1>4, <1>5 DEF HoldsToken, OnceInv, IInv, TypeOK
<1>7. ~Made(r)
  <2>1. r \notin OtherCalls
    BY <1>4, <1>6, RestApiAssumption, JwtConsumerAssumption
  <2> QED
    BY <1>2, <1>4, <2>1 DEF Made
<1>8. r \notin Accepted
  BY <1>7 DEF OnceInv
<1>9. job'[c].stage = "calling" /\ \A d \in Consumers : d # c => job'[d] = job[d]
  BY <1>2, JobType DEF IInv, TypeOK, Jobs
<1>10. \A q \in calls' \cup Accepted' : Made(q)'
  <2>1. Made(r)'
    BY <1>4, <1>9 DEF Made
  <2>2. \A q : Made(q) => Made(q)'
    BY <1>2, <1>9 DEF Made
  <2> QED
    BY <1>2, <1>3, <2>1, <2>2 DEF OnceInv
<1> QED
  BY <1>2, <1>3, <1>8, <1>10 DEF OnceInv, Serving

LEMMA ConsumeOnce ==
    ASSUME IInv, OnceInv, NEW c \in Consumers, Consume(c)
    PROVE  OnceInv' /\ UNCHANGED Promise!vars
<1>1. UNCHANGED <<apiVars, now, issued>>
  BY DEF Consume, Post, ReceiveAnswer, PostTimesOut, ValidateToken, GetAsync,
         ReceiveResponse, CallTimesOut
<1>2. UNCHANGED Promise!vars
  BY <1>1, MappingStays DEF Promise!vars
<1>3. CASE ~GetAsync(c)
  <2>1. calls' = calls
    BY <1>3 DEF Consume, Post, ReceiveAnswer, PostTimesOut, ValidateToken,
                ReceiveResponse, CallTimesOut
  <2>2. JobsGoOn
    <3>1. \A d \in Consumers : d # c => job'[d] = job[d]
      BY <1>3 DEF Consume, Post, ReceiveAnswer, PostTimesOut, ValidateToken,
                  ReceiveResponse, CallTimesOut, Goes, Ends, IInv, TypeOK
    <3>2. job[c].stage \in {"calling", "done"} => job'[c].stage \in {"calling", "done"}
      BY <1>3, JobType
         DEF Consume, Post, ReceiveAnswer, PostTimesOut, ValidateToken,
             ReceiveResponse, CallTimesOut, Ends, IInv, TypeOK, Jobs
    <3> QED
      BY <3>1, <3>2 DEF JobsGoOn
  <2>3. UNCHANGED <<responses, Serving>> /\ \A t \in Serving : work'[t].request = work[t].request
    BY <1>1, MappingStays DEF Serving
  <2>4. \A token \in issued' : token.signer = "sts" /\ token.issuer = "sts"
    BY <1>1 DEF OnceInv
  <2> QED
    BY <1>2, <2>1, <2>2, <2>3, <2>4, OnceStays
<1> QED
  BY <1>2, <1>3, GetAsyncOnce

\* Everything else is the environment of the promise.
LEMMA EnvironmentOnce ==
    ASSUME IInv, OnceInv,
           \/ \E c \in Consumers : OAuthIssues(c) \/ OAuthRefuses(c)
           \/ Tick
           \/ UNCHANGED vars
    PROVE  OnceInv' /\ Promise!Environment
<1>1. UNCHANGED <<apiVars, job, calls>>
  BY DEF OAuthIssues, OAuthRefuses, Tick, vars, consumerVars
<1>2. issued \subseteq issued' /\ now <= now'
  <2>1. now \in Nat
    BY JwtConsumerAssumption DEF IInv, TypeOK
  <2> QED
    BY <2>1 DEF OAuthIssues, OAuthRefuses, Tick, vars, consumerVars
<1>3. \A token \in issued' : token.signer = "sts" /\ token.issuer = "sts"
  BY DEF OnceInv, OAuthIssues, OAuthRefuses, Tick, vars, consumerVars, TokenAt
<1>4. /\ UNCHANGED <<Accepted, Judged, Answered, responses, Serving>>
      /\ \A t \in Serving : work'[t].request = work[t].request
  BY <1>1, MappingStays DEF Serving
<1>5. JobsGoOn
  BY <1>1 DEF JobsGoOn
<1>6. OnceInv'
  BY <1>1, <1>3, <1>4, <1>5, OnceStays
<1> QED
  BY <1>2, <1>4, <1>6 DEF Promise!Environment

-----------------------------------------------------------------------------
LEMMA RestPromiseInit == Init => Promise!Init
<1> SUFFICES ASSUME Init PROVE Promise!Init
  OBVIOUS
<1>1. Serving = {} /\ responses = {} /\ issued = {} /\ now = 0
  BY DEF Init, ApiInit, IdleWork, Serving
<1> QED
  BY <1>1 DEF Promise!Init, Accepted, Judged, Answered

LEMMA RestPromiseNext ==
    IInv /\ OnceInv /\ [Next]_vars => OnceInv' /\ [Promise!Next]_Promise!vars
<1> SUFFICES ASSUME IInv, OnceInv, [Next]_vars
             PROVE  OnceInv' /\ (Promise!Next \/ UNCHANGED Promise!vars)
  OBVIOUS
<1>1. CASE \E c \in Consumers : Consume(c)
  BY <1>1, ConsumeOnce
<1>2. CASE \/ \E c \in Consumers : OAuthIssues(c) \/ OAuthRefuses(c)
           \/ Tick
           \/ UNCHANGED vars
  BY <1>2, EnvironmentOnce DEF Promise!Next
<1>3. CASE \E t \in Threads, r \in calls : Deliver(t, r)
  <2>1. PICK t \in Threads, r \in calls : Deliver(t, r)
    BY <1>3
  <2>2. r \in Calls /\ OnceInv' /\ Promise!Accept(r)
    BY <2>1, DeliverOnce DEF IInv, TypeOK
  <2> QED
    BY <2>2 DEF Promise!Next
<1>4. CASE \E t \in Threads : Serve(t)
  <2>1. PICK t \in Threads : Work(t) /\ UNCHANGED <<now, consumerVars>>
    BY <1>4 DEF Serve
  <2>2. CASE SendAsync(t)
    <3> DEFINE r == work[t].request
    <3>1. r \in Calls /\ OnceInv' /\ Promise!Judge(r)
      BY <2>1, <2>2, SendAsyncJudges
    <3> HIDE DEF r
    <3> QED
      BY <3>1 DEF Promise!Next
  <2>3. CASE RouteNotFound(t) \/ OnAuthorizationAsync(t) \/ Ping(t)
    BY <2>1, <2>3, LaterStagesDecideNothing
  <2>4. CASE SendResponse(t)
    BY <2>1, <2>4, SendResponseAnswers DEF Promise!Next
  <2> QED
    BY <2>1, <2>2, <2>3, <2>4 DEF Work
<1> QED
  BY <1>1, <1>2, <1>3, <1>4 DEF Next

\* The REST service implements RestPromise for any number of threads, clients and
\* tokens: it decides about each request once, by the request and the clock alone,
\* and what handler, filter and controller make of it is that decision.
THEOREM RestServiceKeepsThePromise == Spec => ImplementsRestPromise
<1>1. Promise!Spec => ImplementsRestPromise
  BY DEF ImplementsRestPromise
<1>2. Spec => [](IInv /\ OnceInv)
  BY Invariance, OnceInit, RestPromiseNext, PTL DEF Spec
<1> QED
  BY <1>1, <1>2, RestPromiseInit, RestPromiseNext, PTL DEF Spec, Promise!Spec
=============================================================================
