---------------------------- MODULE StsTokenProofs ----------------------------
(***************************************************************************)
(* Lemmas about the operators of StsToken, for every request, certificate   *)
(* and clock, and every setting allowed by StsTokenAssumption.              *)
(***************************************************************************)
EXTENDS StsToken, TLAPS

\* Overriding the key type keeps everything else of the request.
LEMMA SecondaryParametersType ==
    ASSUME NEW rst \in Rsts
    PROVE  /\ WithSecondaryParameters(rst) \in Rsts
           /\ WithSecondaryParameters(rst).appliesTo = rst.appliesTo
           /\ WithSecondaryParameters(rst).onBehalfOf = rst.onBehalfOf
           /\ WithSecondaryParameters(rst).lifetime = rst.lifetime
  BY DEF WithSecondaryParameters, Rsts, KeyTypes

\* A lifetime that passes the checks ends where PeriodFits says.
LEMMA LifetimeType ==
    ASSUME NEW lifetime \in Lifetimes, NEW clock \in Nat
    PROVE  LET period == GetTokenLifetime(lifetime, clock)
           IN /\ period \in Periods
              /\ LifetimeException(period, clock) \in Exceptions
              /\ LifetimeException(period, clock) = NoException =>
                    IF lifetime.expires = Unset
                    THEN period.notOnOrAfter <= clock + MaxClockSkew + DefaultTokenLifetime
                    ELSE period.notOnOrAfter = lifetime.expires
  BY StsTokenAssumption
     DEF GetTokenLifetime, LifetimeException, Lifetimes, Periods, Unset, Exceptions,
         FaultException, NoException, FaultCodes

\* A handler built with a typed request makes a typed token.
LEMMA CreateTokenType ==
    ASSUME NEW certificate \in Certificates, NEW request \in Rsts, NEW rst \in Rsts,
           NEW period \in Periods, NEW clock \in Nat,
           SubjectException(Principal(certificate), rst) = NoException
    PROVE  CreateToken(Principal(certificate), request, rst, period, clock) \in Tokens
<1> DEFINE principal == Principal(certificate)
           token == CreateToken(principal, request, rst, period, clock)
<1>1. principal.name \in NameIds
  BY DEF Principal, GetSubjectNameId, NameIds
<1>2. SubjectName(principal, rst) \in NameIds
  <2>1. rst.onBehalfOf \in OnBehalfOfs /\ rst.onBehalfOf # [kind |-> "saml2", who |-> "none"]
    BY DEF Rsts, SubjectException, OtherException, NoException
  <2>2. CASE rst.onBehalfOf.kind = "saml2"
    BY <2>1, <2>2 DEF SubjectName, OnBehalfOfs, NoOnBehalfOf
  <2>3. CASE rst.onBehalfOf.kind # "saml2"
    BY <1>1, <2>3 DEF SubjectName, GetSubjectNameId, NameIds
  <2> QED BY <2>2, <2>3
<1>3. ConfirmationExpires(rst.lifetime, clock) \in Int
  BY StsTokenAssumption DEF ConfirmationExpires, Rsts, Lifetimes, Unset
<1>4. GetOutputClaimsIdentity(principal, request) \in SUBSET Attributes
  BY DEF GetOutputClaimsIdentity, Attributes, UserAttributes
<1>5. rst.appliesTo \in AppliesTos /\ request.appliesTo \in AppliesTos
  BY DEF Rsts
<1> QED
  BY <1>1, <1>2, <1>3, <1>4, <1>5 DEF CreateToken, Tokens

\* Whatever is thrown becomes a fault with one of the known codes.
LEMMA ProvideFaultType ==
    ASSUME NEW exception \in Exceptions
    PROVE  ProvideFault(exception) \in Faults
  BY DEF ProvideFault, Exceptions, Faults, FaultCodes, NoException, OtherException, IOException

\* The checks of the request throw exceptions of the model.
LEMMA ExceptionTypes ==
    ASSUME NEW rst \in Rsts, NEW handler \in Rsts, NEW principal
    PROVE  /\ ScopeException(rst) \in Exceptions
           /\ ClaimsException(principal, rst) \in Exceptions
           /\ SubjectException(principal, handler) \in Exceptions
  BY DEF ScopeException, ClaimsException, SubjectException, Exceptions, FaultException,
         NoException, OtherException, IOException, FaultCodes
=============================================================================
