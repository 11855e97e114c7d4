---------------------------- MODULE EcpVerifier ----------------------------
(***************************************************************************)
(* The verification of one CMS signature: EcpVerifierServer walks from the *)
(* signer's certificate to a trusted one, asks OCSP about it and answers   *)
(* with one flag per check; EcpValidationClient waits for that answer at   *)
(* most its timeout, and EcpSigningService.complete_signing stores the     *)
(* signature with the failed checks spelled out.  The verifier's address   *)
(* is a setting: another one than EcpVerifierServer may answer, with the   *)
(* flags it knows.  And the signatures of an admission contract skip the   *)
(* check: they are stored as valid without asking anybody.                 *)
(*                                                                         *)
(* A certificate is a number, the signer's is 1.  issuers[c] is the set of *)
(* certificates that bear c's issuer name and whose key verifies c: more   *)
(* than one where an authority has renewed its certificate for its key.    *)
(***************************************************************************)
EXTENDS Naturals, Sequences

CONSTANTS
  Certs,       \* the certificates there are
  TrustedSets, \* what the trusted directory may hold
  MaxDepth     \* links the walk follows at most

ASSUME EcAssumption ==
  /\ Certs \subseteq Nat \ {0} /\ 1 \in Certs
  /\ TrustedSets \subseteq SUBSET Certs
  /\ MaxDepth \in Nat \ {0}

VARIABLES
  ecInput,   \* the CMS, the request and the world it is verified in
  ecWalk,    \* how far the server has come
  ecAnswer,  \* the flags of the server's answer
  ecClient   \* what became of the signature

ecVars == <<ecInput, ecWalk, ecAnswer, ecClient>>

NoCert == 0
Checks == {"cms", "hash", "iin", "date", "chain", "type", "ocsp"}

(* skip: the request is one of admissions.  claimsOther: the subject that  *)
(* came with the request names an IIN, and not the signer's.               *)
EcInput == [issuers : [Certs -> SUBSET Certs], inDate : SUBSET Certs,
            inCms : SUBSET Certs, trusted : TrustedSets,
            passes : SUBSET {"cms", "hash", "iin", "type"},
            skip : BOOLEAN, claimsOther : BOOLEAN, verifier : {"server", "other"}]

EcStage == {"idle", "read", "chain", "ocsp", "answered", "failed"}

(* An answer as the client may read it: which checks it tells of, which of *)
(* these it calls true, its "ok", and whether its "error" has a text.      *)
EcAnswer == [told : SUBSET Checks, passed : SUBSET Checks, ok : BOOLEAN, error : BOOLEAN]

(* What validation_error says of each check.                               *)
Complaint ==
  [cms |-> "CMS signature is invalid",
   hash |-> "Document hash does not match",
   iin |-> "Certificate IIN does not match",
   date |-> "Certificate is out of date",
   chain |-> "Certificate chain is not trusted",
   type |-> "Certificate type is not allowed",
   ocsp |-> "OCSP revocation check failed"]

OwnWords == "the verifier's own words"
Fallback == "ECP signature validation failed"

EcReasons == {Complaint[c] : c \in Checks} \cup {OwnWords, Fallback}

(* checked is backend_validation of the audit entry, why the parts of      *)
(* validation_error.                                                       *)
EcClient == [state : {"begun", "waiting", "stored", "refused"}, valid : BOOLEAN,
             checked : BOOLEAN, why : SUBSET EcReasons]

EcTypeOK ==
  /\ ecInput \in EcInput
  /\ ecWalk.stage \in EcStage /\ ecWalk.at \in Certs
  /\ ecWalk.depth \in 0 .. MaxDepth
  /\ ecAnswer \in SUBSET Checks
  /\ ecClient \in EcClient

(* A certificate has at most one name for its issuer, so the certificates  *)
(* that can have issued it share a key; a self-signed one is its issuer.   *)
EcInit ==
  /\ ecInput \in EcInput
  /\ 1 \in ecInput.inCms
  /\ ecWalk = [stage |-> "idle", at |-> 1, depth |-> 0]
  /\ ecAnswer = {}
  /\ ecClient = [state |-> "begun", valid |-> FALSE, checked |-> FALSE, why |-> {}]

-----------------------------------------------------------------------------
FirstOf(S) == CHOOSE c \in S : \A d \in S : c <= d

AtHand == ecInput.inCms \cup ecInput.trusted

(* findIssuerCertificate: the CMS's own certificates before the trusted    *)
(* ones, the first whose name and key fit.                                 *)
FindIssuer(c) ==
  LET sent == ecInput.issuers[c] \cap ecInput.inCms
      trusted == ecInput.issuers[c] \cap ecInput.trusted
  IN IF sent # {} THEN FirstOf(sent)
     ELSE IF trusted # {} THEN FirstOf(trusted) ELSE NoCert

InDate(c) == c \in ecInput.inDate
IsTrusted(c) == c \in ecInput.trusted

(* Mutant: a trusted certificate is not asked for its dates. *)
AcceptsTrusted(c) == IsTrusted(c)

AcceptsIssuer(c) == IsTrusted(c) /\ InDate(c)

(* The CMS is unreadable, has no signer or no certificate for him, or the  *)
(* trusted directory is empty: the handler answers 500.                    *)
ServerFails ==
  /\ ecWalk.stage \in {"read", "chain", "ocsp"}
  /\ ecWalk' = [ecWalk EXCEPT !.stage = "failed"]
  /\ UNCHANGED <<ecInput, ecAnswer, ecClient>>

(* The signature, the hash in the payload, the IIN of the subject, the     *)
(* dates and the key usage of the certificate.                             *)
ReadCms ==
  /\ ecWalk.stage = "read"
  /\ ecWalk' = [ecWalk EXCEPT !.stage = "chain"]
  /\ ecAnswer' = ecInput.passes \cup (IF InDate(1) THEN {"date"} ELSE {})
  /\ UNCHANGED <<ecInput, ecClient>>

(* for (int depth = 0; depth < 10; depth++)                                *)
LinksLeft == ecWalk.depth < MaxDepth

Walking == ecWalk.stage = "chain"

ChainHolds ==
  /\ Walking /\ LinksLeft /\ InDate(ecWalk.at)
  /\ AcceptsIssuer(FindIssuer(ecWalk.at))
  /\ ecWalk' = [ecWalk EXCEPT !.stage = "ocsp"]
  /\ ecAnswer' = ecAnswer \cup {"chain"}
  /\ UNCHANGED <<ecInput, ecClient>>

(* The issuer is one to climb to: known, another and not a trusted one.    *)
MayClimb(issuer) == issuer \notin {NoCert, ecWalk.at} /\ ~IsTrusted(issuer)

ChainClimbs ==
  LET issuer == FindIssuer(ecWalk.at) IN
  /\ Walking /\ LinksLeft /\ InDate(ecWalk.at)
  /\ ~AcceptsIssuer(issuer) /\ MayClimb(issuer)
  /\ ecWalk' = [ecWalk EXCEPT !.at = issuer, !.depth = @ + 1]
  /\ UNCHANGED <<ecInput, ecAnswer, ecClient>>

ChainBreaks ==
  LET issuer == FindIssuer(ecWalk.at) IN
  /\ Walking
  /\ ~LinksLeft \/ ~InDate(ecWalk.at) \/ ~(AcceptsIssuer(issuer) \/ MayClimb(issuer))
  /\ ecWalk' = [ecWalk EXCEPT !.stage = "ocsp"]
  /\ UNCHANGED <<ecInput, ecAnswer, ecClient>>

(* checkOcspStatus, with the certificate's issuer at hand; any other       *)
(* status and any exception leave ocsp_good false.                         *)
CheckOcsp ==
  /\ ecWalk.stage = "ocsp"
  /\ ecWalk' = [ecWalk EXCEPT !.stage = "answered"]
  /\ \/ FindIssuer(1) # NoCert /\ ecAnswer' = ecAnswer \cup {"ocsp"}
     \/ UNCHANGED ecAnswer
  /\ UNCHANGED <<ecInput, ecClient>>

-----------------------------------------------------------------------------
(* The subject sent along names another IIN than the signer's: refused     *)
(* before anybody is asked.                                                *)
RefuseClaimedIin ==
  /\ ecClient.state = "begun"
  /\ ~ecInput.skip /\ ecInput.claimsOther
  /\ ecClient' = [ecClient EXCEPT !.state = "refused"]
  /\ UNCHANGED <<ecInput, ecWalk, ecAnswer>>

AskVerifier ==
  /\ ecClient.state = "begun"
  /\ ~ecInput.skip /\ ~ecInput.claimsOther
  /\ ecClient' = [ecClient EXCEPT !.state = "waiting"]
  /\ ecWalk' = IF ecInput.verifier = "server" THEN [ecWalk EXCEPT !.stage = "read"] ELSE ecWalk
  /\ UNCHANGED <<ecInput, ecAnswer>>

(* The client's timeout, an HTTP 400 or 500 or an answer that is no JSON:  *)
(* a ValueError, and nothing is stored.  The server's own waits for OCSP   *)
(* may be longer than the timeout, so it may still be at work.             *)
ClientGivesUp ==
  /\ ecClient.state = "waiting"
  /\ ecClient' = [ecClient EXCEPT !.state = "refused"]
  /\ UNCHANGED <<ecInput, ecWalk, ecAnswer>>

(* The first four flags are asked with `not`, which an answer that lacks   *)
(* one fails; the others with `is False`, which it does not.               *)
NamedWhenMissing == {"cms", "hash", "iin", "date"}

FailedChecks(answer) ==
  (answer.told \ answer.passed) \cup (NamedWhenMissing \ answer.told)

(* validation_error: the answer's own error if it has one; of an answer    *)
(* that is not ok without one, the failed checks, or that it failed.       *)
Why(answer) ==
  LET lines == {Complaint[c] : c \in FailedChecks(answer)}
  IN CASE answer.error -> {OwnWords}
       [] ~answer.error /\ answer.ok -> {}
       [] ~answer.error /\ ~answer.ok -> IF lines = {} THEN {Fallback} ELSE lines

(* The signature is stored, valid or not.                                  *)
Store(answer, checked) ==
  /\ ecClient' = [state |-> "stored", valid |-> answer.ok, checked |-> checked,
                  why |-> Why(answer)]
  /\ UNCHANGED <<ecInput, ecWalk, ecAnswer>>

(* What the server sends: every flag, and an empty error.                  *)
ServerAnswer ==
  [told |-> Checks, passed |-> ecAnswer, ok |-> ecAnswer = Checks, error |-> FALSE]

StoreSignature ==
  /\ ecClient.state = "waiting"
  /\ ecWalk.stage = "answered"
  /\ Store(ServerAnswer, TRUE)

(* A verifier of which the client knows nothing but that it sends JSON.    *)
StoreOtherAnswer ==
  /\ ecClient.state = "waiting"
  /\ ecInput.verifier = "other"
  /\ \E answer \in EcAnswer : answer.passed \subseteq answer.told /\ Store(answer, TRUE)

(* skip_key_validation: complete_signing makes up the answer itself.       *)
SkippedAnswer == [told |-> {}, passed |-> {}, ok |-> TRUE, error |-> FALSE]

StoreUnchecked ==
  /\ ecClient.state = "begun"
  /\ ecInput.skip
  /\ Store(SkippedAnswer, FALSE)

EcNext ==
  \/ ServerFails \/ ReadCms \/ ChainHolds \/ ChainClimbs \/ ChainBreaks \/ CheckOcsp
  \/ RefuseClaimedIin \/ AskVerifier \/ ClientGivesUp
  \/ StoreSignature \/ StoreOtherAnswer \/ StoreUnchecked

EcSpec == EcInit /\ [][EcNext]_ecVars

-----------------------------------------------------------------------------
(* The chains of at most MaxDepth links from the signer's certificate up   *)
(* to a trusted one: each in date and certified by the next.               *)
GoodChains ==
  {chain \in UNION {[1 .. n -> Certs] : n \in 2 .. (MaxDepth + 1)} :
     /\ chain[1] = 1
     /\ \A i \in DOMAIN chain : InDate(chain[i])
     /\ \A i \in 1 .. (Len(chain) - 1) :
          chain[i + 1] \in ecInput.issuers[chain[i]] \cap AtHand
     /\ IsTrusted(chain[Len(chain)])}

(* The only certificate at hand that can follow.                           *)
OnlyChain(chain) ==
  \A i \in 1 .. (Len(chain) - 1) :
    ecInput.issuers[chain[i]] \cap AtHand = {chain[i + 1]}

(* The reason that is stored, compared with the CMS, the request and the  *)
(* certificates themselves.                                                *)
ReasonFitsTheWorld ==
  LET says(text) == text \in ecClient.why IN
  /\ says("CMS signature is invalid") <=> "cms" \notin ecInput.passes
  /\ says("Document hash does not match") <=> "hash" \notin ecInput.passes
  /\ says("Certificate IIN does not match") <=> "iin" \notin ecInput.passes
  /\ says("Certificate type is not allowed") <=> "type" \notin ecInput.passes
  /\ says("Certificate is out of date") <=> ~InDate(1)
  /\ says("Certificate chain is not trusted") => ~ \E chain \in GoodChains : OnlyChain(chain)
  /\ GoodChains = {} => says("Certificate chain is not trusted")

(* A signature stored after EcpVerifierServer has checked it counts as     *)
(* valid only where a chain of certificates in date, and not too long,     *)
(* leads to a trusted one, and names what speaks against it: exactly the   *)
(* checks of the CMS and its certificate that fail, the chain where there  *)
(* is none, and never where there is one and no other to follow, though    *)
(* one program checks and another one words it.  Whoever answers, a        *)
(* signature that does not count says why; and one that nobody checked is  *)
(* an admission contract's and not marked as checked                       *)
(* (EcpVerifierServer.java:178-185, 508-571,                               *)
(* ecp_signing_service.py:107-159, 245).                                   *)
ValidityFollowsTheChain ==
  ecClient.state = "stored" =>
    /\ ecClient.checked /\ ecInput.verifier = "server" =>
         /\ ecClient.valid => GoodChains # {}
         /\ ReasonFitsTheWorld
    /\ ecClient.valid \/ ecClient.why # {}
    /\ ecWalk.stage = "idle" /\ ecInput.verifier = "server" => ecInput.skip /\ ~ecClient.checked
=============================================================================
