------------------------ MODULE MCDocumentServices ------------------------
(* Instances of the services around a document or a contract that share no *)
(* state with each other: a behaviour runs one of them, the others stay as *)
(* they are.                                                               *)
EXTENDS AuditChain, SmsOtp, Ledger, LawVision, Evidence, Admissions, Templates,
        EcpVerifier, AdmissionData, MoneyWords, TLC

VARIABLE focus

CONSTANTS r1, r2, r3, a1, a2, None

TwoRequests == {r1, r2}
ThreeRequests == {r1, r2, r3}
Pair == {a1, a2}
Symmetry == Permutations(TwoRequests) \cup Permutations(Pair)

ThreeCerts == 1 .. 3
RootAndIntermediate == {{3}, {2, 3}}

(* Every triplet once in units and once in thousands, and some gaps.       *)
MCAmounts ==
  0 .. 1121 \cup {1000 * n : n \in 0 .. 1121} \cup {1001001, 2014019, 999999, 10010010}

(* Certificate 3 is a root, 2 is issued by itself or by 3; the checks that *)
(* are no chain hold or one of them fails.                                 *)
SmallPki ==
  [issuers : {[c \in 1 .. 3 |-> IF c = 1 THEN one ELSE IF c = 2 THEN two ELSE three] :
                one \in SUBSET (1 .. 3), two \in SUBSET {2, 3}, three \in SUBSET {3}},
   inDate : SUBSET (1 .. 3), inCms : SUBSET (1 .. 3), trusted : TrustedSets,
   passes : {{"cms", "hash", "iin", "type"}, {"cms", "iin", "type"}},
   skip : {FALSE}, claimsOther : {FALSE}, verifier : {"server"}]

OneInput == [issuers |-> [c \in Certs |-> {}], inDate |-> {}, inCms |-> {1},
             trusted |-> {3}, passes |-> {}, skip |-> FALSE, claimsOther |-> FALSE,
             verifier |-> "server"]

(* Where there is no chain: every check of the CMS, and every request to   *)
(* either verifier.                                                        *)
NoPki ==
  {[OneInput EXCEPT !.passes = p] : p \in SUBSET {"cms", "hash", "iin", "type"}} \cup
  {[OneInput EXCEPT !.skip = s, !.claimsOther = c, !.verifier = v] :
     s \in BOOLEAN, c \in BOOLEAN, v \in {"server", "other"}}

OneContract == [present |-> TRUE, status |-> "student_signing", version |-> 0,
                signer |-> [p \in AdParties |-> "pending"]]

(* The party's own field may be of money, and the text may say its words.  *)
WordsOfOwn == [name \in SchemaNames \cup SystemNames \cup OwnNames |->
                 IF name \in OwnNames THEN FileNames ELSE {}]

(* A third session is of interest until it is created.                     *)
SmallSms == smsSession[3].code = NoCode

(* Requests one after the other may make two files and then a document or  *)
(* a preview; those that overlap are of the template's file alone.         *)
SmallTemplates ==
  IF tpSerial THEN tpFiles <= 2 /\ (tpDoc.present => tpRow.preview = 0)
  ELSE ~tpDoc.present /\ ~tpParty.present /\ tpRow.schema = {} /\ tpRow.variables = {}

ServicesInit ==
  /\ focus \in {"audit", "sms", "ledger", "lawvision", "evidence", "admissions",
                "templates", "verifier", "data", "words"}
  /\ focus # "lawvision" => lvHash = 0
  /\ adSerial \in IF focus = "admissions" THEN BOOLEAN ELSE {FALSE}
  /\ ~adSerial => adContract = OneContract
  /\ focus # "templates" => tpSerial = FALSE /\ tpText = [f \in TpFile |-> {}]
  /\ ecInput \in IF focus = "verifier" THEN SmallPki \cup NoPki ELSE {OneInput}
  /\ focus # "data" => dtSerial = FALSE
  /\ focus # "words" => mwAmount = 0
  /\ Init /\ SmsInit /\ LdgInit /\ LvInit /\ EvInit /\ AdInit /\ TpInit /\ EcInit
  /\ DtInit /\ MwInit

ServicesNext ==
  /\ UNCHANGED focus
  /\ IF focus = "audit" THEN Next ELSE UNCHANGED vars
  /\ IF focus = "sms" THEN SmsNext /\ SmallSms' ELSE UNCHANGED smsVars
  /\ IF focus = "ledger" THEN LdgNext ELSE UNCHANGED ldgVars
  /\ IF focus = "lawvision" THEN LvNext ELSE UNCHANGED lvVars
  /\ IF focus = "evidence" THEN EvNext ELSE UNCHANGED evVars
  /\ IF focus = "admissions" THEN AdNext ELSE UNCHANGED adVars
  /\ IF focus = "templates" THEN TpNext /\ SmallTemplates' ELSE UNCHANGED tpVars
  /\ IF focus = "verifier" THEN EcNext ELSE UNCHANGED ecVars
  /\ IF focus = "data" THEN DtNext ELSE UNCHANGED dtVars
  /\ IF focus = "words" THEN MwNext ELSE UNCHANGED mwVars

ServicesSpec ==
  /\ ServicesInit
  /\ [][ServicesNext]_<<focus, vars, smsVars, ldgVars, lvVars, evVars, adVars, tpVars,
                        ecVars, dtVars, mwVars>>

(* The variables of the service keep their types, in particular statuses   *)
(* that are compared with each other are statuses of the same row.         *)
ServicesTypeOK ==
  /\ focus = "audit" => TypeOK
  /\ focus = "sms" => SmsTypeOK
  /\ focus = "ledger" => LdgTypeOK
  /\ focus = "lawvision" => LvTypeOK
  /\ focus = "evidence" => EvTypeOK
  /\ focus = "admissions" => AdTypeOK
  /\ focus = "templates" => TpTypeOK
  /\ focus = "verifier" => EcTypeOK
  /\ focus = "data" => DtTypeOK
  /\ focus = "words" => MwTypeOK
=============================================================================
