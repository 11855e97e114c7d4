-------------------------- MODULE AdmissionContract --------------------------
(***************************************************************************)
(* What an admission contract promises about its signatures, without       *)
(* requests, copies, locks or the mirror: the applicant signs first, the   *)
(* vice rector, if the contract has one, only what the applicant has       *)
(* signed, each of them once; it is called complete only while everybody   *)
(* who has to has signed; no signature goes but with the whole contract,   *)
(* and a contract that is gone does not come back.                         *)
(***************************************************************************)
CONSTANTS Applicant, Rector

VARIABLES there, countersigned, sealed, complete

contract == <<there, countersigned, sealed, complete>>

Required == IF countersigned THEN {Applicant, Rector} ELSE {Applicant}

Init ==
  /\ there = TRUE
  /\ countersigned \in BOOLEAN
  /\ sealed = {}
  /\ complete = FALSE

Seal(party) ==
  /\ there
  /\ party \in Required \ sealed
  /\ party = Rector => Applicant \in sealed
  /\ sealed' = sealed \cup {party}
  /\ UNCHANGED <<there, countersigned, complete>>

(* Written from an old copy, the word may also be taken back.              *)
CallComplete ==
  /\ there
  /\ complete' \in BOOLEAN
  /\ complete' => Required \subseteq sealed
  /\ UNCHANGED <<there, countersigned, sealed>>

Withdraw ==
  /\ there
  /\ there' = FALSE
  /\ countersigned' = FALSE
  /\ sealed' = {}
  /\ complete' = FALSE

Next == (\E party \in {Applicant, Rector} : Seal(party)) \/ CallComplete \/ Withdraw

Spec == Init /\ [][Next]_contract
=============================================================================
