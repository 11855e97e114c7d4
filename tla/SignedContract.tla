---------------------------- MODULE SignedContract ----------------------------
(***************************************************************************)
(* What signing promises, without requests, copies, locks or providers: a  *)
(* roll of people who must sign, the seals they have set, and the final    *)
(* mark.  The roll is open until the first seal; a seal is never taken     *)
(* back; the mark is set only when everybody on the roll has sealed, and   *)
(* is never taken back.                                                    *)
(***************************************************************************)
CONSTANT People

VARIABLES roll, sealed, final

contract == <<roll, sealed, final>>

Init ==
  /\ roll \subseteq People
  /\ sealed = {}
  /\ final = FALSE

Enroll ==
  /\ sealed = {}
  /\ \E invited \in SUBSET People : roll' = roll \cup invited
  /\ UNCHANGED <<sealed, final>>

MarkFinal ==
  /\ sealed' # {}
  /\ roll \subseteq sealed'
  /\ final' = TRUE

Seal ==
  /\ \E p \in People : sealed' = sealed \cup {p}
  /\ MarkFinal \/ UNCHANGED final
  /\ UNCHANGED roll

Finish ==
  /\ UNCHANGED <<roll, sealed>>
  /\ MarkFinal

Next == Enroll \/ Seal \/ Finish

Spec == Init /\ [][Next]_contract
=============================================================================
