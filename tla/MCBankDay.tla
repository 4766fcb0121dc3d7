------------------------------ MODULE MCBankDay ------------------------------
(* Instances of BankDay for TLC. *)
EXTENDS BankDay

(* A day of five arrivals, the last past stopAfter.  1 and 3 are worked at the  *)
(* first desk and may hand 6 and 7 to the second; 4 may hand on 6 again, as two *)
(* requests of one customer do (fs-servicing: `arrears-from-${customer.id}`);   *)
(* 7 may hand on 8; no desk takes 2 or 8.                                       *)
MCKindOf == <<"alert", "other", "alert", "complaint", "alert", "complaint", "complaint", "other">>
MCFollower == <<6, 0, 7, 6, 0, 0, 8, 0>>
MCDeskKinds == <<{"alert"}, {"complaint"}>>
MCLanes == 1 .. 3
MCDeskOf == <<1, 1, 2>>
=============================================================================
