------------------------------ MODULE BackOffice ------------------------------
(***************************************************************************)
(* The four parts of the back office that share no row with one another:   *)
(* allocation of stock, commissions of partners, customer payments, flash  *)
(* sales.                                                                  *)
(*                                                                         *)
(* As no action of one reads or writes a variable of another, a property   *)
(* of one part holds of their interleavings if and only if it holds of the *)
(* runs of that part alone: part is chosen at the start, and only that     *)
(* part moves.                                                             *)
(***************************************************************************)
EXTENDS Allocation, Partners, Payments, Sales

VARIABLE part

Parts == {"allocation", "partners", "payments", "sales"}

backOfficeVars == <<allocationVars, partnersVars, paymentsVars, salesVars, part>>

BackOfficeInit ==
  /\ AllocationInit
  /\ PartnersInit
  /\ PaymentsInit
  /\ SalesInit
  /\ part \in Parts
  /\ part # "allocation" => total = 0
  /\ part # "partners" => phase = "none"

BackOfficeNext ==
  /\ UNCHANGED part
  /\ \/ /\ part = "allocation" /\ AllocationNext
        /\ UNCHANGED <<partnersVars, paymentsVars, salesVars>>
     \/ /\ part = "partners" /\ PartnersNext
        /\ UNCHANGED <<allocationVars, paymentsVars, salesVars>>
     \/ /\ part = "payments" /\ PaymentsNext
        /\ UNCHANGED <<allocationVars, partnersVars, salesVars>>
     \/ /\ part = "sales" /\ SalesNext
        /\ UNCHANGED <<allocationVars, partnersVars, paymentsVars>>

BackOfficeSpec == BackOfficeInit /\ [][BackOfficeNext]_backOfficeVars

BackOfficeTypeOK ==
  AllocationTypeOK /\ PartnersTypeOK /\ PaymentsTypeOK /\ SalesTypeOK
=============================================================================
