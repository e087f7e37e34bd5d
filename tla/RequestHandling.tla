-------------------------- MODULE RequestHandling ---------------------------
(***************************************************************************)
(* The components that answer requests.  They share no state but documents *)
(* whose other fields another component owns, so that a behaviour of all   *)
(* of them is one that is a behaviour of each.                             *)
(***************************************************************************)
EXTENDS Billing, Memberships, StatusPages, ApiAdmission

RequestsSpec == BillingSpec /\ MemberSpec /\ StatusSpec /\ AdmissionSpec

-----------------------------------------------------------------------------
\* The type of every component's state.
RequestsTypeOK == BillingTypeOK /\ MemberTypeOK /\ StatusTypeOK /\ AdmissionTypeOK
=============================================================================
