-------------------------- MODULE MCPollingStation --------------------------
(* Instances of PollingStation for TLC: more voters than the first ring keeps, *)
(* the last four of which are let in; one of them has no desk.                 *)
EXTENDS PollingStation
TenVoters == <<"M", "M", "F", "F", "M", "F", "M", "F", "other", "M">>
=============================================================================
