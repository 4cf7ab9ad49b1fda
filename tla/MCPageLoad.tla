------------------------------ MODULE MCPageLoad ------------------------------
(* PageLoad for a page with one request and a filter (Tags is Devices with   *)
(* other texts) and for the two pages that await two requests together.      *)
EXTENDS PageLoad
=============================================================================
