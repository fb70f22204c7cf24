----------------------------- MODULE MCLinkSession -----------------------------
(* Calls that start a link page, a browser and a clock. *)
EXTENDS LinkSession
===============================================================================
