-------------------------- MODULE MCServerRegistry ----------------------------
(* The instance of ServerRegistry that TLC checks: with three requests over *)
(* two hostnames and two addresses, two can share a hostname while a third  *)
(* shares an address with either.                                           *)
EXTENDS ServerRegistry
===============================================================================
