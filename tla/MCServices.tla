----------------------------- MODULE MCServices -----------------------------
(* An instance of Services for TLC: two clients, an address that fits and   *)
(* one that does not, and a row that can be replaced.                       *)
EXTENDS Services

MCVisits == {"low", "high"}
MCTooHigh == {"high"}
=============================================================================
