---------------------------- MODULE MCRevocation ----------------------------
(* Small instances of Revocation for TLC: alert a1 is for all sessions, a2  *)
(* for one token, a3 for none.  Only a3 is delivered once.                 *)
EXTENDS Revocation

CONSTANTS a1, a2, a3, t1, t2

MCTarget == [a \in Alerts |-> CASE a = a1 -> AllTokens [] a = a2 -> t1 [] OTHER -> Irrelevant]

MCJti == [q \in Requests |-> t1]

\* t1 comes from sign, t2 from issueJwt.
MCLife == [t \in Tokens |-> IF t = t1 THEN 0 ELSE 1]

MCDeliveries == [a \in Alerts |-> IF a = a3 THEN 1 ELSE 2]
=============================================================================
