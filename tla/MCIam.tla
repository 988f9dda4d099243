-------------------------------- MODULE MCIam --------------------------------
(***************************************************************************)
(* Four parts of src/iam-service that share no state: the authorization    *)
(* middleware, the multi-factor challenges, the listings, and the changes  *)
(* of roles and rules.  A behaviour is a behaviour of one of them while    *)
(* the others rest at a state they may begin in, so every property of one  *)
(* part is checked on all its behaviours and on no product of parts.       *)
(***************************************************************************)
EXTENDS MCAuthz, Mfa, Pagination, RoleEvents

VARIABLE part

(* Rows two and three, four and five are sessions of the same instant.     *)
MCId   == [r \in Rows |-> r]
MCAge  == [r \in Rows |-> <<1, 2, 2, 3, 3>>[r]]

-----------------------------------------------------------------------------
iamVars == <<part, authzVars, mfaVars, paginationVars, roleEventsVars>>

Init ==
  /\ part \in {"authz", "mfa", "listing", "roles"}
  /\ barred = {} /\ (part # "authz" => rolePolicies = {})
  /\ part # "listing" => /\ present = {} /\ route = "roles"
                         /\ caller = [admin |-> FALSE, reads |-> {}, own |-> FALSE]
  /\ AuthzInit /\ MfaInit /\ PaginationInit /\ RoleEventsInit

(* An action of one part; the others rest.                                 *)
OfAuthz(A) ==
  part = "authz" /\ A /\ UNCHANGED <<part, mfaVars, paginationVars, roleEventsVars>>

OfMfa(A) ==
  part = "mfa" /\ A /\ UNCHANGED <<part, authzVars, paginationVars, roleEventsVars>>

OfListing(A) ==
  part = "listing" /\ A /\ UNCHANGED <<part, authzVars, mfaVars, roleEventsVars>>

OfRoles(A) ==
  part = "roles" /\ A /\ UNCHANGED <<part, authzVars, mfaVars, paginationVars>>

Next ==
  \/ OfAuthz(AuthzNext)
  \/ OfMfa(MfaNext)
  \/ OfListing(PaginationNext)
  \/ OfRoles(RoleEventsNext)

Spec == Init /\ [][Next]_iamVars

(* Node resumes the calls whose await is over, the keys of Redis run out,  *)
(* and a client that has a page asks for the next one.                     *)
FairSpec ==
  /\ Spec
  /\ WF_iamVars(OfAuthz(Tick))
  /\ \A r \in Requests : WF_iamVars(OfAuthz(Step(r)))
  /\ WF_iamVars(OfMfa(MfaProgress) \/ OfListing(NextPage))

-----------------------------------------------------------------------------
(* Every request of the IAM service is answered and every walk over a      *)
(* listing ends, whatever failed; and a subject whose rules were taken     *)
(* away for good is refused in the end.                                    *)
IamAnswers == RefusalTakesEffect /\ EveryRequestAnswered /\ EveryCallAnswered /\ WalkEnds
=============================================================================
