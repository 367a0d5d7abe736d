------------------------------ MODULE MCWebsite ------------------------------
EXTENDS Website, Integers

CONSTANTS alice, bob, viewer, editor, res1

(* An admin and a member account. *)
MCUsers == {alice, bob}
MCRoleOf == [u \in MCUsers |-> IF u = alice THEN "admin" ELSE "member"]

(* Answers of GET billing/plans/active: none (getActivePlans throws), one *)
(* plan, two and three plans. A half-day ttl (rounds up to 1 day), a       *)
(* one-hour ttl (0 days), unlimited links and retention, a zero ttl, and   *)
(* a plan without features.                                                 *)
planA == [id |-> 1, is_active |-> TRUE, hasFeatures |-> TRUE,
          max_links |-> 5000, ttl |-> 43200, customer_domain |-> TRUE]
planB == [id |-> 2, is_active |-> TRUE, hasFeatures |-> TRUE,
          max_links |-> -1, ttl |-> -1, customer_domain |-> FALSE]
planC == [id |-> 3, is_active |-> FALSE, hasFeatures |-> TRUE,
          max_links |-> 0, ttl |-> 3600, customer_domain |-> FALSE]
planD == [id |-> 4, is_active |-> TRUE, hasFeatures |-> FALSE,
          max_links |-> 10, ttl |-> 0, customer_domain |-> TRUE]
MCPlanAnswers == {<< >>, <<planA>>, <<planC, planB>>, <<planD, planA, planB>>}

(* Fixture roles and one resource for the older permissions page (the     *)
(* repository's fixtures are empty); the two ends of the scope mask.      *)
MCPermRoles == <<viewer, editor>>
MCToggleScopes == {1, 8}

=============================================================================
