------------------------- MODULE MCPermissionMatrix -------------------------
EXTENDS PermissionMatrix, TLC

(* Two scopes, one at each end of the mask. *)
MCToggleScopes == {SCOPE_READ, SCOPE_DELETE}

MCSymmetry == Permutations(Resources)

-----------------------------------------------------------------------------
(* Reference reading of a mask by division, with no bitwise operator. *)
ScopeSet(m) == {s \in ScopeValues : (m \div s) % 2 = 1}

(* hasScope and getPermissionCount (the "n/4" badge) agree with the scope *)
(* set each permission row's mask stands for, after any sequence of       *)
(* toggleScope clicks on it (the & ~scope / | scope of page.tsx:68).       *)
ScopeViewMatchesReference ==
    \A i \in DOMAIN permissions :
        LET m == permissions[i].scopes IN
        /\ \A s \in ScopeValues : HasScope(m, s) <=> s \in ScopeSet(m)
        /\ GetPermissionCount(m) = Cardinality(ScopeSet(m))

=============================================================================
