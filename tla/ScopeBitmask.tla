---------------------------- MODULE ScopeBitmask ----------------------------
(***************************************************************************)
(* The scope bitmask of app/admin/(dashboard)/settings/permissions/page.tsx *)
(* as operators on integers: the scope constants, hasScope, the toggle of  *)
(* toggleScope and the count of getPermissionCount. JavaScript's bitwise   *)
(* operators work on 32-bit two's complement integers. Masks are          *)
(* non-negative, so mask & ~x never keeps the sign bit of ~x and ~x is     *)
(* exact as its low 31 bits, 2^31 - 1 - x.                                 *)
(***************************************************************************)
EXTENDS Integers, FiniteSets, Sequences, Bitwise

MaxInt32 == 2147483647   \* 2^31 - 1, the low 31 bits all set

SCOPE_READ   == 1
SCOPE_CREATE == 2
SCOPE_UPDATE == 4
SCOPE_DELETE == 8

SCOPES == <<SCOPE_READ, SCOPE_CREATE, SCOPE_UPDATE, SCOPE_DELETE>>

ScopeValues == {SCOPES[i] : i \in 1..4}

(* JavaScript ~x, as seen by & with a non-negative mask. *)
BitNot(x) == MaxInt32 - x

(* hasScope: (perm.scopes & scope) === scope *)
HasScope(mask, scope) == (mask & scope) = scope

(* mask | ~scope written for mask & ~scope. *)
ToggleMaskOrNot(mask, scope) ==
    IF HasScope(mask, scope) THEN mask | BitNot(scope) ELSE mask | scope

(* The new scopes of toggleScope for an existing row. *)
ToggleMask(mask, scope) ==
    IF HasScope(mask, scope) THEN mask & BitNot(scope) ELSE mask | scope

(* A count loop that stops one scope short. *)
GetPermissionCountShort(mask) ==
    Cardinality({i \in 1..Len(SCOPES) - 1 : HasScope(mask, SCOPES[i])})

(* getPermissionCount: the SCOPES whose bit is set in the row's mask. *)
GetPermissionCount(mask) ==
    Cardinality({i \in DOMAIN SCOPES : HasScope(mask, SCOPES[i])})

=============================================================================
