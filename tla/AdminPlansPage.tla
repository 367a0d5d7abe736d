--------------------------- MODULE AdminPlansPage ---------------------------
(***************************************************************************)
(* app/admin/(dashboard)/plans/page.tsx: fetchPlans on mount (try, catch, *)
(* finally), the optimistic active Switch of each plan card, and the      *)
(* create dialog, whose Create button only closes it.                      *)
(***************************************************************************)
EXTENDS PlanMapper

CONSTANTS
    PlanAnswers   \* the PlanDto arrays the active-plans endpoint may answer

VARIABLES
    apLoading,    \* isLoading: set, never read; the fetch is in flight
    apPlans,      \* plans
    apDtos,       \* history: the answer apPlans was mapped from
    apCreateOpen  \* isCreateOpen

vars == <<apLoading, apPlans, apDtos, apCreateOpen>>

Init ==
    /\ apLoading = TRUE /\ apPlans = << >> /\ apDtos = << >>
    /\ apCreateOpen = FALSE

(* getActivePlans answers: setPlans on success; an empty answer makes     *)
(* getActivePlans throw, which the catch turns into a toast; finally       *)
(* setIsLoading(false).                                                    *)
FetchPlans(dtos) ==
    /\ apLoading
    /\ IF Throws(dtos) THEN UNCHANGED <<apPlans, apDtos>>
       ELSE apPlans' = ActivePlans(dtos) /\ apDtos' = dtos
    /\ apLoading' = FALSE
    /\ UNCHANGED apCreateOpen

(* The request fails: success is false and plans stay as they are. *)
FetchFails ==
    /\ apLoading
    /\ apLoading' = FALSE
    /\ UNCHANGED <<apPlans, apDtos, apCreateOpen>>

(* handleToggleActive: a local optimistic update, never sent. (isLoading  *)
(* is never read: the page renders its cards at once.)                     *)
HandleToggleActive(i) ==
    /\ apPlans' = [apPlans EXCEPT ![i].isActive = ~@]
    /\ UNCHANGED <<apLoading, apDtos, apCreateOpen>>

(* The Add Plan trigger, Cancel, Create Plan and onOpenChange. *)
SetCreateOpen(open) ==
    /\ apCreateOpen # open
    /\ apCreateOpen' = open
    /\ UNCHANGED <<apLoading, apPlans, apDtos>>

Next ==
    \/ \E d \in PlanAnswers : FetchPlans(d)
    \/ FetchFails
    \/ \E i \in DOMAIN apPlans : HandleToggleActive(i)
    \/ \E o \in BOOLEAN : SetCreateOpen(o)

Spec == Init /\ [][Next]_vars

-----------------------------------------------------------------------------
(* The plan cards show what the server answered: every plan is mapped     *)
(* from the PlanDto at its position with the features of the reference,   *)
(* and exactly the middle plan is marked popular.                          *)
PlansMatchAnswer ==
    /\ Len(apPlans) = Len(apDtos)
    /\ \A i \in DOMAIN apPlans :
         /\ apPlans[i].id = apDtos[i].id
         /\ FeaturesMatchReference(apPlans[i], apDtos[i])
         /\ apPlans[i].isPopular <=> i = Len(apDtos) \div 2 + 1

=============================================================================
