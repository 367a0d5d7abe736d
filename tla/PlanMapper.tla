---------------------------- MODULE PlanMapper -----------------------------
(***************************************************************************)
(* PlanMapper.toDomain (lib/api/mappers/plan.mapper.ts) and the popular   *)
(* mark of PlanService.getActivePlans (lib/api/services/plan.service.ts)   *)
(* as operators on PlanDto records. Names, descriptions, prices and dates  *)
(* are display data and left out; a feature is its translation key and    *)
(* its count parameter (0 when it has none).                               *)
(***************************************************************************)
EXTENDS Integers, Sequences, FiniteSets

(* A PlanDto: `hasFeatures` is whether dto.features is set. *)
PlanDtos(Ids, LinkCounts, Ttls) ==
    [id : Ids, is_active : BOOLEAN, hasFeatures : BOOLEAN,
     max_links : LinkCounts, ttl : Ttls, customer_domain : BOOLEAN]

DAY == 86400

(* A feature: its key (the suffix of "pricing.feature.<key>"), the name of *)
(* its one param ("none" without params) and the param's value.            *)
Feature(k, p, n) == [key |-> k, param |-> p, n |-> n]

(* Whole days rounded down. *)
RetentionDaysFloor(ttl) == ttl \div DAY

(* Math.round(ttl / 86400) for a positive ttl: halves round up. *)
RetentionDays(ttl) == (ttl + DAY \div 2) \div DAY

LinkFeature(dto) ==
    IF dto.max_links > 0 THEN << Feature("links", "count", dto.max_links) >>
    ELSE IF dto.max_links = -1 THEN << Feature("unlimitedLinks", "none", 0) >>
    ELSE << >>

DomainFeature(dto) ==
    IF dto.customer_domain THEN << Feature("customDomains", "none", 0) >> ELSE << >>

(* The retention feature passing the days as { count: days }. *)
RetentionFeatureCountParam(dto) ==
    IF dto.ttl > 0 THEN << Feature("retention", "count", RetentionDays(dto.ttl)) >>
    ELSE IF dto.ttl = -1 THEN << Feature("unlimitedRetention", "none", 0) >>
    ELSE << >>

RetentionFeature(dto) ==
    IF dto.ttl > 0 THEN << Feature("retention", "days", RetentionDays(dto.ttl)) >>
    ELSE IF dto.ttl = -1 THEN << Feature("unlimitedRetention", "none", 0) >>
    ELSE << >>

mapFeaturesToDomain(dto) ==
    IF ~dto.hasFeatures THEN << >>
    ELSE LinkFeature(dto) \o DomainFeature(dto) \o RetentionFeature(dto)

toDomain(dto) ==
    [id |-> dto.id, isActive |-> dto.is_active, isPopular |-> FALSE,
     features |-> mapFeaturesToDomain(dto)]

(* getActivePlans on a successful answer: plans[Math.floor(length / 2)]   *)
(* .isPopular = true. With no plans that element is undefined and the     *)
(* assignment throws, so the call rejects instead of returning.            *)
Throws(dtos) == Len(dtos) = 0

ActivePlans(dtos) ==
    LET plans == [i \in DOMAIN dtos |-> toDomain(dtos[i])]
    IN [plans EXCEPT ![Len(dtos) \div 2 + 1].isPopular = TRUE]

-----------------------------------------------------------------------------
(* A reference for the features of a plan, written from what the pricing  *)
(* card shows rather than from the mapper's branches: the set of feature  *)
(* keys, and the retention in whole days, nearest day, halves up.          *)
NearestDays(ttl) ==
    CHOOSE d \in 0..(ttl \div DAY + 1) :
        (2 * d - 1) * DAY <= 2 * ttl /\ 2 * ttl < (2 * d + 1) * DAY

ReferenceKeys(dto) ==
    IF ~dto.hasFeatures THEN {}
    ELSE {k \in {"links", "unlimitedLinks", "customDomains", "retention",
                 "unlimitedRetention"} :
            \/ k = "links" /\ dto.max_links > 0
            \/ k = "unlimitedLinks" /\ dto.max_links = -1
            \/ k = "customDomains" /\ dto.customer_domain
            \/ k = "retention" /\ dto.ttl > 0
            \/ k = "unlimitedRetention" /\ dto.ttl = -1}

(* The features of a mapped plan are those of the reference, once each,   *)
(* with the link count and the retention days of the reference.           *)
FeaturesMatchReference(plan, dto) ==
    LET fs == plan.features IN
    /\ {fs[i].key : i \in DOMAIN fs} = ReferenceKeys(dto)
    /\ Len(fs) = Cardinality(ReferenceKeys(dto))
    /\ \A i \in DOMAIN fs :
         /\ fs[i].key = "retention" => fs[i].n = NearestDays(dto.ttl)
         /\ fs[i].key = "links" => fs[i].n = dto.max_links

=============================================================================
