--------------------------- MODULE WorkspacePage ---------------------------
(***************************************************************************)
(* The workspace page app/(dashboard)/workspace/[slug]/page.tsx and the   *)
(* LinkService it calls (lib/api/services/link.service.ts). The service is *)
(* a singleton whose sessionLinks outlive the page; its methods resolve    *)
(* after a setTimeout (simulateDelay), and each timer callback runs the    *)
(* rest of the method and the page's continuation as one task. Link       *)
(* objects are shared by reference: the page's links array and            *)
(* sessionLinks hold the same objects, and toggleLinkStatus flips isActive *)
(* in place. So the page list is a sequence of ids and `active` is the     *)
(* heap. Handlers capture `links` of the render they were created in,      *)
(* which is the page's list at the time of the click.                      *)
(***************************************************************************)
EXTENDS Integers, Sequences, SequencesExt

CONSTANTS
    Urls,         \* URLs typed: some parse with new URL(), some do not
    ValidUrls,    \* those that parse
    Aliases,      \* custom aliases typed; Generated may be one of them
    Generated,    \* generateShortCode() (fake-data.ts returns "abcdef")
    Empty,        \* ""
    SlugFound,    \* values of "getTenantBySlug(slug) finds the workspace"
    MaxLinks,     \* links created in total
    MaxPending    \* service calls in flight at once

VARIABLES
    sessionLinks, \* LinkService.sessionLinks: ids, newest first
    code,         \* heap: shortCode of each link object
    alias,        \* heap: customAlias of each link object (Empty if none)
    active,       \* heap: isActive of each link object
    phase,        \* "tenant" / "links" while isLoading, "notFound", "ready"
    links,        \* the page's links state: ids
    isCreateOpen, newUrl, newAlias, isCreating,
    pending,      \* service calls in flight, in the order they were made
    created       \* links created so far (`link-${Date.now()}` ids)

service == <<sessionLinks, code, alias, active, created>>
page    == <<phase, links, isCreateOpen, newUrl, newAlias, isCreating>>
vars    == <<service, page, pending>>

Ids == 1..MaxLinks

(* simulateDelay of each call (ms). *)
Delay == [create |-> 600, toggle |-> 300, delete |-> 400]

(* A call in flight: its kind, its arguments (the link id; the URL and   *)
(* alias of a create, 0 for the id),                                       *)
(* the `links` its handler captured, and whether the page instance that    *)
(* made it is still mounted.                                               *)
CallRec == [kind : {"create", "toggle", "delete"},
            link : Ids \cup {0}, url : Urls \cup {Empty},
            al   : Aliases \cup {Empty},
            snap : Seq(Ids), live : BOOLEAN]

TypeOK ==
    /\ sessionLinks \in Seq(Ids)
    /\ code \in [Ids -> Aliases \cup {Generated, Empty}]
    /\ alias \in [Ids -> Aliases \cup {Empty}]
    /\ active \in [Ids -> BOOLEAN]
    /\ phase \in {"tenant", "links", "notFound", "ready"}
    /\ links \in Seq(Ids)
    /\ isCreateOpen \in BOOLEAN /\ isCreating \in BOOLEAN
    /\ newUrl \in Urls \cup {Empty} /\ newAlias \in Aliases \cup {Empty}
    /\ pending \in Seq(CallRec) /\ Len(pending) <= MaxPending
    /\ created \in 0..MaxLinks

(* A fresh mount: useState initialisers, isLoading, and loadData started. *)
PageInit ==
    /\ phase = "tenant" /\ links = << >>
    /\ isCreateOpen = FALSE /\ newUrl = Empty /\ newAlias = Empty
    /\ isCreating = FALSE

(* sessionLinks = [...fakeLinks], which is empty. *)
ServiceInit ==
    /\ sessionLinks = << >> /\ created = 0
    /\ code = [i \in Ids |-> Empty] /\ alias = [i \in Ids |-> Empty]
    /\ active = [i \in Ids |-> FALSE]

Init == ServiceInit /\ PageInit /\ pending = << >>

IsLink(id) == \E j \in DOMAIN sessionLinks : sessionLinks[j] = id

(* Calls made before a mount whose timer is due before the page's own    *)
(* loads read anything: every call issued earlier with a shorter delay.    *)
DueBefore(ms) == \A j \in DOMAIN pending : Delay[pending[j].kind] > ms

(* The n-th call's timer fires first among those still pending: every     *)
(* call made before it has a longer delay (timers fire in deadline order). *)
CanResolve(n) == \A j \in 1..(n - 1) : Delay[pending[j].kind] > Delay[pending[n].kind]

Call(kind, id, u, a) ==
    /\ Len(pending) < MaxPending
    /\ pending' = Append(pending, [kind |-> kind, link |-> id, url |-> u, al |-> a,
                                   snap |-> links, live |-> TRUE])

CreatesInFlight == Len(SelectSeq(pending, LAMBDA c : c.kind = "create"))

-----------------------------------------------------------------------------
(* loadData (useEffect on mount): getTenantBySlug, then Promise.all of     *)
(* getTenantStats and getLinks(tenant.id) (page 1, pageSize 10).           *)
LoadTenant(found) ==
    /\ phase = "tenant" /\ DueBefore(400)
    /\ phase' = IF found THEN "links" ELSE "notFound"
    /\ UNCHANGED <<service, links, isCreateOpen, newUrl, newAlias, isCreating, pending>>

LoadLinks ==
    /\ phase = "links" /\ pending = << >>
    /\ phase' = "ready"
    /\ links' = SubSeq(sessionLinks, 1, IF Len(sessionLinks) < 10 THEN Len(sessionLinks) ELSE 10)
    /\ UNCHANGED <<service, isCreateOpen, newUrl, newAlias, isCreating, pending>>

(* The create Dialog (onOpenChange={setIsCreateOpen}: no reset) and the   *)
(* inputs bound to newUrl (dialog and quick-create bar) and newAlias.     *)
SetCreateOpen(open) ==
    /\ phase = "ready" /\ isCreateOpen # open
    /\ isCreateOpen' = open
    /\ UNCHANGED <<service, phase, links, newUrl, newAlias, isCreating, pending>>

TypeUrl(u) ==
    /\ phase = "ready"
    /\ newUrl' = u
    /\ UNCHANGED <<service, phase, links, isCreateOpen, newAlias, isCreating, pending>>

TypeAlias(a) ==
    /\ phase = "ready" /\ isCreateOpen
    /\ newAlias' = a
    /\ UNCHANGED <<service, phase, links, isCreateOpen, newUrl, isCreating, pending>>

(* handleCreateLink, from the dialog's button or the quick-create bar     *)
(* (both disabled while isCreating): with no URL it only raises a toast;   *)
(* otherwise setIsCreating(true) and createLink(tenant.id, ...).           *)
HandleCreateLink ==
    /\ phase = "ready" /\ ~isCreating /\ newUrl # Empty
    /\ created + CreatesInFlight < MaxLinks
    /\ isCreating' = TRUE
    /\ Call("create", 0, newUrl, newAlias)
    /\ UNCHANGED <<service, phase, links, isCreateOpen, newUrl, newAlias>>

(* A row's dropdown: handleToggleStatus(link) and handleDelete(link.id).  *)
(* The rows are behind the modal while the create dialog is open.          *)
HandleToggleStatus(i) ==
    /\ phase = "ready" /\ ~isCreateOpen
    /\ Call("toggle", links[i], Empty, Empty)
    /\ UNCHANGED <<service, page>>

HandleDelete(i) ==
    /\ phase = "ready" /\ ~isCreateOpen
    /\ Call("delete", links[i], Empty, Empty)
    /\ UNCHANGED <<service, page>>

-----------------------------------------------------------------------------
(* The timer of the n-th call fires: the service method runs to its       *)
(* return and the awaiting handler continues; a handler of an unmounted   *)
(* page instance sets state that no longer exists.                         *)

(* createLink: validate the URL, refuse an alias that is some link's      *)
(* shortCode or customAlias, unshift the new link; then the page prepends *)
(* it to the links it captured and resets the form, or only stops          *)
(* creating.                                                               *)
AliasTaken(a) ==
    a # Empty /\ \E j \in DOMAIN sessionLinks : code[sessionLinks[j]] = a
                                               \/ alias[sessionLinks[j]] = a

(* The continuation with setIsCreating(false) on the success path only. *)
ResolveCreateNoFinally(n) ==
    LET c == pending[n]  u == c.url  a == c.al  id == created + 1
        ok == u \in ValidUrls /\ ~AliasTaken(a)
    IN /\ c.kind = "create" /\ CanResolve(n)
       /\ IF ok
          THEN /\ sessionLinks' = <<id>> \o sessionLinks
               /\ code' = [code EXCEPT ![id] = IF a # Empty THEN a ELSE Generated]
               /\ alias' = [alias EXCEPT ![id] = a]
               /\ active' = [active EXCEPT ![id] = TRUE]
               /\ created' = id
          ELSE UNCHANGED service
       /\ IF c.live /\ ok
          THEN /\ isCreating' = FALSE
               /\ links' = <<id>> \o c.snap
               /\ newUrl' = Empty /\ newAlias' = Empty /\ isCreateOpen' = FALSE
          ELSE UNCHANGED <<links, newUrl, newAlias, isCreateOpen, isCreating>>
       /\ pending' = RemoveAt(pending, n)
       /\ UNCHANGED phase

ResolveCreate(n) ==
    LET c == pending[n]  u == c.url  a == c.al  id == created + 1
        ok == u \in ValidUrls /\ ~AliasTaken(a)
    IN /\ c.kind = "create" /\ CanResolve(n)
       /\ IF ok
          THEN /\ sessionLinks' = <<id>> \o sessionLinks
               /\ code' = [code EXCEPT ![id] = IF a # Empty THEN a ELSE Generated]
               /\ alias' = [alias EXCEPT ![id] = a]
               /\ active' = [active EXCEPT ![id] = TRUE]
               /\ created' = id
          ELSE UNCHANGED service
       /\ IF c.live
          THEN /\ isCreating' = FALSE
               /\ IF ok THEN /\ links' = <<id>> \o c.snap
                             /\ newUrl' = Empty /\ newAlias' = Empty
                             /\ isCreateOpen' = FALSE
                        ELSE UNCHANGED <<links, newUrl, newAlias, isCreateOpen>>
          ELSE UNCHANGED <<links, newUrl, newAlias, isCreateOpen, isCreating>>
       /\ pending' = RemoveAt(pending, n)
       /\ UNCHANGED phase

(* toggleLinkStatus flips isActive of the shared object; the page then    *)
(* sets links to its captured list with that same object in place.         *)
ResolveToggle(n) ==
    LET c == pending[n] IN
    /\ c.kind = "toggle" /\ CanResolve(n)
    /\ IF IsLink(c.link)
       THEN /\ active' = [active EXCEPT ![c.link] = ~@]
            /\ links' = IF c.live THEN c.snap ELSE links
       ELSE UNCHANGED <<active, links>>
    /\ pending' = RemoveAt(pending, n)
    /\ UNCHANGED <<sessionLinks, code, alias, created, phase, isCreateOpen,
                   newUrl, newAlias, isCreating>>

(* deleteLink splices the link out of sessionLinks; the page then sets    *)
(* links to its captured list without it. "Link not found" does nothing.  *)
ResolveDelete(n) ==
    LET c == pending[n] IN
    /\ c.kind = "delete" /\ CanResolve(n)
    /\ IF IsLink(c.link)
       THEN /\ sessionLinks' = SelectSeq(sessionLinks, LAMBDA l : l # c.link)
            /\ links' = IF c.live THEN SelectSeq(c.snap, LAMBDA l : l # c.link)
                                  ELSE links
       ELSE UNCHANGED <<sessionLinks, links>>
    /\ pending' = RemoveAt(pending, n)
    /\ UNCHANGED <<code, alias, active, created, phase, isCreateOpen, newUrl,
                   newAlias, isCreating>>

-----------------------------------------------------------------------------
(* Client-side navigation away and back: a new page instance mounts; the  *)
(* service and its timers live on.                                         *)
Remount ==
    /\ phase' = "tenant" /\ links' = << >>
    /\ isCreateOpen' = FALSE /\ newUrl' = Empty /\ newAlias' = Empty
    /\ isCreating' = FALSE
    /\ pending' = [j \in DOMAIN pending |-> [pending[j] EXCEPT !.live = FALSE]]
    /\ UNCHANGED service

(* A full page load: the heap, the service and its timers start afresh.   *)
Reload ==
    /\ sessionLinks' = << >> /\ created' = 0
    /\ code' = [i \in Ids |-> Empty] /\ alias' = [i \in Ids |-> Empty]
    /\ active' = [i \in Ids |-> FALSE]
    /\ pending' = << >>
    /\ phase' = "tenant" /\ links' = << >>
    /\ isCreateOpen' = FALSE /\ newUrl' = Empty /\ newAlias' = Empty
    /\ isCreating' = FALSE

Next ==
    \/ \E f \in SlugFound : LoadTenant(f)
    \/ LoadLinks
    \/ \E o \in BOOLEAN : SetCreateOpen(o)
    \/ \E u \in Urls \cup {Empty} : TypeUrl(u)
    \/ \E a \in Aliases \cup {Empty} : TypeAlias(a)
    \/ HandleCreateLink
    \/ \E i \in DOMAIN links : HandleToggleStatus(i) \/ HandleDelete(i)
    \/ \E n \in DOMAIN pending : ResolveCreate(n) \/ ResolveToggle(n)
                                 \/ ResolveDelete(n)
    \/ Remount \/ Reload

(* Timers fire: a pending call eventually resolves. *)
Fairness ==
    \A n \in 1..MaxPending :
        WF_vars(n \in DOMAIN pending /\ (ResolveCreate(n) \/ ResolveToggle(n)
                                         \/ ResolveDelete(n)))

Spec == Init /\ [][Next]_vars /\ Fairness

-----------------------------------------------------------------------------
(* The create buttons come back: once a create is in flight, isCreating   *)
(* is eventually false again, whichever way createLink answers.           *)
CreatingEnds == isCreating ~> ~isCreating

(* What the page shows is what the service holds: once the page has       *)
(* loaded and no call is in flight, its list is sessionLinks, whatever     *)
(* order the create, toggle and delete answers came back in.               *)
PageShowsStore ==
    phase = "ready" /\ pending = << >> => links = sessionLinks

=============================================================================
