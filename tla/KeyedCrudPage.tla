--------------------------- MODULE KeyedCrudPage ---------------------------
(***************************************************************************)
(* A keyed list page with a create/edit dialog, as written in             *)
(* app/admin/(dashboard)/resources/page.tsx (Resource) and, handler for    *)
(* handler, settings/attributes/page.tsx (AttributeDefinition). Each       *)
(* handler is one React event. Ids are `res-${Date.now()}` /               *)
(* `attr-${Date.now()}`: at the speed of a form submit the n-th item       *)
(* created gets id n. Descriptions, data types and the search box tell no  *)
(* items apart in the properties and are left out; with an empty search   *)
(* every row's buttons can be clicked.                                     *)
(***************************************************************************)
EXTENDS Integers, Sequences

CONSTANTS
    Keys,       \* values typed into the required key input
    Empty,      \* the empty string ""
    MaxItems,   \* items created in total
    None        \* null

VARIABLES
    items,      \* useState(fakeResources): <<[id, key]>>, in list order
    isOpen,
    editing,    \* id of the item held by editingResource, or None
    formKey,    \* formData.key
    created

vars == <<items, isOpen, editing, formKey, created>>

Ids == 1..MaxItems

TypeOK ==
    /\ items \in Seq([id : Ids, key : Keys])
    /\ isOpen \in BOOLEAN
    /\ editing \in Ids \cup {None}
    /\ formKey \in Keys \cup {Empty}
    /\ created \in 0..MaxItems

(* The fixtures are empty. *)
Init ==
    /\ items = << >> /\ isOpen = FALSE /\ editing = None /\ formKey = Empty
    /\ created = 0

-----------------------------------------------------------------------------
(* The "add" DialogTrigger: onOpenChange(true) sets isOpen only. *)
OpenCreateDialog ==
    /\ ~isOpen
    /\ isOpen' = TRUE
    /\ UNCHANGED <<items, editing, formKey, created>>

(* handleEdit(item) from a row's pencil button. *)
HandleEdit(i) ==
    /\ ~isOpen
    /\ editing' = items[i].id /\ formKey' = items[i].key
    /\ isOpen' = TRUE
    /\ UNCHANGED <<items, created>>

(* The key input's onChange. *)
TypeKey(k) ==
    /\ isOpen
    /\ formKey' = k
    /\ UNCHANGED <<items, isOpen, editing, created>>

(* The Cancel button: setIsOpen(false) without resetForm. *)
CancelDialog ==
    /\ isOpen
    /\ isOpen' = FALSE
    /\ UNCHANGED <<items, editing, formKey, created>>

(* Escape, the overlay or the close icon: onOpenChange(false), resetForm. *)
DismissDialog ==
    /\ isOpen
    /\ isOpen' = FALSE /\ editing' = None /\ formKey' = Empty
    /\ UNCHANGED <<items, created>>

(* handleSubmit without the `required` attribute on the key input. *)
HandleSubmitAnyKey ==
    /\ isOpen
    /\ IF editing # None
       THEN /\ items' = [j \in DOMAIN items |->
                           IF items[j].id = editing
                           THEN [items[j] EXCEPT !.key = formKey] ELSE items[j]]
            /\ UNCHANGED created
       ELSE /\ created < MaxItems
            /\ created' = created + 1
            /\ items' = Append(items, [id |-> created + 1, key |-> formKey])
    /\ isOpen' = FALSE /\ editing' = None /\ formKey' = Empty

(* handleSubmit, once the browser's `required` check lets the form        *)
(* submit: rewrite the item held by editing (nothing if it was deleted),   *)
(* or append a new one; no key is compared with the others. Then close    *)
(* and resetForm.                                                          *)
HandleSubmit ==
    /\ isOpen /\ formKey # Empty
    /\ IF editing # None
       THEN /\ items' = [j \in DOMAIN items |->
                           IF items[j].id = editing
                           THEN [items[j] EXCEPT !.key = formKey] ELSE items[j]]
            /\ UNCHANGED created
       ELSE /\ created < MaxItems
            /\ created' = created + 1
            /\ items' = Append(items, [id |-> created + 1, key |-> formKey])
    /\ isOpen' = FALSE /\ editing' = None /\ formKey' = Empty

(* handleDelete(id), confirmed; a declined confirm() changes nothing. *)
HandleDelete(i) ==
    /\ ~isOpen
    /\ items' = SelectSeq(items, LAMBDA it : it.id # items[i].id)
    /\ UNCHANGED <<isOpen, editing, formKey, created>>

Next ==
    \/ OpenCreateDialog \/ CancelDialog \/ DismissDialog \/ HandleSubmit
    \/ \E k \in Keys \cup {Empty} : TypeKey(k)
    \/ \E i \in DOMAIN items : HandleEdit(i) \/ HandleDelete(i)

Spec == Init /\ [][Next]_vars

-----------------------------------------------------------------------------
(* Spec section 3 (line 30): a resource's key is unique, and uniqueness   *)
(* is enforced at creation and at update. handleSubmit appends the new    *)
(* item, or rewrites the edited one, without comparing its key with the   *)
(* keys of the other items.                                                *)
KeysUnique == \A i, j \in DOMAIN items : i # j => items[i].key # items[j].key

=============================================================================
