------------------------------ MODULE ServicesPage ------------------------------
(***************************************************************************)
(* The administrator's page of services.                                   *)
(*                                                                         *)
(* A service is addressed by its slug, which the page itself can change.   *)
(* The server changes slug, flag, URL and image one after the other, and   *)
(* the page, when it hears of it, patches every row of the old slug.       *)
(*                                                                         *)
(* What a creation or a deletion does to subscriptions is in               *)
(* ServiceCatalog.  URLs that differ in case alone are one URL.            *)
(***************************************************************************)
EXTENDS FiniteSets

CONSTANTS
    Entries,    \* rows of services
    Managed,    \* the services of built-in integrations among them
    Slugs, NoSlug,
    Urls, NoUrl,
    Changers    \* requests of the page that may be in flight together

ASSUME ServicesPageConstants == Managed \subseteq Entries /\ NoSlug \notin Slugs /\ NoUrl \notin Urls

VARIABLES
    service,    \* service[e]: its row in the database
    services,   \* services[e]: its row on the page
    loadStep,   \* the load of the list: "idle", "asked", "read"; the table hides behind it
    loaded,     \* what that load has read
    pendingName,        \* the slug whose buttons are disabled
    editingService,     \* the slug of the row that the editor was opened for
    deletingService,    \* the same for the confirmation of a deletion
    change,     \* change[q]: request q
    unclear     \* history: an update or its answer was lost half-way, or requests crossed

servicesPageVars == <<service, services, loadStep, loaded, pendingName, editingService, deletingService,
                      change, unclear>>

Fields == [slug : Slugs, enabled : BOOLEAN, url : Urls, imageUrl : Urls \cup {NoUrl}]

Blank == [slug |-> NoSlug, enabled |-> FALSE, url |-> NoUrl, imageUrl |-> NoUrl]

ServiceRow == Fields \cup {Blank}

(* path: the slug of the request; at: the slug that the handler goes by.     *)
Change == [pc : {"idle", "slug", "enabled", "url", "imageUrl", "create", "delete", "done", "error"},
           kind : {"none", "update", "create", "delete"}, path : Slugs \cup {NoSlug}, at : Slugs \cup {NoSlug},
           to : ServiceRow]

NoChange == [pc |-> "idle", kind |-> "none", path |-> NoSlug, at |-> NoSlug, to |-> Blank]

Stands(e) == service[e] # Blank

WithSlug(rows, slug) == {e \in Entries : rows[e] # Blank /\ rows[e].slug = slug}

ServicesPageInit ==
    /\ service \in [Entries -> ServiceRow]
    /\ \A e, f \in Entries : (Stands(e) /\ service[e].slug = service[f].slug) => e = f
    /\ \A e \in Managed : Stands(e)
    /\ services = [e \in Entries |-> Blank]
    /\ loadStep = "asked"
    /\ loaded = services
    /\ pendingName = NoSlug
    /\ editingService = NoSlug
    /\ deletingService = NoSlug
    /\ change = [q \in Changers |-> NoChange]
    /\ unclear = FALSE

InFlight(q) == change[q].pc # "idle"

Deleting(q) == InFlight(q) /\ change[q].kind = "delete"

-----------------------------------------------------------------------------
(* useServicesPage *)

(* A load that reads while a request is under way may miss what it does.     *)
ReadServices ==
    /\ loadStep = "asked"
    /\ loadStep' = "read"
    /\ loaded' = service
    /\ unclear' = \E q \in Changers : InFlight(q)
    /\ UNCHANGED <<service, services, pendingName, editingService, deletingService, change>>

ShowServices ==
    /\ loadStep = "read"
    /\ services' = loaded
    /\ loadStep' = "idle"
    /\ UNCHANGED <<service, loaded, pendingName, editingService, deletingService, change, unclear>>

LoadServicesFails ==
    /\ loadStep # "idle"
    /\ loadStep' = "idle"
    /\ unclear' = TRUE
    /\ UNCHANGED <<service, services, loaded, pendingName, editingService, deletingService, change>>

-----------------------------------------------------------------------------
(* ServicesTable and its dialogs, one open at a time.  A dialog may be       *)
(* closed while its request is under way.                                    *)

Free(e) ==
    /\ loadStep = "idle" /\ services[e] # Blank
    /\ pendingName # services[e].slug
    /\ editingService = NoSlug /\ deletingService = NoSlug

OpenEditor(e) ==
    /\ Free(e)
    /\ editingService' = services[e].slug
    /\ UNCHANGED <<service, services, loadStep, loaded, pendingName, deletingService, change, unclear>>

OpenDeletion(e) ==
    /\ Free(e) /\ e \notin Managed
    /\ deletingService' = services[e].slug
    /\ UNCHANGED <<service, services, loadStep, loaded, pendingName, editingService, change, unclear>>

CloseDialogs ==
    /\ loadStep = "idle" /\ <<editingService, deletingService>> # <<NoSlug, NoSlug>>
    /\ editingService' = NoSlug /\ deletingService' = NoSlug
    /\ UNCHANGED <<service, services, loadStep, loaded, pendingName, change, unclear>>

(* Requests go by slugs: one crosses another when either of them changes a   *)
(* slug, or when both go by the same.  One pendingName does not keep a       *)
(* service from being saved twice at once: a request for another service     *)
(* takes its place, or clears it.                                            *)
Renames(kind, path, to) == kind = "update" /\ path # to.slug

Crosses(kind, path, to, r) ==
    InFlight(r) /\ (\/ path = change[r].path
                    \/ Renames(kind, path, to)
                    \/ Renames(change[r].kind, change[r].path, change[r].to))

Ask(kind, pc, path, to) ==
    \E q \in Changers :
        /\ ~InFlight(q)
        /\ change' = [change EXCEPT ![q] = [pc |-> pc, kind |-> kind, path |-> path, at |-> path, to |-> to]]
        /\ unclear' = (unclear \/ \E r \in Changers : Crosses(kind, path, to, r))

SaveService(to) ==
    /\ loadStep = "idle" /\ editingService # NoSlug /\ pendingName # editingService
    /\ Ask("update", IF to.slug = editingService THEN "enabled" ELSE "slug", editingService, to)
    /\ pendingName' = editingService
    /\ UNCHANGED <<service, services, loadStep, loaded, editingService, deletingService>>

ConfirmDeletion ==
    /\ loadStep = "idle" /\ deletingService # NoSlug
    /\ ~\E q \in Changers : Deleting(q)
    /\ Ask("delete", "delete", deletingService, Blank)
    /\ UNCHANGED <<service, services, loadStep, loaded, pendingName, editingService, deletingService>>

CreateService(to) ==
    /\ loadStep = "idle" /\ editingService = NoSlug /\ deletingService = NoSlug
    /\ ~\E q \in Changers : InFlight(q) /\ change[q].kind = "create"
    /\ Ask("create", "create", to.slug, to)
    /\ UNCHANGED <<service, services, loadStep, loaded, pendingName, editingService, deletingService>>

-----------------------------------------------------------------------------
(* ServiceManagementService.update(), by slug, one field after the other *)

(* One write of update(): the pc names the field.                            *)
Write(q, field, next) ==
    /\ change[q].pc = field
    /\ \E e \in WithSlug(service, change[q].at) :
          service' = [service EXCEPT ![e] = [@ EXCEPT ![field] = change[q].to[field]]]
    /\ change' = [change EXCEPT ![q].pc = next, ![q].at = IF field = "slug" THEN change[q].to.slug ELSE @]
    /\ UNCHANGED <<services, loadStep, loaded, pendingName, editingService, deletingService, unclear>>

SetSlug(q) == WithSlug(service, change[q].to.slug) = {} /\ Write(q, "slug", "enabled")

SetEnabled(q) == Write(q, "enabled", "url")

SetUrl(q) == Write(q, "url", "imageUrl")

SetImageUrl(q) == Write(q, "imageUrl", "done")

CreateRow(q) ==
    /\ change[q].pc = "create"
    /\ WithSlug(service, change[q].to.slug) = {}
    /\ \E e \in Entries \ Managed : ~Stands(e) /\ service' = [service EXCEPT ![e] = change[q].to]
    /\ change' = [change EXCEPT ![q].pc = "done"]
    /\ UNCHANGED <<services, loadStep, loaded, pendingName, editingService, deletingService, unclear>>

DeleteRow(q) ==
    /\ change[q].pc = "delete"
    /\ \E e \in WithSlug(service, change[q].at) \ Managed : service' = [service EXCEPT ![e] = Blank]
    /\ change' = [change EXCEPT ![q].pc = "done"]
    /\ UNCHANGED <<services, loadStep, loaded, pendingName, editingService, deletingService, unclear>>

(* A slug that is taken or not found, a write that fails, an answer that is  *)
(* lost.                                                                     *)
Refused(q) ==
    /\ InFlight(q) /\ change[q].pc # "error"
    /\ change' = [change EXCEPT ![q].pc = "error"]
    /\ unclear' = (unclear \/ change[q].pc \in {"url", "imageUrl", "done"} \/ change[q].at # change[q].path)
    /\ UNCHANGED <<service, services, loadStep, loaded, pendingName, editingService, deletingService>>

-----------------------------------------------------------------------------
(* useServicesTable and useServicesPage, once the answer is there *)

(* Mutant: the row is looked for under its new slug. *)
PatchedByNewSlug(q) == WithSlug(services, change[q].to.slug)

Patched(q) == WithSlug(services, change[q].path)

(* The dialog that is open by now is closed.                                 *)
SettleUpdate(q) ==
    /\ change[q].kind = "update" /\ change[q].pc \in {"done", "error"}
    /\ services' = IF change[q].pc = "error" THEN services
                   ELSE [e \in Entries |-> IF e \in Patched(q) THEN change[q].to ELSE services[e]]
    /\ editingService' = IF change[q].pc = "error" THEN editingService ELSE NoSlug
    /\ pendingName' = NoSlug
    /\ change' = [change EXCEPT ![q] = NoChange]
    /\ UNCHANGED <<service, loadStep, loaded, deletingService, unclear>>

SettleDelete(q) ==
    /\ change[q].kind = "delete" /\ change[q].pc \in {"done", "error"}
    /\ services' = IF change[q].pc = "error" THEN services
                   ELSE [e \in Entries |-> IF e \in Patched(q) THEN Blank ELSE services[e]]
    /\ deletingService' = IF change[q].pc = "error" THEN deletingService ELSE NoSlug
    /\ change' = [change EXCEPT ![q] = NoChange]
    /\ UNCHANGED <<service, loadStep, loaded, pendingName, editingService, unclear>>

(* onCreated loads the list again.                                           *)
SettleCreate(q) ==
    /\ change[q].kind = "create" /\ change[q].pc \in {"done", "error"}
    /\ loadStep' = IF change[q].pc = "done" THEN "asked" ELSE loadStep
    /\ change' = [change EXCEPT ![q] = NoChange]
    /\ UNCHANGED <<service, services, loaded, pendingName, editingService, deletingService, unclear>>

ServicesPageNext ==
    \/ ReadServices \/ ShowServices \/ LoadServicesFails
    \/ CloseDialogs \/ ConfirmDeletion
    \/ \E e \in Entries : OpenEditor(e) \/ OpenDeletion(e)
    \/ \E to \in Fields : SaveService(to) \/ CreateService(to)
    \/ \E q \in Changers :
          \/ SetSlug(q) \/ SetEnabled(q) \/ SetUrl(q) \/ SetImageUrl(q)
          \/ CreateRow(q) \/ DeleteRow(q) \/ Refused(q)
          \/ SettleUpdate(q) \/ SettleDelete(q) \/ SettleCreate(q)

ServicesPageSpec == ServicesPageInit /\ [][ServicesPageNext]_servicesPageVars

-----------------------------------------------------------------------------
(* Types of all variables.                                                   *)
ServicesPageTypeOK ==
    /\ {service, services, loaded} \subseteq [Entries -> ServiceRow]
    /\ loadStep \in {"idle", "asked", "read"}
    /\ {pendingName, editingService, deletingService} \subseteq Slugs \cup {NoSlug}
    /\ change \in [Changers -> Change]
    /\ unclear \in BOOLEAN

(* When nothing is under way the page shows the services as they are stored, *)
(* under their slugs, unless a request stopped half-way or lost its answer,  *)
(* a load failed or ran beside a request, or two requests crossed: one of    *)
(* them a renaming, or both for the same service (useServicesTable 16-23,    *)
(* serviceManagement 236-252).                                               *)
ServicesAreCurrent ==
    (loadStep = "idle" /\ (\A q \in Changers : ~InFlight(q)) /\ ~unclear) => services = service

=============================================================================
