--------------------------- MODULE WarehouseRegistry ---------------------------
(***************************************************************************)
(* The catalog's registry of warehouses: which project owns which bucket,  *)
(* and which top-level namespace lives in which bucket.                    *)
(*                                                                         *)
(* The registry is a set of JSON objects, read and overwritten whole, with *)
(* no condition on the write.  Every guard of a request therefore checks   *)
(* what it read some awaits before it writes, and a listing passes over    *)
(* the records it cannot read.  Each replica of the catalog caches the     *)
(* bindings it has seen, for ever.                                         *)
(***************************************************************************)
EXTENDS AuthStore

CONSTANTS
    Users, Projects, Warehouses, Namespaces,
    Buckets,        \* buckets a warehouse may ask for
    Reserved,       \* buckets of the platform itself
    Replicas,       \* processes of the catalog
    Workers,        \* bound: requests in flight
    Root,           \* the estate's root object, owned by its administrator
    Default,        \* the storage root of namespaces bound to no warehouse
    None

ASSUME ReservedAssumption == Reserved \subseteq Buckets
ASSUME DefaultAssumption == Default \notin Buckets
VARIABLES
    record,    \* the warehouse records, None if unregistered
    binding,   \* the binding objects: the warehouse and the bucket, or None
    cache,     \* each replica's cached bindings
    spaces,    \* the top-level namespaces on storage, as <<root, name>>
    request,   \* what each worker is doing
    blind      \* history: warehouses and namespaces that some request wrote without
               \* having seen what stood there when it did

registryVars == <<record, binding, cache, spaces, blind>>

Idle == [kind |-> "idle"]
Free(c) == request[c] = Idle
Standing(c, kind, at) == request[c].kind = kind /\ request[c].at = at
Start(c, r) == request' = [request EXCEPT ![c] = r]
Move(c, at) == request' = [request EXCEPT ![c].at = at]
Finish(c) == request' = [request EXCEPT ![c] = Idle]

Records == [project : Projects, bucket : Buckets, status : {"active", "deactivated"}]
Bindings == [warehouse : Warehouses, root : Buckets]

ASSUME NoneAssumption == None \notin Records \cup Bindings

\* Registries that creates one after the other leave.
Registries ==
    {r \in [Warehouses -> {None} \cup {n \in Records : n.status = "active" /\ n.bucket \notin Reserved}] :
        \A v, w \in Warehouses :
            r[v] # None /\ r[w] # None /\ r[v].bucket = r[w].bucket => r[v].project = r[w].project}

RegistryInit ==
    /\ record \in Registries
    /\ binding = [n \in Namespaces |-> None]
    /\ cache = [s \in Replicas |-> [n \in Namespaces |-> None]]
    /\ spaces = {}
    /\ blind = {}

Blinded(x, unseen) == blind' = IF unseen THEN blind \cup {x} ELSE blind

-----------------------------------------------------------------------------
(* POST /v1/warehouses                                                     *)

Registered == {w \in Warehouses : record[w] # None}

\* list_warehouses skips a record it cannot read, with a warning.
Listings == SUBSET Registered

Claims(listed, p) == {w \in listed : record[w].project = p}

\* Doors are tried one after the other, and one that opens is enough.
RequireAny(user, doors) == \E door \in doors : Holds(user, "owner", door)

\* A project exists once a record claims it; only then is its first warehouse
\* no longer the estate administrator's to create.
MayCreateWarehouse(user, p, bootstrap) ==
    RequireAny(user, {p} \cup IF bootstrap THEN {Root} ELSE {})

\* projects_claiming_bucket, without the caller's own.
Rivals(listed, bucket, p) ==
    {q \in Projects \ {p} : \E w \in Claims(listed, q) : record[w].bucket = bucket}

\* The listing answers two questions: does the project exist, who claims the bucket.
CreateWarehouse(c, user, p) ==
    \E listed \in Listings :
        LET first == Claims(listed, p) = {}
        IN  /\ Free(c)
            /\ MayCreateWarehouse(user, p, first)
            /\ \E w \in Warehouses, bucket \in Buckets :
                  Start(c, [kind |-> "create", at |-> "listed", user |-> user, warehouse |-> w,
                            project |-> p, bucket |-> bucket, first |-> first,
                            rivals |-> Rivals(listed, bucket, p)])
            /\ UNCHANGED <<registryVars, tuples>>

\* MUTANT of Carried: a repeated create resets the lifecycle of the warehouse.
CarriedAfresh(r, existing) ==
    [project |-> r.project, bucket |-> r.bucket, status |-> "active"]

\* The record to write: the lifecycle is carried forward, as is the serving class,
\* which nothing here reads.
Carried(r, existing) ==
    [project |-> r.project, bucket |-> r.bucket,
     status |-> IF existing = None THEN "active" ELSE existing.status]

\* MUTANT of Refuses: only the warehouse id is guarded, not the bucket.
RefusesIdOnly(r, existing) ==
    (existing # None /\ existing.project # r.project) \/ r.bucket \in Reserved

\* Another project's warehouse, the platform's bucket, another project's bucket.
Refuses(r, existing) ==
    \/ existing # None /\ existing.project # r.project
    \/ r.bucket \in Reserved
    \/ r.rivals # {}

\* Whether the bucket stands; one that was there before will do.
ProvisionBucket == BOOLEAN

\* Projects other than p that hold the id of a warehouse, or a bucket.
Holders(w, bucket, p) ==
    Rivals(Registered, bucket, p) \cup {q \in Projects \ {p} : w \in Claims(Registered, q)}

\* What the guards saw goes with the record to write: the rivals, and what stood.
ReadExisting(c) ==
    /\ Standing(c, "create", "listed")
    /\ LET r == request[c]
           existing == record[r.warehouse]
       IN  \E stands \in ProvisionBucket :
           IF Refuses(r, existing) \/ ~stands THEN Finish(c)
           ELSE Start(c, [kind |-> "create", at |-> "checked", user |-> r.user,
                          warehouse |-> r.warehouse, first |-> r.first,
                          new |-> Carried(r, existing), rivals |-> r.rivals, stood |-> existing])
    /\ UNCHANGED <<registryVars, tuples>>

\* Written blind: another project holds the id or the bucket that the guards did
\* not see, for its record could not be read or was written since.
PutRecord(c) ==
    LET r == request[c]
        saw == r.rivals \cup (IF r.stood = None THEN {} ELSE {r.stood.project})
    IN  /\ Standing(c, "create", "checked")
        /\ record' = [record EXCEPT ![r.warehouse] = r.new]
        /\ Blinded(r.warehouse, ~(Holders(r.warehouse, r.new.bucket, r.new.project) \subseteq saw))
        /\ Move(c, "recorded")
        /\ UNCHANGED <<binding, cache, spaces, tuples>>

\* The creator owns the warehouse, the warehouse hangs under its project, and
\* the creator of a project's first warehouse administers the project.
WarehouseGrants(r) ==
    LET owns == Grant(r.user, "owner", r.warehouse)
        hangs == Grant(r.new.project, "project", r.warehouse)
    IN  IF r.first THEN <<owns, hangs, Grant(r.user, "admin", r.new.project)>>
        ELSE <<owns, hangs>>

SeedWarehouse(c) ==
    /\ Standing(c, "create", "recorded")
    /\ \E o \in WriteOutcomes(WarehouseGrants(request[c])) : tuples' = o.store
    /\ Finish(c)
    /\ UNCHANGED registryVars

-----------------------------------------------------------------------------
(* POST /v1/warehouses/{id}/activate and /deactivate                       *)

SetStatus(c, user, w) ==
    /\ Free(c)
    /\ record[w] # None
    /\ MayCreateWarehouse(user, record[w].project, FALSE)
    /\ \E status \in {"active", "deactivated"} :
          Start(c, [kind |-> "status", at |-> "gated", warehouse |-> w, status |-> status])
    /\ UNCHANGED <<registryVars, tuples>>

ReadRecord(c) ==
    /\ Standing(c, "status", "gated")
    /\ Start(c, [kind |-> "status", at |-> "read", warehouse |-> request[c].warehouse,
                 status |-> request[c].status,
                 new |-> [record[request[c].warehouse] EXCEPT !.status = request[c].status]])
    /\ UNCHANGED <<registryVars, tuples>>

\* The whole record is put back as it was read; blindly so if a create came between.
PutStatus(c) ==
    LET r == request[c]
    IN  /\ Standing(c, "status", "read")
        /\ record' = [record EXCEPT ![r.warehouse] = r.new]
        /\ Blinded(r.warehouse, \/ record[r.warehouse].project # r.new.project
                                \/ record[r.warehouse].bucket # r.new.bucket)
        /\ Finish(c)
        /\ UNCHANGED <<binding, cache, spaces, tuples>>

-----------------------------------------------------------------------------
(* POST /v1/warehouses/{id}/namespaces                                     *)

BindNamespace(c, user, w) ==
    /\ Free(c)
    /\ record[w] # None /\ record[w].status = "active"
    /\ Holds(user, "writer", w)
    /\ \E server \in Replicas, n \in Namespaces :
          Start(c, [kind |-> "bind", at |-> "gated", server |-> server, user |-> user,
                    warehouse |-> w, namespace |-> n, root |-> record[w].bucket])
    /\ UNCHANGED <<registryVars, tuples>>

\* MUTANT of Bindable: the default root is not looked at.
BindableAnyway(n, root) == binding[n] = None \/ binding[n].root = root

\* MUTANT of Bindable: an existing binding is overwritten.
BindableAgain(n, root) == <<Default, n>> \notin spaces

\* Write-once, and never over a namespace of the default root.
Bindable(n, root) ==
    /\ binding[n] = None \/ binding[n].root = root
    /\ <<Default, n>> \notin spaces

\* Where a namespace is: what its binding says, and whether the default root has it.
Whereabouts(n) == <<binding[n], spaces \cap {<<Default, n>>}>>

CheckBinding(c) ==
    LET r == request[c]
    IN  /\ Standing(c, "bind", "gated")
        /\ IF Bindable(r.namespace, r.root)
           THEN Start(c, [kind |-> "bind", at |-> "free", server |-> r.server, user |-> r.user,
                          warehouse |-> r.warehouse, namespace |-> r.namespace, root |-> r.root,
                          saw |-> Whereabouts(r.namespace)])
           ELSE Finish(c)
        /\ UNCHANGED <<registryVars, tuples>>

\* create_namespace raises for a namespace that is there.
MakeSpace(c, root, n) ==
    /\ <<root, n>> \notin spaces
    /\ spaces' = spaces \cup {<<root, n>>}

MakeBound(c) ==
    /\ Standing(c, "bind", "free")
    /\ \/ MakeSpace(c, request[c].root, request[c].namespace) /\ Move(c, "made")
       \/ <<request[c].root, request[c].namespace>> \in spaces /\ Finish(c) /\ UNCHANGED spaces
    /\ UNCHANGED <<record, binding, cache, blind, tuples>>

\* Written blind: the namespace was bound, or made in the default root, since the check.
WriteBinding(c) ==
    /\ Standing(c, "bind", "made")
    /\ LET r == request[c]
           bound == [warehouse |-> r.warehouse, root |-> r.root]
       IN  /\ binding' = [binding EXCEPT ![r.namespace] = bound]
           /\ cache' = [cache EXCEPT ![r.server][r.namespace] = bound]
           /\ Blinded(r.namespace, Whereabouts(r.namespace) # r.saw)
    /\ Move(c, "bound")
    /\ UNCHANGED <<record, spaces, tuples>>

GrantBound(c) ==
    /\ Standing(c, "bind", "bound")
    /\ LET r == request[c]
       IN  \E o \in WriteOutcomes(<<Grant(r.user, "owner", r.namespace),
                                    Grant(r.warehouse, "parent", r.namespace)>>) :
             tuples' = o.store
    /\ Finish(c)
    /\ UNCHANGED registryVars

-----------------------------------------------------------------------------
(* Routing, and the routes that create and drop a namespace.               *)

Known(server, n) == IF cache[server][n] # None THEN cache[server][n] ELSE binding[n]

\* The status of the bound warehouse is read live; the binding comes from the cache.
Routable(server, n) ==
    LET bound == Known(server, n)
    IN  bound # None => /\ record[bound.warehouse] # None
                        /\ record[bound.warehouse].status = "active"

RootOf(server, n) == IF Known(server, n) = None THEN Default ELSE Known(server, n).root

\* get_namespace for a request on a namespace; only bindings that exist are cached.
Route(c, server, user, n, kind) ==
    /\ Free(c)
    /\ kind = "drop-namespace" => Holds(user, "owner", n)
    /\ Routable(server, n)
    /\ cache' = [cache EXCEPT ![server][n] = Known(server, n)]
    /\ Start(c, [kind |-> kind, at |-> "routed", user |-> user, namespace |-> n,
                 root |-> RootOf(server, n)])
    /\ UNCHANGED <<record, binding, spaces, blind, tuples>>

\* Made blind: it was routed to the default root, and bound since.
MakeRouted(c) ==
    LET r == request[c]
    IN  /\ Standing(c, "create-namespace", "routed")
        /\ \/ /\ MakeSpace(c, r.root, r.namespace) /\ Move(c, "made")
              /\ Blinded(r.namespace, r.root = Default /\ binding[r.namespace] # None)
           \/ <<r.root, r.namespace>> \in spaces /\ Finish(c) /\ UNCHANGED <<spaces, blind>>
        /\ UNCHANGED <<record, binding, cache, tuples>>

\* A top-level namespace hangs under the estate's root.
GrantRouted(c) ==
    /\ Standing(c, "create-namespace", "made")
    /\ LET r == request[c]
       IN  \E o \in WriteOutcomes(<<Grant(r.user, "owner", r.namespace),
                                    Grant(Root, "parent", r.namespace)>>) : tuples' = o.store
    /\ Finish(c)
    /\ UNCHANGED registryVars

DropSpace(c) ==
    /\ Standing(c, "drop-namespace", "routed")
    /\ \/ /\ <<request[c].root, request[c].namespace>> \in spaces
          /\ spaces' = spaces \ {<<request[c].root, request[c].namespace>>}
          /\ Move(c, "dropped")
       \/ /\ <<request[c].root, request[c].namespace>> \notin spaces
          /\ Finish(c) /\ UNCHANGED spaces
    /\ UNCHANGED <<record, binding, cache, blind, tuples>>

RevokeSpace(c) ==
    /\ Standing(c, "drop-namespace", "dropped")
    /\ \E o \in RevokeOutcomes(request[c].namespace) : tuples' = o.store
    /\ Finish(c)
    /\ UNCHANGED registryVars

-----------------------------------------------------------------------------
\* Any call of a request may raise, or its process die, between two steps; a
\* replica that died, and its requests with it, starts with an empty cache.
Abort(c) ==
    /\ ~Free(c)
    /\ Finish(c)
    /\ UNCHANGED <<registryVars, tuples>>

Restart(server) ==
    /\ cache[server] # [n \in Namespaces |-> None]
    /\ \A c \in Workers : request[c].kind = "bind" => request[c].server # server
    /\ cache' = [cache EXCEPT ![server] = [n \in Namespaces |-> None]]
    /\ UNCHANGED <<record, binding, spaces, request, blind, tuples>>

RegistryRequest(c) ==
    \E user \in Users :
        \/ \E p \in Projects : CreateWarehouse(c, user, p)
        \/ \E w \in Warehouses : SetStatus(c, user, w) \/ BindNamespace(c, user, w)
        \/ \E server \in Replicas, n \in Namespaces,
              kind \in {"create-namespace", "drop-namespace"} : Route(c, server, user, n, kind)

RegistryStep(c) ==
    \/ ReadExisting(c) \/ PutRecord(c) \/ SeedWarehouse(c)
    \/ ReadRecord(c) \/ PutStatus(c)
    \/ CheckBinding(c) \/ MakeBound(c) \/ WriteBinding(c) \/ GrantBound(c)
    \/ MakeRouted(c) \/ GrantRouted(c) \/ DropSpace(c) \/ RevokeSpace(c)

RegistryNext(c) == RegistryRequest(c) \/ RegistryStep(c) \/ Abort(c)

-----------------------------------------------------------------------------
\* Tenants stay apart.  A bucket is claimed by one project, although provisioning
\* an existing bucket succeeds silently, and a warehouse hangs under the one project
\* its record names, so that no member of another project reads it, however often and
\* by whom it was created.  The one way around it is blindness: a request that wrote
\* while another's claim stood which its listing had passed over as unreadable, or
\* which was written after it looked.  The platform's buckets are never claimed.
TenantsApart ==
    /\ \A v, w \in Registered \ blind :
          record[v].bucket = record[w].bucket => record[v].project = record[w].project
    /\ \A w \in Warehouses \ blind, p \in Projects :
          Grant(p, "project", w) \in tuples => record[w] # None /\ record[w].project = p
    /\ \A w \in Registered : record[w].bucket \notin Reserved

\* A quarantine ends by an activation: a create repeated after a partial failure
\* does not lift it, unless it had read the record before the quarantine.
QuarantineHolds ==
    [][\A w \in Registered :
        record[w].status = "deactivated" /\ record'[w].status = "active" =>
            \E c \in Workers :
                \/ request[c].kind = "status" /\ request[c].status = "active"
                \/ /\ Standing(c, "create", "checked")
                   /\ request[c].stood = None \/ request[c].stood.status = "active"]_record

\* Whatever bucket a replica cached for a namespace, for ever, is the one the
\* namespace is bound to, although namespaces are dropped and bound again and
\* replicas restart, unless a bind overwrote a binding it had not seen.  The bucket
\* and no more: the guard against a second bind compares buckets, and a namespace
\* that was dropped may be bound again through another warehouse of its bucket.
CacheAgrees ==
    \A server \in Replicas, n \in Namespaces \ blind :
        cache[server][n] # None =>
            binding[n] # None /\ cache[server][n].root = binding[n].root

\* A bound namespace has no tables left behind in the default root, unless a bind
\* and a create of that name passed each other.
NothingOrphaned ==
    \A n \in Namespaces \ blind : binding[n] # None => <<Default, n>> \notin spaces

=============================================================================
