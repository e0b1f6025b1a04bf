----------------------- MODULE CatalogGovernance_proofs -----------------------
(***************************************************************************)
(* The registry and the compensation of creates, proved for any numbers of *)
(* users, tenants, buckets, replicas and tables, and of requests under way *)
(* at once.                                                                *)
(*                                                                         *)
(* A request acts on what it read, and others may write meanwhile.  What a *)
(* request in hand says therefore holds of the request alone, or of what   *)
(* no other request takes back; where a write falls on something its       *)
(* request had not seen, the object is blind from then on, and the         *)
(* invariant speaks of the others.                                         *)
(***************************************************************************)
EXTENDS CatalogGovernance, TLAPS

-----------------------------------------------------------------------------
(* What a call to the relationship store can leave behind.                 *)

LEMMA WrittenTwo ==
    ASSUME NEW g, NEW h, NEW o \in WriteOutcomes(<<g, h>>)
    PROVE  tuples \subseteq o.store /\ o.store \subseteq tuples \cup {g, h}
<1>1. PICK batch : batch = <<g, h>>
  OBVIOUS
<1>2. Len(batch) = 2 /\ DOMAIN batch = 1..2 /\ batch[1] = g /\ batch[2] = h
  BY <1>1
<1>3. {batch[i] : i \in DOMAIN batch} = {g, h}
  BY <1>2
<1>4. \A n \in 0..Len(batch) : {batch[i] : i \in 1..n} \subseteq {g, h}
  BY <1>2
<1>5. o \in WriteOutcomes(batch)
  BY <1>1
<1>6. QED BY <1>3, <1>4, <1>5 DEF WriteOutcomes, Outcome

LEMMA WrittenThree ==
    ASSUME NEW g, NEW h, NEW k, NEW o \in WriteOutcomes(<<g, h, k>>)
    PROVE  tuples \subseteq o.store /\ o.store \subseteq tuples \cup {g, h, k}
<1>1. PICK batch : batch = <<g, h, k>>
  OBVIOUS
<1>2. Len(batch) = 3 /\ DOMAIN batch = 1..3 /\ batch[1] = g /\ batch[2] = h /\ batch[3] = k
  BY <1>1
<1>3. {batch[i] : i \in DOMAIN batch} = {g, h, k}
  BY <1>2
<1>4. \A n \in 0..Len(batch) : {batch[i] : i \in 1..n} \subseteq {g, h, k}
  BY <1>2
<1>5. o \in WriteOutcomes(batch)
  BY <1>1
<1>6. QED BY <1>3, <1>4, <1>5 DEF WriteOutcomes, Outcome

LEMMA WrittenOne ==
    ASSUME NEW g, NEW o \in WriteOutcomes(<<g>>)
    PROVE  tuples \subseteq o.store /\ o.store \subseteq tuples \cup {g}
<1>1. PICK batch : batch = <<g>>
  OBVIOUS
<1>2. Len(batch) = 1 /\ DOMAIN batch = 1..1 /\ batch[1] = g
  BY <1>1
<1>3. {batch[i] : i \in DOMAIN batch} = {g}
  BY <1>2
<1>4. \A n \in 0..Len(batch) : {batch[i] : i \in 1..n} \subseteq {g}
  BY <1>2
<1>5. o \in WriteOutcomes(batch)
  BY <1>1
<1>6. QED BY <1>3, <1>4, <1>5 DEF WriteOutcomes, Outcome

\* A revocation only takes grants of the object; when it succeeds none is left.
LEMMA Revoked ==
    ASSUME NEW object, NEW o \in RevokeOutcomes(object)
    PROVE  /\ o.store \subseteq tuples
           /\ o.ok => \A g \in o.store : g.object # object
<1>1. CASE o = Outcome(TRUE, tuples \ {g \in tuples : g.object = object})
  BY <1>1 DEF Outcome
<1>2. CASE \E gone \in SUBSET {g \in tuples : g.object = object} : o = Outcome(FALSE, tuples \ gone)
  BY <1>2 DEF Outcome
<1>3. QED BY <1>1, <1>2 DEF RevokeOutcomes

LEMMA Seeded ==
    ASSUME NEW r, NEW o \in WriteOutcomes(WarehouseGrants(r))
    PROVE  \A g \in o.store : g.relation = "project" =>
              g \in tuples \/ g = Grant(r.new.project, "project", r.warehouse)
<1>1. CASE r.first
  <2>1. WarehouseGrants(r) =
           <<Grant(r.user, "owner", r.warehouse), Grant(r.new.project, "project", r.warehouse),
             Grant(r.user, "admin", r.new.project)>>
    BY <1>1 DEF WarehouseGrants
  <2>2. QED BY <2>1, WrittenThree DEF Grant
<1>2. CASE ~r.first
  <2>1. WarehouseGrants(r) =
           <<Grant(r.user, "owner", r.warehouse), Grant(r.new.project, "project", r.warehouse)>>
    BY <1>2 DEF WarehouseGrants
  <2>2. QED BY <2>1, WrittenTwo DEF Grant
<1>3. QED BY <1>1, <1>2

-----------------------------------------------------------------------------
(* The registry.                                                           *)

Listed ==
    [kind : {"create"}, at : {"listed"}, user : Users, warehouse : Warehouses,
     project : Projects, bucket : Buckets, first : BOOLEAN, rivals : SUBSET Projects]
Prepared ==
    [kind : {"create"}, at : {"checked", "recorded"}, user : Users, warehouse : Warehouses,
     first : BOOLEAN, new : Records, rivals : SUBSET Projects, stood : Records \cup {None}]
Gated ==
    [kind : {"status"}, at : {"gated"}, warehouse : Warehouses,
     status : {"active", "deactivated"}]
Reread ==
    [kind : {"status"}, at : {"read"}, warehouse : Warehouses,
     status : {"active", "deactivated"}, new : Records]
Asked ==
    [kind : {"bind"}, at : {"gated"}, server : Replicas, user : Users,
     warehouse : Warehouses, namespace : Namespaces, root : Buckets]
Binding ==
    [kind : {"bind"}, at : {"free", "made", "bound"}, server : Replicas, user : Users,
     warehouse : Warehouses, namespace : Namespaces, root : Buckets,
     saw : (Bindings \cup {None}) \X {{}}]
Routing ==
    [kind : {"create-namespace", "drop-namespace"}, at : {"routed", "made", "dropped"},
     user : Users, namespace : Namespaces, root : Buckets \cup {Default}]

\* The guards let a record through: no rival was seen, nor another's warehouse,
\* and a quarantine that was seen is carried forward.
Passed(r) ==
    /\ r.rivals = {} /\ r.new.bucket \notin Reserved
    /\ r.stood # None => r.stood.project = r.new.project /\ r.stood.status = r.new.status

\* A binding was free or to the same bucket, and the default root had no such name.
Clear(r) == \E b : r.saw = <<b, {}>> /\ (b = None \/ b.root = r.root)

Recorded(w, p) == record[w] # None /\ (w \notin blind => record[w].project = p)

\* What is known of a request in hand.
InHand(r) ==
    \/ r \in Listed
    \/ r \in Prepared /\ r.at = "checked" /\ Passed(r)
    \/ r \in Prepared /\ r.at = "recorded" /\ Recorded(r.warehouse, r.new.project)
    \/ r \in Gated /\ record[r.warehouse] # None
    \/ r \in Reread /\ record[r.warehouse] # None /\ r.new.bucket \notin Reserved
          /\ r.new.status = r.status
    \/ r \in Asked
    \/ r \in Binding /\ Clear(r)
    \/ r \in Routing

\* A request on a table, and what it knows of the table it may take back: it wrote
\* where nothing stood, or looked for a table to overwrite and found none.
Making(r) ==
    /\ \E at, user, t, mode, existed, was :
          r = [kind |-> "table", at |-> at, user |-> user, table |-> t,
               mode |-> mode, existed |-> existed, was |-> was]
    /\ r.at # "probed" /\ r.mode = "create" => r.was # "written"
    /\ r.at \in {"revoke", "drop"} => CompensationAllowed(r)

OnTable(r) ==
    \/ Making(r)
    \/ "kind" \in DOMAIN r /\ r.kind \in {"drop", "rename", "batch"}

RegistryTypes ==
    /\ record \in [Warehouses -> Records \cup {None}]
    /\ binding \in [Namespaces -> Bindings \cup {None}]
    /\ cache \in [Replicas -> [Namespaces -> Bindings \cup {None}]]

RequestsKnown ==
    /\ DOMAIN request = Workers
    /\ \A c \in Workers : request[c] = Idle \/ InHand(request[c]) \/ OnTable(request[c])

RegistryInv == RegistryTypes /\ TenantsApart /\ CacheAgrees /\ NothingOrphaned /\ RequestsKnown

\* What no step takes back: a record stays, its project too unless it is written
\* blind, and blind stays blind.
RecordsStay ==
    /\ blind \subseteq blind'
    /\ \A w \in Warehouses : record[w] # None =>
          record'[w] # None /\ (w \notin blind' => record'[w].project = record[w].project)

LEMMA HandStays ==
    ASSUME NEW r, InHand(r), RecordsStay
    PROVE  InHand(r)'
<1>1. CASE r \in Prepared /\ r.at = "recorded" /\ Recorded(r.warehouse, r.new.project)
  <2>1. r.warehouse \in Warehouses
    BY <1>1 DEF Prepared
  <2>2. Recorded(r.warehouse, r.new.project)'
    BY <1>1, <2>1 DEF Recorded, RecordsStay
  <2>3. QED BY <1>1, <2>2 DEF InHand
<1>2. CASE r \in Gated /\ record[r.warehouse] # None
  <2>1. r.warehouse \in Warehouses
    BY <1>2 DEF Gated
  <2>2. QED BY <1>2, <2>1 DEF InHand, RecordsStay
<1>3. CASE r \in Reread /\ record[r.warehouse] # None /\ r.new.bucket \notin Reserved /\ r.new.status = r.status
  <2>1. r.warehouse \in Warehouses
    BY <1>3 DEF Reread
  <2>2. QED BY <1>3, <2>1 DEF InHand, RecordsStay
<1>4. CASE \/ r \in Listed
           \/ r \in Asked
           \/ r \in Routing
           \/ r \in Binding /\ Clear(r)
           \/ r \in Prepared /\ r.at = "checked" /\ Passed(r)
  BY <1>4 DEF InHand, Clear, Passed
<1>5. QED BY <1>1, <1>2, <1>3, <1>4 DEF InHand

\* A step replaces one request by one that is known, and the others stay known.
LEMMA OneMoves ==
    ASSUME RequestsKnown, RecordsStay, NEW c \in Workers, NEW r, Start(c, r),
           r = Idle \/ InHand(r)' \/ OnTable(r)
    PROVE  RequestsKnown'
<1>1. request' = [request EXCEPT ![c] = r]
  BY DEF Start
<1>2. /\ DOMAIN request' = Workers /\ request'[c] = r
      /\ \A d \in Workers \ {c} : request'[d] = request[d]
  BY <1>1 DEF RequestsKnown
<1>3. ASSUME NEW d \in Workers PROVE (request[d] = Idle \/ InHand(request[d]) \/ OnTable(request[d]))'
  <2>1. PICK s : s = request'[d]
    OBVIOUS
  <2>2. s = Idle \/ InHand(s)' \/ OnTable(s)
    <3>1. CASE d = c
      BY <1>2, <2>1, <3>1
    <3>2. CASE d # c
      BY <1>2, <2>1, <3>2, HandStays DEF RequestsKnown
    <3>3. QED BY <3>1, <3>2
  <2>3. QED BY <2>1, <2>2 DEF InHand, Recorded, Clear, Passed, OnTable, Making, CompensationAllowed, Idle
<1>4. QED BY <1>2, <1>3 DEF RequestsKnown

LEMMA MoveStarts ==
    ASSUME NEW c \in Workers, NEW at, Move(c, at)
    PROVE  Start(c, [request[c] EXCEPT !.at = at])
BY DEF Move, Start

LEMMA FinishStarts == ASSUME NEW c \in Workers, Finish(c) PROVE Start(c, Idle)
BY DEF Finish, Start

\* The links of warehouses to projects are those there were.
LinksKept == \A g \in tuples' : g.relation = "project" => g \in tuples

\* A step that leaves the registry alone and moves one request.
LEMMA RegistryKept ==
    ASSUME RegistryInv, NEW c \in Workers, NEW r, Start(c, r), UNCHANGED registryVars, LinksKept,
           r = Idle \/ InHand(r) \/ OnTable(r)
    PROVE  RegistryInv'
<1>1. RegistryTypes' /\ CacheAgrees' /\ NothingOrphaned'
  BY DEF RegistryInv, RegistryTypes, CacheAgrees, NothingOrphaned, registryVars
<1>2. TenantsApart'
  BY DEF RegistryInv, TenantsApart, Registered, LinksKept, Grant, registryVars
<1>3. RecordsStay
  BY DEF RecordsStay, registryVars
<1>4. InHand(r) => InHand(r)'
  BY <1>3, HandStays
<1>5. RequestsKnown'
  BY <1>3, <1>4, OneMoves DEF RegistryInv
<1>6. QED BY <1>1, <1>2, <1>5 DEF RegistryInv

LEMMA RegistryEnds ==
    ASSUME RegistryInv, NEW c \in Workers, Finish(c), UNCHANGED registryVars, LinksKept
    PROVE  RegistryInv'
BY FinishStarts, RegistryKept

LEMMA TableKind == ASSUME NEW r, OnTable(r) PROVE r.kind \in TableKinds
<1>1. CASE Making(r)
  BY <1>1 DEF Making, TableKinds
<1>2. CASE ~Making(r)
  BY <1>2 DEF OnTable, TableKinds
<1>3. QED BY <1>1, <1>2

LEMMA HandKnown ==
    ASSUME RegistryInv, NEW c \in Workers, NEW kind \in RegistryKinds, NEW at, Standing(c, kind, at)
    PROVE  InHand(request[c]) /\ request[c].kind = kind /\ request[c].at = at
<1>1. request[c].kind = kind /\ request[c].at = at
  BY DEF Standing
<1>2. ~OnTable(request[c])
  BY <1>1, TableKind DEF TableKinds, RegistryKinds
<1>3. Idle.kind \notin RegistryKinds
  BY DEF Idle, RegistryKinds
<1>4. QED BY <1>1, <1>2, <1>3 DEF RegistryInv, RequestsKnown

LEMMA CreateKeeps ==
    ASSUME RegistryInv, NEW c \in Workers,
           \/ \E user \in Users, p \in Projects : CreateWarehouse(c, user, p)
           \/ ReadExisting(c) \/ PutRecord(c) \/ SeedWarehouse(c)
    PROVE  RegistryInv'
<1>1. ASSUME NEW user \in Users, NEW p \in Projects, CreateWarehouse(c, user, p) PROVE RegistryInv'
  <2>1. PICK listed \in Listings, w \in Warehouses, bucket \in Buckets :
           /\ UNCHANGED <<registryVars, tuples>>
           /\ Start(c, [kind |-> "create", at |-> "listed", user |-> user, warehouse |-> w,
                        project |-> p, bucket |-> bucket, first |-> Claims(listed, p) = {},
                        rivals |-> Rivals(listed, bucket, p)])
    BY <1>1 DEF CreateWarehouse
  <2>2. PICK r : r = [kind |-> "create", at |-> "listed", user |-> user, warehouse |-> w,
                      project |-> p, bucket |-> bucket, first |-> Claims(listed, p) = {},
                      rivals |-> Rivals(listed, bucket, p)]
    OBVIOUS
  <2>3. Rivals(listed, bucket, p) \in SUBSET Projects
    BY DEF Rivals
  <2>4. InHand(r)
    BY <2>2, <2>3 DEF InHand, Listed
  <2>5. QED BY <2>1, <2>2, <2>4, RegistryKept DEF LinksKept
<1>2. CASE ReadExisting(c)
  <2>1. PICK r : r = request[c]
    OBVIOUS
  <2>2. r \in Listed
    BY <1>2, <2>1, HandKnown DEF ReadExisting, InHand, RegistryKinds, Prepared, Gated, Reread, Asked, Binding, Routing
  <2>3. PICK existing : existing = record[r.warehouse]
    OBVIOUS
  <2>4. existing \in Records \cup {None}
    BY <2>2, <2>3 DEF RegistryInv, RegistryTypes, Listed
  <2>5. CASE Finish(c)
    BY <1>2, <2>5, RegistryEnds DEF ReadExisting, LinksKept
  <2>6. CASE ~Finish(c)
    <3>1. PICK new : new = Carried(r, existing)
      OBVIOUS
    <3>2. PICK s : s = [kind |-> "create", at |-> "checked", user |-> r.user, warehouse |-> r.warehouse,
                        first |-> r.first, new |-> new, rivals |-> r.rivals, stood |-> existing]
      OBVIOUS
    <3>3. ~Refuses(r, existing) /\ Start(c, s) /\ UNCHANGED <<registryVars, tuples>>
      BY <1>2, <2>1, <2>3, <2>6, <3>1, <3>2 DEF ReadExisting
    <3>4. new \in Records
      BY <2>2, <2>4, <3>1 DEF Carried, Records, Listed
    <3>5. s \in Prepared /\ s.at = "checked"
      BY <2>2, <2>4, <3>2, <3>4 DEF Prepared, Listed
    <3>6. /\ new.project = r.project /\ new.bucket = r.bucket
          /\ existing # None => new.status = existing.status
      BY <3>1 DEF Carried
    <3>7. Passed(s)
      BY <2>4, <3>2, <3>3, <3>6 DEF Passed, Refuses
    <3>8. InHand(s)
      BY <3>5, <3>7 DEF InHand
    <3>9. QED BY <3>3, <3>8, RegistryKept DEF LinksKept
  <2>7. QED BY <2>5, <2>6
<1>3. CASE PutRecord(c)
  <2>1. PICK r : r = request[c]
    OBVIOUS
  <2>2. r \in Prepared /\ Passed(r)
    BY <1>3, <2>1, HandKnown DEF PutRecord, InHand, RegistryKinds, Listed, Gated, Reread, Asked, Binding, Routing
  <2>3. PICK w, p : w = r.warehouse /\ p = r.new.project
    OBVIOUS
  <2>4. w \in Warehouses /\ p \in Projects /\ r.new \in Records /\ r.new # None
    BY <2>2, <2>3, NoneAssumption DEF Prepared, Records
  <2>5. /\ record' = [record EXCEPT ![w] = r.new]
        /\ UNCHANGED <<binding, cache, spaces, tuples>>
        /\ Move(c, "recorded")
    BY <1>3, <2>1, <2>3 DEF PutRecord
  <2>6. \A v \in Warehouses : record'[v] = IF v = w THEN r.new ELSE record[v]
    BY <2>5 DEF RegistryInv, RegistryTypes
  <2>7. PICK saw : saw = r.rivals \cup (IF r.stood = None THEN {} ELSE {r.stood.project})
    OBVIOUS
  <2>8. blind' = IF ~(Holders(w, r.new.bucket, p) \subseteq saw) THEN blind \cup {w} ELSE blind
    BY <1>3, <2>1, <2>3, <2>7 DEF PutRecord, Blinded
  <2>9. saw \subseteq {p}
    BY <2>2, <2>3, <2>7 DEF Passed
  <2>10. p \notin Holders(w, r.new.bucket, p)
    BY DEF Holders, Rivals
  <2>11. w \notin blind' => Holders(w, r.new.bucket, p) = {}
    BY <2>8, <2>9, <2>10
  <2>12. blind \subseteq blind' /\ \A v \in Warehouses \ {w} : v \in blind' => v \in blind
    BY <2>8
  <2>13. w \notin blind' =>
            /\ record[w] # None => record[w].project = p
            /\ \A v \in Registered : record[v].bucket = r.new.bucket => record[v].project = p
    <3>1. \A v \in Registered : record[v].project \in Projects
      BY DEF Registered, RegistryInv, RegistryTypes, Records
    <3>2. record[w] # None /\ record[w].project # p => record[w].project \in Holders(w, r.new.bucket, p)
      BY <2>4, <3>1 DEF Holders, Claims, Registered
    <3>3. \A v \in Registered : record[v].bucket = r.new.bucket /\ record[v].project # p =>
             record[v].project \in Holders(w, r.new.bucket, p)
      BY <3>1 DEF Holders, Rivals, Claims
    <3>4. QED BY <2>11, <3>2, <3>3
  <2>14. RecordsStay
    BY <2>3, <2>4, <2>6, <2>12, <2>13 DEF RecordsStay
  <2>15. RegistryTypes' /\ CacheAgrees' /\ NothingOrphaned'
    BY <2>4, <2>5, <2>12 DEF RegistryInv, RegistryTypes, CacheAgrees, NothingOrphaned
  <2>16. TenantsApart'
    <3>1. ASSUME NEW v \in Registered' \ blind', NEW x \in Registered' \ blind',
                 record'[v].bucket = record'[x].bucket
          PROVE  record'[v].project = record'[x].project
      <4>1. v \in Warehouses /\ x \in Warehouses /\ v \notin blind /\ x \notin blind
        BY <2>12, <3>1 DEF Registered
      <4>2. (v # w => v \in Registered) /\ (x # w => x \in Registered)
        BY <2>6, <3>1, <4>1 DEF Registered
      <4>3. CASE v # w /\ x # w
        BY <2>6, <3>1, <4>1, <4>2, <4>3 DEF RegistryInv, TenantsApart
      <4>4. CASE v = w /\ x # w
        BY <2>3, <2>6, <2>13, <3>1, <4>1, <4>2, <4>4
      <4>5. CASE v # w /\ x = w
        BY <2>3, <2>6, <2>13, <3>1, <4>1, <4>2, <4>5
      <4>6. QED BY <4>3, <4>4, <4>5
    <3>2. ASSUME NEW v \in Warehouses \ blind', NEW q \in Projects, Grant(q, "project", v) \in tuples'
          PROVE  record'[v] # None /\ record'[v].project = q
      <4>1. v \notin blind /\ Grant(q, "project", v) \in tuples
        BY <2>5, <2>12, <3>2
      <4>2. record[v] # None /\ record[v].project = q
        BY <3>2, <4>1 DEF RegistryInv, TenantsApart
      <4>3. QED BY <2>3, <2>4, <2>6, <2>13, <3>2, <4>2
    <3>3. ASSUME NEW v \in Registered' PROVE record'[v].bucket \notin Reserved
      <4>1. CASE v = w
        BY <2>2, <2>4, <2>6, <4>1 DEF Passed
      <4>2. CASE v # w
        <5>1. v \in Registered /\ record'[v] = record[v]
          BY <2>6, <3>3, <4>2 DEF Registered
        <5>2. QED BY <5>1 DEF RegistryInv, TenantsApart
      <4>3. QED BY <4>1, <4>2
    <3>4. QED BY <3>1, <3>2, <3>3 DEF TenantsApart
  <2>17. PICK s : s = [r EXCEPT !.at = "recorded"]
    OBVIOUS
  <2>18. s \in Prepared /\ s.at = "recorded" /\ s.warehouse = w /\ s.new = r.new
    BY <2>2, <2>3, <2>17 DEF Prepared
  <2>19. InHand(s)'
    BY <2>3, <2>4, <2>6, <2>18 DEF InHand, Recorded
  <2>20. Start(c, s)
    BY <2>1, <2>5, <2>17, MoveStarts
  <2>21. RequestsKnown'
    BY <2>14, <2>19, <2>20, OneMoves DEF RegistryInv
  <2>22. QED BY <2>15, <2>16, <2>21 DEF RegistryInv
<1>4. CASE SeedWarehouse(c)
  <2>1. PICK r : r = request[c]
    OBVIOUS
  <2>2. r \in Prepared /\ Recorded(r.warehouse, r.new.project)
    BY <1>4, <2>1, HandKnown DEF SeedWarehouse, InHand, RegistryKinds, Listed, Gated, Reread, Asked, Binding, Routing
  <2>3. PICK o \in WriteOutcomes(WarehouseGrants(r)) : tuples' = o.store
    BY <1>4, <2>1 DEF SeedWarehouse
  <2>4. \A g \in tuples' : g.relation = "project" => g \in tuples \/ g = Grant(r.new.project, "project", r.warehouse)
    BY <2>3, Seeded
  <2>5. UNCHANGED registryVars /\ Finish(c)
    BY <1>4 DEF SeedWarehouse
  <2>6. RegistryTypes' /\ CacheAgrees' /\ NothingOrphaned'
    BY <2>5 DEF RegistryInv, RegistryTypes, CacheAgrees, NothingOrphaned, registryVars
  <2>7. ASSUME NEW v \in Warehouses \ blind, NEW q \in Projects, Grant(q, "project", v) \in tuples'
        PROVE  record[v] # None /\ record[v].project = q
    <3>1. Grant(q, "project", v).relation = "project"
      BY DEF Grant
    <3>2. CASE Grant(q, "project", v) \in tuples
      BY <2>7, <3>2 DEF RegistryInv, TenantsApart
    <3>3. CASE Grant(q, "project", v) = Grant(r.new.project, "project", r.warehouse)
      <4>1. q = r.new.project /\ v = r.warehouse
        BY <3>3 DEF Grant
      <4>2. QED BY <2>2, <2>7, <4>1 DEF Recorded
    <3>4. QED BY <2>4, <2>7, <3>1, <3>2, <3>3
  <2>8. TenantsApart'
    BY <2>5, <2>7 DEF RegistryInv, TenantsApart, Registered, registryVars
  <2>9. RecordsStay
    BY <2>5 DEF RecordsStay, registryVars
  <2>10. Start(c, Idle)
    BY <2>5, FinishStarts
  <2>11. RequestsKnown'
    BY <2>9, <2>10, OneMoves DEF RegistryInv
  <2>12. QED BY <2>6, <2>8, <2>11 DEF RegistryInv
<1>5. QED BY <1>1, <1>2, <1>3, <1>4

LEMMA StatusKeeps ==
    ASSUME RegistryInv, NEW c \in Workers,
           \/ \E user \in Users, w \in Warehouses : SetStatus(c, user, w)
           \/ ReadRecord(c) \/ PutStatus(c)
    PROVE  RegistryInv'
<1>1. ASSUME NEW user \in Users, NEW w \in Warehouses, SetStatus(c, user, w) PROVE RegistryInv'
  <2>1. PICK status \in {"active", "deactivated"} :
           Start(c, [kind |-> "status", at |-> "gated", warehouse |-> w, status |-> status])
    BY <1>1 DEF SetStatus
  <2>2. PICK r : r = [kind |-> "status", at |-> "gated", warehouse |-> w, status |-> status]
    OBVIOUS
  <2>3. r \in Gated /\ r.warehouse = w
    BY <2>2 DEF Gated
  <2>4. InHand(r)
    BY <1>1, <2>3 DEF InHand, SetStatus
  <2>5. QED BY <1>1, <2>1, <2>2, <2>4, RegistryKept DEF SetStatus, LinksKept
<1>2. CASE ReadRecord(c)
  <2>1. PICK r : r = request[c]
    OBVIOUS
  <2>2. r \in Gated /\ record[r.warehouse] # None
    BY <1>2, <2>1, HandKnown DEF ReadRecord, InHand, RegistryKinds, Listed, Prepared, Reread, Asked, Binding, Routing
  <2>3. r.warehouse \in Registered /\ record[r.warehouse] \in Records /\ r.status \in {"active", "deactivated"}
    BY <2>2 DEF Gated, RegistryInv, RegistryTypes, Registered
  <2>4. PICK new : new = [record[r.warehouse] EXCEPT !.status = r.status]
    OBVIOUS
  <2>5. new \in Records /\ new.bucket = record[r.warehouse].bucket /\ new.status = r.status
    BY <2>3, <2>4 DEF Records
  <2>6. new.bucket \notin Reserved
    BY <2>3, <2>5 DEF RegistryInv, TenantsApart
  <2>7. PICK s : s = [kind |-> "status", at |-> "read", warehouse |-> r.warehouse, status |-> r.status, new |-> new]
    OBVIOUS
  <2>8. s \in Reread
    BY <2>2, <2>5, <2>7 DEF Reread, Gated
  <2>9. s.warehouse = r.warehouse /\ s.new = new /\ s.status = r.status
    BY <2>7
  <2>10. InHand(s)
    BY <2>2, <2>5, <2>6, <2>8, <2>9 DEF InHand
  <2>11. Start(c, s) /\ UNCHANGED <<registryVars, tuples>>
    BY <1>2, <2>1, <2>4, <2>7 DEF ReadRecord
  <2>12. QED BY <2>10, <2>11, RegistryKept DEF LinksKept
<1>3. CASE PutStatus(c)
  <2>1. PICK r : r = request[c]
    OBVIOUS
  <2>2. r \in Reread /\ record[r.warehouse] # None /\ r.new.bucket \notin Reserved
    BY <1>3, <2>1, HandKnown DEF PutStatus, InHand, RegistryKinds, Listed, Prepared, Gated, Asked, Binding, Routing
  <2>3. PICK w : w = r.warehouse
    OBVIOUS
  <2>4. w \in Warehouses /\ r.new \in Records /\ r.new # None /\ record[w] \in Records
    BY <2>2, <2>3, NoneAssumption DEF Reread, RegistryInv, RegistryTypes
  <2>5. /\ record' = [record EXCEPT ![w] = r.new]
        /\ UNCHANGED <<binding, cache, spaces, tuples>>
        /\ Finish(c)
    BY <1>3, <2>1, <2>3 DEF PutStatus
  <2>6. \A v \in Warehouses : record'[v] = IF v = w THEN r.new ELSE record[v]
    BY <2>5 DEF RegistryInv, RegistryTypes
  <2>7. blind' = IF record[w].project # r.new.project \/ record[w].bucket # r.new.bucket THEN blind \cup {w} ELSE blind
    BY <1>3, <2>1, <2>3 DEF PutStatus, Blinded
  <2>8. /\ blind \subseteq blind'
        /\ w \notin blind' => record[w].project = r.new.project /\ record[w].bucket = r.new.bucket
    BY <2>7
  <2>9. \A v \in Warehouses \ blind' : record[v] # None =>
           record'[v].project = record[v].project /\ record'[v].bucket = record[v].bucket
    BY <2>6, <2>8
  <2>10. \A v \in Warehouses : record'[v] # None <=> record[v] # None
    BY <2>2, <2>3, <2>4, <2>6
  <2>11. RecordsStay
    BY <2>8, <2>9, <2>10 DEF RecordsStay
  <2>12. RegistryTypes' /\ CacheAgrees' /\ NothingOrphaned'
    BY <2>4, <2>5, <2>8 DEF RegistryInv, RegistryTypes, CacheAgrees, NothingOrphaned
  <2>13. Registered' = Registered
    BY <2>10 DEF Registered
  <2>14. TenantsApart'
    <3>1. ASSUME NEW v \in Registered \ blind', NEW x \in Registered \ blind',
                 record'[v].bucket = record'[x].bucket
          PROVE  record'[v].project = record'[x].project
      <4>1. v \in Registered \ blind /\ x \in Registered \ blind /\ v \in Warehouses /\ x \in Warehouses
        BY <2>8, <3>1 DEF Registered
      <4>2. record[v].bucket = record[x].bucket
        BY <2>9, <3>1, <4>1 DEF Registered
      <4>3. record[v].project = record[x].project
        BY <4>1, <4>2 DEF RegistryInv, TenantsApart
      <4>4. QED BY <2>9, <3>1, <4>1, <4>3 DEF Registered
    <3>2. ASSUME NEW v \in Warehouses \ blind', NEW q \in Projects, Grant(q, "project", v) \in tuples'
          PROVE  record'[v] # None /\ record'[v].project = q
      <4>1. record[v] # None /\ record[v].project = q
        BY <2>5, <2>8, <3>2 DEF RegistryInv, TenantsApart
      <4>2. QED BY <2>9, <2>10, <3>2, <4>1
    <3>3. ASSUME NEW v \in Registered PROVE record'[v].bucket \notin Reserved
      <4>1. v \in Warehouses /\ record[v].bucket \notin Reserved
        BY <3>3 DEF Registered, RegistryInv, TenantsApart
      <4>2. QED BY <2>2, <2>6, <4>1
    <3>4. QED BY <2>13, <3>1, <3>2, <3>3 DEF TenantsApart
  <2>15. Start(c, Idle)
    BY <2>5, FinishStarts
  <2>16. RequestsKnown'
    BY <2>11, <2>15, OneMoves DEF RegistryInv
  <2>17. QED BY <2>12, <2>14, <2>16 DEF RegistryInv
<1>4. QED BY <1>1, <1>2, <1>3

LEMMA BindKeeps ==
    ASSUME RegistryInv, NEW c \in Workers,
           \/ \E user \in Users, w \in Warehouses : BindNamespace(c, user, w)
           \/ CheckBinding(c) \/ MakeBound(c) \/ WriteBinding(c) \/ GrantBound(c)
    PROVE  RegistryInv'
<1>1. ASSUME NEW user \in Users, NEW w \in Warehouses, BindNamespace(c, user, w) PROVE RegistryInv'
  <2>1. PICK server \in Replicas, n \in Namespaces :
           Start(c, [kind |-> "bind", at |-> "gated", server |-> server, user |-> user,
                     warehouse |-> w, namespace |-> n, root |-> record[w].bucket])
    BY <1>1 DEF BindNamespace
  <2>2. PICK r : r = [kind |-> "bind", at |-> "gated", server |-> server, user |-> user,
                      warehouse |-> w, namespace |-> n, root |-> record[w].bucket]
    OBVIOUS
  <2>3. record[w] \in Records
    BY <1>1 DEF BindNamespace, RegistryInv, RegistryTypes
  <2>4. r \in Asked
    BY <2>2, <2>3 DEF Asked, Records
  <2>5. InHand(r)
    BY <2>4 DEF InHand
  <2>6. QED BY <1>1, <2>1, <2>2, <2>5, RegistryKept DEF BindNamespace, LinksKept
<1>2. CASE CheckBinding(c)
  <2>1. PICK r : r = request[c]
    OBVIOUS
  <2>2. r \in Asked
    BY <1>2, <2>1, HandKnown
       DEF CheckBinding, InHand, RegistryKinds, Listed, Prepared, Gated, Reread, Binding, Routing
  <2>3. CASE Finish(c)
    BY <1>2, <2>3, RegistryEnds DEF CheckBinding, LinksKept
  <2>4. CASE ~Finish(c)
    <3>1. PICK saw : saw = Whereabouts(r.namespace)
      OBVIOUS
    <3>2. PICK s : s = [kind |-> "bind", at |-> "free", server |-> r.server, user |-> r.user,
                        warehouse |-> r.warehouse, namespace |-> r.namespace, root |-> r.root, saw |-> saw]
      OBVIOUS
    <3>3. Bindable(r.namespace, r.root) /\ Start(c, s) /\ UNCHANGED <<registryVars, tuples>>
      BY <1>2, <2>1, <2>4, <3>1, <3>2 DEF CheckBinding
    <3>4. saw = <<binding[r.namespace], {}>> /\ (binding[r.namespace] = None \/ binding[r.namespace].root = r.root)
      BY <3>1, <3>3 DEF Whereabouts, Bindable
    <3>5. binding[r.namespace] \in Bindings \cup {None}
      BY <2>2 DEF Asked, RegistryInv, RegistryTypes
    <3>6. s \in Binding
      BY <2>2, <3>2, <3>4, <3>5 DEF Binding, Asked
    <3>7. s.saw = saw /\ s.root = r.root
      BY <3>2
    <3>8. Clear(s)
      BY <3>4, <3>7 DEF Clear
    <3>9. InHand(s)
      BY <3>6, <3>8 DEF InHand
    <3>10. QED BY <3>3, <3>9, RegistryKept DEF LinksKept
  <2>5. QED BY <2>3, <2>4
<1>3. ASSUME NEW at, Standing(c, "bind", at), at # "gated"
      PROVE  request[c] \in Binding /\ Clear(request[c])
  BY <1>3, HandKnown DEF InHand, RegistryKinds, Listed, Prepared, Gated, Reread, Asked, Routing
<1>4. CASE MakeBound(c)
  <2>1. PICK r : r = request[c]
    OBVIOUS
  <2>2. r \in Binding /\ Clear(r)
    BY <1>3, <1>4, <2>1 DEF MakeBound
  <2>3. CASE Finish(c) /\ UNCHANGED spaces
    BY <1>4, <2>3, RegistryEnds DEF MakeBound, registryVars, LinksKept
  <2>4. CASE MakeSpace(c, r.root, r.namespace) /\ Move(c, "made")
    <3>1. UNCHANGED <<record, binding, cache, blind, tuples>> /\ spaces' = spaces \cup {<<r.root, r.namespace>>}
      BY <1>4, <2>4 DEF MakeBound, MakeSpace
    <3>2. r.root # Default
      BY <2>2, DefaultAssumption DEF Binding
    <3>3. RegistryTypes' /\ TenantsApart' /\ CacheAgrees' /\ NothingOrphaned'
      BY <3>1, <3>2 DEF RegistryInv, RegistryTypes, TenantsApart, Registered, CacheAgrees, NothingOrphaned
    <3>4. PICK s : s = [r EXCEPT !.at = "made"]
      OBVIOUS
    <3>5. s \in Binding /\ s.saw = r.saw /\ s.root = r.root
      BY <2>2, <3>4 DEF Binding
    <3>6. InHand(s)'
      BY <2>2, <3>5 DEF InHand, Clear
    <3>7. Start(c, s)
      BY <2>1, <2>4, <3>4, MoveStarts
    <3>8. RecordsStay
      BY <3>1 DEF RecordsStay
    <3>9. RequestsKnown'
      BY <3>6, <3>7, <3>8, OneMoves DEF RegistryInv
    <3>10. QED BY <3>3, <3>9 DEF RegistryInv
  <2>5. QED BY <1>4, <2>1, <2>3, <2>4 DEF MakeBound
<1>5. CASE WriteBinding(c)
  <2>1. PICK r : r = request[c]
    OBVIOUS
  <2>2. r \in Binding /\ Clear(r)
    BY <1>3, <1>5, <2>1 DEF WriteBinding
  <2>3. PICK n, server : n = r.namespace /\ server = r.server
    OBVIOUS
  <2>4. PICK bound : bound = [warehouse |-> r.warehouse, root |-> r.root]
    OBVIOUS
  <2>5. n \in Namespaces /\ server \in Replicas /\ bound \in Bindings /\ bound.root = r.root /\ bound # None
    BY <2>2, <2>3, <2>4, NoneAssumption DEF Binding, Bindings
  <2>6. /\ binding' = [binding EXCEPT ![n] = bound]
        /\ cache' = [cache EXCEPT ![server][n] = bound]
        /\ Blinded(n, Whereabouts(n) # r.saw)
        /\ UNCHANGED <<record, spaces, tuples>>
        /\ Move(c, "bound")
    BY <1>5, <2>1, <2>3, <2>4 DEF WriteBinding
  <2>7. \A m \in Namespaces : binding'[m] = IF m = n THEN bound ELSE binding[m]
    BY <2>6 DEF RegistryInv, RegistryTypes
  <2>8. \A a \in Replicas, m \in Namespaces : cache'[a][m] = IF a = server /\ m = n THEN bound ELSE cache[a][m]
    BY <2>6 DEF RegistryInv, RegistryTypes
  <2>9. RegistryTypes'
    BY <2>5, <2>6 DEF RegistryInv, RegistryTypes
  <2>10. /\ blind \subseteq blind'
         /\ n \notin blind' => Whereabouts(n) = r.saw
    BY <2>6 DEF Blinded
  <2>11. n \notin blind' => <<Default, n>> \notin spaces /\ (binding[n] = None \/ binding[n].root = r.root)
    BY <2>2, <2>10 DEF Clear, Whereabouts
  <2>12. CacheAgrees'
    <3>1. ASSUME NEW a \in Replicas, NEW m \in Namespaces \ blind', cache'[a][m] # None
          PROVE  binding'[m] # None /\ cache'[a][m].root = binding'[m].root
      <4>1. CASE a = server /\ m = n
        BY <2>5, <2>7, <2>8, <4>1
      <4>2. CASE ~(a = server /\ m = n)
        <5>1. cache'[a][m] = cache[a][m] /\ m \notin blind
          BY <2>8, <2>10, <3>1, <4>2
        <5>2. binding[m] # None /\ cache[a][m].root = binding[m].root
          BY <3>1, <5>1 DEF RegistryInv, CacheAgrees
        <5>3. m = n => binding[m].root = bound.root
          BY <2>5, <2>11, <3>1, <5>2
        <5>4. QED BY <2>5, <2>7, <5>1, <5>2, <5>3
      <4>3. QED BY <4>1, <4>2
    <3>2. QED BY <3>1 DEF CacheAgrees
  <2>13. NothingOrphaned'
    BY <2>6, <2>7, <2>10, <2>11 DEF RegistryInv, NothingOrphaned
  <2>14. TenantsApart'
    BY <2>6, <2>10 DEF RegistryInv, TenantsApart, Registered
  <2>15. RecordsStay
    BY <2>6, <2>10 DEF RecordsStay
  <2>16. PICK s : s = [r EXCEPT !.at = "bound"]
    OBVIOUS
  <2>17. s \in Binding /\ s.saw = r.saw /\ s.root = r.root
    BY <2>2, <2>16 DEF Binding
  <2>18. InHand(s)'
    BY <2>2, <2>17 DEF InHand, Clear
  <2>19. Start(c, s)
    BY <2>1, <2>6, <2>16, MoveStarts
  <2>20. RequestsKnown'
    BY <2>15, <2>18, <2>19, OneMoves DEF RegistryInv
  <2>21. QED BY <2>9, <2>12, <2>13, <2>14, <2>20 DEF RegistryInv
<1>6. CASE GrantBound(c)
  <2>1. PICK r : r = request[c]
    OBVIOUS
  <2>2. PICK o \in WriteOutcomes(<<Grant(r.user, "owner", r.namespace), Grant(r.warehouse, "parent", r.namespace)>>) :
           tuples' = o.store
    BY <1>6, <2>1 DEF GrantBound
  <2>3. LinksKept
    BY <2>2, WrittenTwo DEF LinksKept, Grant
  <2>4. QED BY <1>6, <2>3, RegistryEnds DEF GrantBound
<1>7. QED BY <1>1, <1>2, <1>4, <1>5, <1>6

LEMMA SpaceKeeps ==
    ASSUME RegistryInv, NEW c \in Workers,
           \/ \E server \in Replicas, user \in Users, n \in Namespaces,
                 kind \in {"create-namespace", "drop-namespace"} : Route(c, server, user, n, kind)
           \/ MakeRouted(c) \/ GrantRouted(c) \/ DropSpace(c) \/ RevokeSpace(c)
    PROVE  RegistryInv'
<1>1. ASSUME NEW server \in Replicas, NEW user \in Users, NEW n \in Namespaces,
             NEW kind \in {"create-namespace", "drop-namespace"}, Route(c, server, user, n, kind)
      PROVE  RegistryInv'
  <2>1. PICK known : known = Known(server, n)
    OBVIOUS
  <2>2. /\ known \in Bindings \cup {None}
        /\ known # None => known.root \in Buckets
        /\ n \notin blind /\ known # None => binding[n] # None /\ known.root = binding[n].root
    BY <2>1 DEF Known, RegistryInv, RegistryTypes, CacheAgrees, Bindings
  <2>3. cache' = [cache EXCEPT ![server][n] = known] /\ UNCHANGED <<record, binding, spaces, blind, tuples>>
    BY <1>1, <2>1 DEF Route
  <2>4. \A a \in Replicas, m \in Namespaces : cache'[a][m] = IF a = server /\ m = n THEN known ELSE cache[a][m]
    BY <2>3 DEF RegistryInv, RegistryTypes
  <2>5. RegistryTypes' /\ TenantsApart' /\ NothingOrphaned'
    BY <2>2, <2>3 DEF RegistryInv, RegistryTypes, TenantsApart, Registered, NothingOrphaned
  <2>6. CacheAgrees'
    BY <2>2, <2>3, <2>4 DEF RegistryInv, CacheAgrees
  <2>7. PICK root : root = RootOf(server, n)
    OBVIOUS
  <2>8. root \in Buckets \cup {Default}
    BY <2>1, <2>2, <2>7 DEF RootOf
  <2>9. PICK r : r = [kind |-> kind, at |-> "routed", user |-> user, namespace |-> n, root |-> root]
    OBVIOUS
  <2>10. r \in Routing
    BY <2>8, <2>9 DEF Routing
  <2>11. Start(c, r) /\ InHand(r)'
    BY <1>1, <2>7, <2>9, <2>10 DEF Route, InHand
  <2>12. RecordsStay
    BY <2>3 DEF RecordsStay
  <2>13. RequestsKnown'
    BY <2>11, <2>12, OneMoves DEF RegistryInv
  <2>14. QED BY <2>5, <2>6, <2>13 DEF RegistryInv
<1>2. ASSUME NEW kind \in {"create-namespace", "drop-namespace"}, NEW at, Standing(c, kind, at)
      PROVE  request[c] \in Routing
  BY <1>2, HandKnown DEF InHand, RegistryKinds, Listed, Prepared, Gated, Reread, Asked, Binding
<1>3. ASSUME request[c] \in Routing, NEW at \in {"made", "dropped"}, Move(c, at), blind \subseteq blind',
             UNCHANGED <<record, binding, cache, tuples>>,
             \A n \in Namespaces \ blind' :
                binding[n] # None /\ <<Default, n>> \in spaces' => <<Default, n>> \in spaces
      PROVE  RegistryInv'
  <2>1. PICK r, s : r = request[c] /\ s = [r EXCEPT !.at = at]
    OBVIOUS
  <2>2. s \in Routing
    BY <1>3, <2>1 DEF Routing
  <2>3. RegistryTypes' /\ TenantsApart' /\ CacheAgrees' /\ NothingOrphaned'
    BY <1>3 DEF RegistryInv, RegistryTypes, CacheAgrees, NothingOrphaned, TenantsApart, Registered
  <2>4. Start(c, s) /\ InHand(s)'
    BY <1>3, <2>1, <2>2, MoveStarts DEF InHand
  <2>5. RecordsStay
    BY <1>3 DEF RecordsStay
  <2>6. RequestsKnown'
    BY <2>4, <2>5, OneMoves DEF RegistryInv
  <2>7. QED BY <2>3, <2>6 DEF RegistryInv
<1>4. CASE MakeRouted(c)
  <2>1. PICK r : r = request[c]
    OBVIOUS
  <2>2. r \in Routing
    BY <1>2, <1>4, <2>1 DEF MakeRouted
  <2>3. CASE Finish(c) /\ UNCHANGED <<spaces, blind>>
    BY <1>4, <2>3, RegistryEnds DEF MakeRouted, registryVars, LinksKept
  <2>4. CASE /\ MakeSpace(c, r.root, r.namespace) /\ Move(c, "made")
             /\ Blinded(r.namespace, r.root = Default /\ binding[r.namespace] # None)
    <3>1. spaces' = spaces \cup {<<r.root, r.namespace>>} /\ blind \subseteq blind'
      BY <2>4 DEF MakeSpace, Blinded
    <3>2. r.root = Default /\ binding[r.namespace] # None => r.namespace \in blind'
      BY <2>4 DEF Blinded
    <3>3. \A n \in Namespaces \ blind' :
             binding[n] # None /\ <<Default, n>> \in spaces' => <<Default, n>> \in spaces
      BY <3>1, <3>2
    <3>4. QED BY <1>3, <1>4, <2>1, <2>2, <2>4, <3>1, <3>3 DEF MakeRouted
  <2>5. QED BY <1>4, <2>1, <2>3, <2>4 DEF MakeRouted
<1>5. CASE DropSpace(c)
  <2>1. request[c] \in Routing
    BY <1>2, <1>5 DEF DropSpace
  <2>2. CASE Finish(c) /\ UNCHANGED spaces
    BY <1>5, <2>2, RegistryEnds DEF DropSpace, registryVars, LinksKept
  <2>3. CASE ~(Finish(c) /\ UNCHANGED spaces)
    BY <1>3, <1>5, <2>1, <2>3 DEF DropSpace
  <2>4. QED BY <2>2, <2>3
<1>6. CASE GrantRouted(c)
  <2>1. PICK r : r = request[c]
    OBVIOUS
  <2>2. PICK o \in WriteOutcomes(<<Grant(r.user, "owner", r.namespace), Grant(Root, "parent", r.namespace)>>) :
           tuples' = o.store
    BY <1>6, <2>1 DEF GrantRouted
  <2>3. LinksKept
    BY <2>2, WrittenTwo DEF LinksKept, Grant
  <2>4. QED BY <1>6, <2>3, RegistryEnds DEF GrantRouted
<1>7. CASE RevokeSpace(c)
  <2>1. PICK o \in RevokeOutcomes(request[c].namespace) : tuples' = o.store
    BY <1>7 DEF RevokeSpace
  <2>2. LinksKept
    BY <2>1, Revoked DEF LinksKept
  <2>3. QED BY <1>7, <2>2, RegistryEnds DEF RevokeSpace
<1>8. QED BY <1>1, <1>4, <1>5, <1>6, <1>7

\* A step that moves no request.
LEMMA RequestsStay ==
    ASSUME RequestsKnown, RecordsStay, request' = request
    PROVE  RequestsKnown'
<1>1. ASSUME NEW d \in Workers PROVE (request[d] = Idle \/ InHand(request[d]) \/ OnTable(request[d]))'
  <2>1. PICK s : s = request[d]
    OBVIOUS
  <2>2. s = Idle \/ InHand(s)' \/ OnTable(s)
    BY <2>1, HandStays DEF RequestsKnown
  <2>3. request'[d] = s
    BY <2>1
  <2>4. QED BY <2>2, <2>3 DEF InHand, Recorded, Clear, Passed, OnTable, Making, CompensationAllowed, Idle
<1>2. QED BY <1>1 DEF RequestsKnown

LEMMA RestartKeeps ==
    ASSUME RegistryInv, NEW server \in Replicas, Restart(server)
    PROVE  RegistryInv'
<1>1. /\ cache' = [cache EXCEPT ![server] = [n \in Namespaces |-> None]]
      /\ UNCHANGED <<record, binding, spaces, request, blind, tuples>>
  BY DEF Restart
<1>2. RegistryTypes' /\ TenantsApart' /\ NothingOrphaned'
  BY <1>1 DEF RegistryInv, RegistryTypes, TenantsApart, Registered, NothingOrphaned
<1>3. \A a \in Replicas, n \in Namespaces : cache'[a][n] = None \/ cache'[a][n] = cache[a][n]
  BY <1>1 DEF RegistryInv, RegistryTypes
<1>4. CacheAgrees'
  BY <1>1, <1>3 DEF RegistryInv, CacheAgrees
<1>5. RequestsKnown'
  BY <1>1, RequestsStay DEF RecordsStay, RegistryInv
<1>6. QED BY <1>2, <1>4, <1>5 DEF RegistryInv

-----------------------------------------------------------------------------
(* The requests on tables leave the registry and the links to projects     *)
(* alone.                                                                  *)

\* What such a step does to the requests.
Handed(c) == request' = request \/ \E r : Start(c, r) /\ (r = Idle \/ OnTable(r))

LEMMA TableKnown ==
    ASSUME RegistryInv, NEW c \in Workers, NEW kind \in TableKinds, NEW at, Standing(c, kind, at)
    PROVE  OnTable(request[c]) /\ request[c].kind = kind /\ request[c].at = at
<1>1. request[c].kind = kind /\ request[c].at = at
  BY DEF Standing
<1>2. ASSUME NEW r, InHand(r) PROVE r.kind \in RegistryKinds
  BY <1>2 DEF InHand, RegistryKinds, Listed, Prepared, Gated, Reread, Asked, Binding, Routing
<1>3. ~InHand(request[c])
  BY <1>1, <1>2 DEF TableKinds, RegistryKinds
<1>4. Idle.kind \notin TableKinds
  BY DEF Idle, TableKinds
<1>5. QED BY <1>1, <1>3, <1>4 DEF RegistryInv, RequestsKnown

\* What requests without a compensation move to does not matter.
LEMMA OthersMove ==
    ASSUME RegistryInv, NEW c \in Workers, NEW kind \in {"drop", "rename", "batch"}, NEW at,
           Standing(c, kind, at)
    PROVE  /\ \A to : Move(c, to) => Handed(c)
           /\ \A left : request' = [request EXCEPT ![c].left = left] => Handed(c)
<1>1. PICK r : r = request[c]
  OBVIOUS
<1>2. OnTable(r) /\ r.kind = kind
  BY <1>1, TableKnown DEF TableKinds
<1>3. "kind" \in DOMAIN r
  BY <1>2 DEF OnTable, Making
<1>4. ASSUME NEW to, Move(c, to) PROVE Handed(c)
  <2>1. PICK s : s = [r EXCEPT !.at = to]
    OBVIOUS
  <2>2. OnTable(s)
    BY <1>2, <1>3, <2>1 DEF OnTable
  <2>3. Start(c, s)
    BY <1>1, <1>4, <2>1, MoveStarts
  <2>4. QED BY <2>2, <2>3 DEF Handed
<1>5. ASSUME NEW left, request' = [request EXCEPT ![c].left = left] PROVE Handed(c)
  <2>1. PICK s : s = [r EXCEPT !.left = left]
    OBVIOUS
  <2>2. OnTable(s)
    BY <1>2, <1>3, <2>1 DEF OnTable
  <2>3. Start(c, s)
    BY <1>1, <1>5, <2>1 DEF Start
  <2>4. QED BY <2>2, <2>3 DEF Handed
<1>6. QED BY <1>4, <1>5

\* A create on its way, from the write to the compensation.
LEMMA MakersMove ==
    ASSUME NEW r, Making(r), NEW at,
           r.at # "probed",
           at \in {"revoke", "drop"} => CompensationAllowed(r)
    PROVE  OnTable([r EXCEPT !.at = at])
<1>1. PICK from, user, t, mode, existed, was :
         r = [kind |-> "table", at |-> from, user |-> user, table |-> t,
              mode |-> mode, existed |-> existed, was |-> was]
  BY Zenon DEF Making
<1>2. PICK s : s = [r EXCEPT !.at = at]
  OBVIOUS
<1>3. /\ s = [kind |-> "table", at |-> at, user |-> user, table |-> t,
              mode |-> mode, existed |-> existed, was |-> was]
      /\ s.at = at /\ s.mode = r.mode /\ s.was = r.was /\ s.existed = r.existed
  BY <1>1, <1>2
<1>4. CompensationAllowed(r) => CompensationAllowed(s)
  BY <1>3 DEF CompensationAllowed
<1>5. \E at1, user1, t1, mode1, existed1, was1 :
         s = [kind |-> "table", at |-> at1, user |-> user1, table |-> t1,
              mode |-> mode1, existed |-> existed1, was |-> was1]
  BY <1>3
<1>6. r.at # "probed" /\ r.mode = "create" => r.was # "written"
  BY DEF Making
<1>7. Making(s)
  BY <1>3, <1>4, <1>5, <1>6 DEF Making
<1>8. QED BY <1>2, <1>7 DEF OnTable

LEMMA WriteHands ==
    ASSUME RegistryInv, NEW c \in Workers, WriteTable(c)
    PROVE  Handed(c)
<1>1. PICK r : r = request[c]
  OBVIOUS
<1>2. Making(r) /\ r.at = "probed"
  BY <1>1, TableKnown DEF WriteTable, TableKinds, OnTable
<1>3. CASE Finish(c)
  BY <1>3, FinishStarts DEF Handed
<1>4. CASE ~Finish(c)
  <2>1. PICK was : was = table[r.table]
    OBVIOUS
  <2>2. PICK at \in {"reset", "seed"} :
           /\ Start(c, [r EXCEPT !.at = at, !.was = was])
           /\ r.mode = "create" => was # "written"
    BY <1>1, <1>4, <2>1 DEF WriteTable
  <2>3. PICK s : s = [r EXCEPT !.at = at, !.was = was]
    OBVIOUS
  <2>4. PICK from, user, t, mode, existed, old :
           r = [kind |-> "table", at |-> from, user |-> user, table |-> t,
                mode |-> mode, existed |-> existed, was |-> old]
    BY <1>2, Zenon DEF Making
  <2>5. /\ s = [kind |-> "table", at |-> at, user |-> user, table |-> t,
                mode |-> mode, existed |-> existed, was |-> was]
        /\ s.at = at /\ s.mode = r.mode /\ s.was = was
    BY <2>3, <2>4
  <2>6. \E at1, user1, t1, mode1, existed1, was1 :
           s = [kind |-> "table", at |-> at1, user |-> user1, table |-> t1,
                mode |-> mode1, existed |-> existed1, was |-> was1]
    BY <2>5
  <2>7. Making(s)
    BY <2>2, <2>5, <2>6 DEF Making
  <2>8. QED BY <2>2, <2>3, <2>7 DEF Handed, OnTable
<1>5. QED BY <1>3, <1>4

LEMMA MakersHand ==
    ASSUME RegistryInv, NEW c \in Workers, NEW from, NEW at, Standing(c, "table", from), from # "probed",
           Move(c, at), at \in {"revoke", "drop"} => CompensationAllowed(request[c])
    PROVE  Handed(c)
<1>1. PICK r : r = request[c]
  OBVIOUS
<1>2. OnTable(r) /\ r.kind = "table" /\ r.at = from
  BY <1>1, TableKnown DEF TableKinds
<1>3. Making(r)
  BY <1>2 DEF OnTable
<1>4. OnTable([r EXCEPT !.at = at])
  BY <1>1, <1>2, <1>3, MakersMove
<1>5. QED BY <1>1, <1>4, MoveStarts DEF Handed

LEMMA StepsHand ==
    ASSUME RegistryInv, NEW c \in Workers, TableStep(c)
    PROVE  Handed(c)
<1>1. Finish(c) => Handed(c)
  BY FinishStarts DEF Handed
<1>2. CASE WriteTable(c)
  BY <1>2, WriteHands
<1>3. CASE ResetGrants(c)
  BY <1>1, <1>3, MakersHand DEF ResetGrants
<1>4. CASE SeedTable(c)
  BY <1>1, <1>4, MakersHand DEF SeedTable
<1>5. CASE CompensateGrants(c)
  <2>1. PICK r : r = request[c]
    OBVIOUS
  <2>2. OnTable(r) /\ r.kind = "table" /\ r.at = "revoke"
    BY <1>5, <2>1, TableKnown DEF CompensateGrants, TableKinds
  <2>3. CompensationAllowed(r)
    BY <2>2 DEF OnTable, Making
  <2>4. QED BY <1>1, <1>5, <2>1, <2>3, MakersHand DEF CompensateGrants
<1>6. CASE CompensateTable(c) \/ RevokeDropped(c) \/ SeedDestination(c)
  BY <1>1, <1>6 DEF CompensateTable, RevokeDropped, SeedDestination
<1>7. CASE CopyTable(c)
  BY <1>1, <1>7, OthersMove DEF CopyTable
<1>8. CASE RemoveSource(c)
  BY <1>8, OthersMove DEF RemoveSource
<1>9. CASE RevokeSource(c)
  BY <1>1, <1>9, OthersMove DEF RevokeSource
<1>10. CASE SeedBatch(c)
  <2>1. Finish(c) \/ \E left : request' = [request EXCEPT ![c].left = left]
    BY <1>10 DEF SeedBatch
  <2>2. QED BY <1>1, <1>10, <2>1, OthersMove DEF SeedBatch
<1>11. QED BY <1>2, <1>3, <1>4, <1>5, <1>6, <1>7, <1>8, <1>9, <1>10 DEF TableStep

LEMMA RequestsHand ==
    ASSUME NEW c \in Workers, TableRequest(c)
    PROVE  Handed(c)
<1>1. PICK user \in Users, t \in Tables :
         \/ \E mode \in Modes : CreateTable(c, user, t, mode)
         \/ \E value \in {"declared", "written"} : Attach(c, user, t, value)
         \/ DropTable(c, user, t)
         \/ \E d \in Tables : RenameTable(c, user, t, d)
         \/ \E grantee \in Grantees, rung \in Rungs :
               \/ \E adds \in BOOLEAN : TableAccess(c, user, grantee, rung, t, adds)
               \/ \E adds \in BOOLEAN : NamespaceAccess(c, user, grantee, rung, Home[t], adds)
               \/ WriteAccessTuple(c, user, grantee, rung, t)
               \/ DeleteAccessTuple(c, user, grantee, rung, t)
         \/ \E ops \in Batches : BatchCommit(c, user, ops)
  BY DEF TableRequest
<1>2. ASSUME NEW at \in {"probed", "seed"}, NEW mode, NEW existed, NEW was,
             at = "seed" => mode # "create",
             Start(c, [kind |-> "table", at |-> at, user |-> user, table |-> t,
                       mode |-> mode, existed |-> existed, was |-> was])
      PROVE  Handed(c)
  <2>1. PICK s : s = [kind |-> "table", at |-> at, user |-> user, table |-> t,
                      mode |-> mode, existed |-> existed, was |-> was]
    OBVIOUS
  <2>2. s.at = at /\ s.mode = mode
    BY <2>1
  <2>3. \E at1, user1, t1, mode1, existed1, was1 :
           s = [kind |-> "table", at |-> at1, user |-> user1, table |-> t1,
                mode |-> mode1, existed |-> existed1, was |-> was1]
    BY <2>1
  <2>4. Making(s)
    BY <1>2, <2>2, <2>3 DEF Making
  <2>5. QED BY <1>2, <2>1, <2>4 DEF Handed, OnTable
<1>3. ASSUME NEW mode \in Modes, CreateTable(c, user, t, mode) PROVE Handed(c)
  <2>1. PICK existed : existed = (mode # "create" /\ table[t] # "absent")
    OBVIOUS
  <2>2. Start(c, [kind |-> "table", at |-> "probed", user |-> user, table |-> t,
                  mode |-> mode, existed |-> existed, was |-> table[t]])
    BY <1>3, <2>1, Zenon DEF CreateTable
  <2>3. QED BY <1>2, <2>2
<1>4. ASSUME NEW value, Attach(c, user, t, value) PROVE Handed(c)
  <2>1. Start(c, [kind |-> "table", at |-> "seed", user |-> user, table |-> t,
                  mode |-> "attach", existed |-> FALSE, was |-> "absent"])
    BY <1>4 DEF Attach
  <2>2. QED BY <1>2, <2>1
<1>5. ASSUME NEW r, "kind" \in DOMAIN r, r.kind \in {"drop", "rename", "batch"}, Start(c, r) PROVE Handed(c)
  BY <1>5 DEF Handed, OnTable
<1>6. CASE DropTable(c, user, t)
  BY <1>5, <1>6 DEF DropTable
<1>7. ASSUME NEW d \in Tables, RenameTable(c, user, t, d) PROVE Handed(c)
  BY <1>5, <1>7 DEF RenameTable
<1>8. ASSUME NEW ops \in Batches, BatchCommit(c, user, ops) PROVE Handed(c)
  <2>1. PICK left : Start(c, [kind |-> "batch", at |-> "committed", user |-> user, left |-> left])
    BY <1>8 DEF BatchCommit
  <2>2. QED BY <1>5, <2>1
<1>9. ASSUME NEW grantee \in Grantees, NEW rung \in Rungs,
             \/ \E adds \in BOOLEAN : TableAccess(c, user, grantee, rung, t, adds)
             \/ \E adds \in BOOLEAN : NamespaceAccess(c, user, grantee, rung, Home[t], adds)
             \/ WriteAccessTuple(c, user, grantee, rung, t)
             \/ DeleteAccessTuple(c, user, grantee, rung, t)
      PROVE  Handed(c)
  BY <1>9 DEF TableAccess, NamespaceAccess, WriteAccessTuple, DeleteAccessTuple, ChangeOnTable, Handed
<1>10. QED BY <1>1, <1>3, <1>4, <1>6, <1>7, <1>8, <1>9

LEMMA TablesApart ==
    ASSUME NEW c \in Workers, TableRequest(c) \/ TableStep(c)
    PROVE  UNCHANGED registryVars /\ LinksKept
<1>1. ASSUME NEW g, g.relation # "project", NEW adds \in BOOLEAN, Change(g, adds) PROVE LinksKept
  BY <1>1, WrittenOne DEF Change, DeleteOutcomes, Outcome, LinksKept
<1>2. ASSUME NEW t, Revoke(t) PROVE LinksKept
  BY <1>2, Revoked DEF Revoke, LinksKept
<1>3. ASSUME NEW user, NEW t, NEW o \in WriteOutcomes(CreateGrants(user, t)), tuples' = o.store
      PROVE  LinksKept
  BY <1>3, WrittenTwo DEF CreateGrants, OwnerOf, Grant, LinksKept
<1>4. tuples' = tuples => LinksKept
  BY DEF LinksKept
<1>5. ASSUME NEW user \in Users, NEW t \in Tables,
             \/ \E mode \in Modes : CreateTable(c, user, t, mode)
             \/ \E value \in {"declared", "written"} : Attach(c, user, t, value)
             \/ DropTable(c, user, t)
             \/ \E d \in Tables : RenameTable(c, user, t, d)
             \/ \E ops \in Batches : BatchCommit(c, user, ops)
      PROVE  UNCHANGED <<registryVars, tuples>>
  BY <1>5 DEF CreateTable, Attach, DropTable, RenameTable, BatchCommit
<1>6. ASSUME NEW user \in Users, NEW t \in Tables, NEW grantee \in Grantees, NEW rung \in Rungs,
             \/ \E adds \in BOOLEAN : TableAccess(c, user, grantee, rung, t, adds)
             \/ \E adds \in BOOLEAN : NamespaceAccess(c, user, grantee, rung, Home[t], adds)
             \/ WriteAccessTuple(c, user, grantee, rung, t)
             \/ DeleteAccessTuple(c, user, grantee, rung, t)
      PROVE  UNCHANGED registryVars /\ LinksKept
  <2>1. rung # "project"
    BY RungsAssumption
  <2>2. \A object : Grant(grantee, rung, object).relation # "project"
    BY <2>1 DEF Grant
  <2>3. QED
    BY <1>1, <1>6, <2>2 DEF TableAccess, NamespaceAccess, WriteAccessTuple, DeleteAccessTuple, ChangeOnTable
<1>7. CASE TableRequest(c)
  BY <1>4, <1>5, <1>6, <1>7 DEF TableRequest
<1>8. CASE WriteTable(c) \/ CompensateTable(c) \/ CopyTable(c) \/ RemoveSource(c)
  BY <1>4, <1>8 DEF WriteTable, CompensateTable, CopyTable, RemoveSource
<1>9. CASE ResetGrants(c) \/ CompensateGrants(c) \/ RevokeDropped(c) \/ RevokeSource(c)
  BY <1>2, <1>9 DEF ResetGrants, CompensateGrants, RevokeDropped, RevokeSource
<1>10. CASE SeedTable(c) \/ SeedDestination(c) \/ SeedBatch(c)
  BY <1>3, <1>4, <1>10 DEF SeedTable, SeedDestination, SeedBatch
<1>11. QED BY <1>7, <1>8, <1>9, <1>10 DEF TableStep

LEMMA TablesKeep ==
    ASSUME RegistryInv, NEW c \in Workers, TableRequest(c) \/ TableStep(c)
    PROVE  RegistryInv'
<1>1. UNCHANGED registryVars /\ LinksKept
  BY TablesApart
<1>2. Handed(c)
  BY StepsHand, RequestsHand
<1>3. CASE \E r : Start(c, r) /\ (r = Idle \/ OnTable(r))
  BY <1>1, <1>3, RegistryKept
<1>4. CASE request' = request
  <2>1. RegistryTypes' /\ CacheAgrees' /\ NothingOrphaned' /\ RecordsStay
    BY <1>1 DEF RegistryInv, RegistryTypes, CacheAgrees, NothingOrphaned, RecordsStay, registryVars
  <2>2. TenantsApart'
    BY <1>1 DEF RegistryInv, TenantsApart, Registered, LinksKept, Grant, registryVars
  <2>3. RequestsKnown'
    BY <1>4, <2>1, RequestsStay DEF RegistryInv
  <2>4. QED BY <2>1, <2>2, <2>3 DEF RegistryInv
<1>5. QED BY <1>2, <1>3, <1>4 DEF Handed

-----------------------------------------------------------------------------
(* The specification.                                                      *)

LEMMA RegistryStepKeeps ==
    ASSUME RegistryInv, [Next]_vars
    PROVE  RegistryInv'
<1>1. ASSUME NEW c \in Workers, Abort(c) PROVE RegistryInv'
  BY <1>1, RegistryEnds DEF Abort, LinksKept
<1>2. ASSUME NEW c \in Workers, RegistryNext(c) PROVE RegistryInv'
  <2>1. CASE RegistryRequest(c)
    BY <2>1, CreateKeeps, StatusKeeps, BindKeeps, SpaceKeeps DEF RegistryRequest
  <2>2. CASE RegistryStep(c)
    BY <2>2, CreateKeeps, StatusKeeps, BindKeeps, SpaceKeeps DEF RegistryStep
  <2>3. QED BY <1>1, <1>2, <2>1, <2>2 DEF RegistryNext
<1>3. ASSUME NEW c \in Workers, TableNext(c) PROVE RegistryInv'
  BY <1>1, <1>3, TablesKeep DEF TableNext
<1>4. CASE UNCHANGED vars
  <2>1. UNCHANGED <<record, binding, cache, spaces, blind, request, tuples>>
    BY <1>4 DEF vars
  <2>2. RegistryTypes' /\ CacheAgrees' /\ NothingOrphaned' /\ TenantsApart' /\ RecordsStay
    BY <2>1 DEF RegistryInv, RegistryTypes, CacheAgrees, NothingOrphaned, TenantsApart, Registered, RecordsStay
  <2>3. RequestsKnown'
    BY <2>1, <2>2, RequestsStay DEF RegistryInv
  <2>4. QED BY <2>2, <2>3 DEF RegistryInv
<1>5. QED BY <1>2, <1>3, <1>4, RestartKeeps DEF Next

LEMMA RegistrySafe == Spec => []RegistryInv
<1>1. ASSUME Init PROVE RegistryInv
  <2>1. record \in Registries
    BY <1>1 DEF Init, RegistryInit
  <2>2. /\ record \in [Warehouses -> Records \cup {None}]
        /\ \A w \in Registered : record[w] \in Records /\ record[w].bucket \notin Reserved
        /\ \A v, w \in Registered : record[v].bucket = record[w].bucket => record[v].project = record[w].project
    BY <2>1 DEF Registries, Registered
  <2>3. RegistryTypes /\ CacheAgrees /\ NothingOrphaned
    BY <1>1, <2>2 DEF Init, RegistryInit, RegistryTypes, CacheAgrees, NothingOrphaned
  <2>4. \A w \in Warehouses, p \in Projects :
           Grant(p, "project", w) \in tuples => w \in Registered /\ record[w].project = p
    <3>1. ASSUME NEW g \in FirstGrants, g.relation = "project"
          PROVE  \E v \in Registered : g = Grant(record[v].project, "project", v)
      <4>1. g # Grant(Admin, "owner", Root) /\ g \notin SpaceFounders
        BY <3>1 DEF Grant, SpaceFounders
      <4>2. g \in WarehouseFounders
        BY <4>1 DEF FirstGrants
      <4>3. QED BY <3>1, <4>2 DEF WarehouseFounders, Grant
    <3>2. ASSUME NEW w \in Warehouses, NEW p \in Projects, Grant(p, "project", w) \in FirstGrants
          PROVE  w \in Registered /\ record[w].project = p
      <4>1. Grant(p, "project", w).relation = "project"
        BY DEF Grant
      <4>2. PICK v \in Registered : Grant(p, "project", w) = Grant(record[v].project, "project", v)
        BY <3>1, <3>2, <4>1
      <4>3. QED BY <4>2 DEF Grant
    <3>3. QED BY <1>1, <3>2 DEF Init
  <2>5. TenantsApart
    BY <2>2, <2>4 DEF TenantsApart, Registered
  <2>6. RequestsKnown
    BY <1>1 DEF Init, RequestsKnown
  <2>7. QED BY <2>3, <2>5, <2>6 DEF RegistryInv
<1>2. RegistryInv /\ [Next]_vars => RegistryInv'
  BY RegistryStepKeeps
<1>3. QED BY <1>1, <1>2, PTL DEF Spec

\* Tenants stay apart: a bucket has one project, and is not the platform's; a
\* warehouse hangs under the project its record names; for any numbers of tenants,
\* warehouses and replicas, whatever requests overlap and whatever records their
\* listings pass over, but for the warehouses that were written blind.
THEOREM TenantsStayApart == Spec => []TenantsApart
<1>1. RegistryInv => TenantsApart
  BY DEF RegistryInv
<1>2. QED BY <1>1, RegistrySafe, PTL

\* The bucket a replica cached for ever is where the namespace is bound, but for the
\* namespaces that were bound blind.
THEOREM CachesAgree == Spec => []CacheAgrees
<1>1. RegistryInv => CacheAgrees
  BY DEF RegistryInv
<1>2. QED BY <1>1, RegistrySafe, PTL

\* A bound namespace left nothing in the default root, but for those that were bound
\* or made blind.
THEOREM NoneOrphaned == Spec => []NothingOrphaned
<1>1. RegistryInv => NothingOrphaned
  BY DEF RegistryInv
<1>2. QED BY <1>1, RegistrySafe, PTL

\* A quarantine ends by an activation, or by a create that had read the record before
\* it began.
THEOREM QuarantinesHold == Spec => QuarantineHolds
<1> DEFINE Ends(w) == record[w].status = "deactivated" /\ record'[w].status = "active"
           Excused == \E c \in Workers :
                         \/ request[c].kind = "status" /\ request[c].status = "active"
                         \/ /\ Standing(c, "create", "checked")
                            /\ request[c].stood = None \/ request[c].stood.status = "active"
<1>1. ASSUME RegistryInv, [Next]_vars, NEW w \in Registered, Ends(w) PROVE Excused
  <2>1. record' # record
    BY <1>1
  <2>2. PICK c \in Workers : PutRecord(c) \/ PutStatus(c)
    <3>1. \A c \in Workers : ~TableNext(c)
      BY <2>1, TablesApart DEF TableNext, Abort, registryVars
    <3>2. PICK c \in Workers : RegistryRequest(c) \/ RegistryStep(c)
      BY <1>1, <2>1, <3>1 DEF Next, vars, RegistryNext, Abort, Restart, registryVars
    <3>3. ~RegistryRequest(c)
      BY <2>1 DEF RegistryRequest, CreateWarehouse, SetStatus, BindNamespace, Route, registryVars
    <3>4. QED
      BY <2>1, <3>2, <3>3 DEF RegistryStep, ReadExisting, SeedWarehouse, ReadRecord, CheckBinding, MakeBound,
         WriteBinding, GrantBound, MakeRouted, GrantRouted, DropSpace, RevokeSpace, registryVars
  <2>3. PICK r : r = request[c]
    OBVIOUS
  <2>4. w \in Warehouses /\ record \in [Warehouses -> Records \cup {None}]
    BY <1>1 DEF Registered, RegistryInv, RegistryTypes
  <2>5. record' = [record EXCEPT ![r.warehouse] = r.new]
    BY <2>2, <2>3 DEF PutRecord, PutStatus
  <2>6. w = r.warehouse /\ record'[w] = r.new
    BY <1>1, <2>4, <2>5
  <2>7. CASE PutRecord(c)
    <3>1. Passed(r) /\ Standing(c, "create", "checked")
      BY <1>1, <2>3, <2>7, HandKnown
         DEF PutRecord, InHand, RegistryKinds, Listed, Gated, Reread, Asked, Binding, Routing
    <3>2. r.stood = None \/ r.stood.status = "active"
      BY <1>1, <2>6, <3>1 DEF Passed
    <3>3. QED BY <2>3, <3>1, <3>2
  <2>8. CASE PutStatus(c)
    <3>1. r.new.status = r.status /\ r.kind = "status"
      BY <1>1, <2>3, <2>8, HandKnown
         DEF PutStatus, InHand, RegistryKinds, Listed, Prepared, Gated, Asked, Binding, Routing
    <3>2. r.status = "active"
      BY <1>1, <2>6, <3>1
    <3>3. QED BY <2>3, <3>1, <3>2
  <2>9. QED BY <2>2, <2>7, <2>8
<1>2. RegistryInv /\ [Next]_vars => [\A w \in Registered : Ends(w) => Excused]_record
  BY <1>1
<1>3. QED BY <1>2, RegistrySafe, PTL DEF Spec, QuarantineHolds

\* A create that is taken back wrote where no data was, or looked for a table to
\* overwrite and found none, for any number of requests on the table at once.
THEOREM CompensationSpares == Spec => CompensationKeepsData
<1>1. ASSUME RegistryInv, NEW c \in Workers, CompensateTable(c), request[c].was = "written"
      PROVE  request[c].mode = "overwrite" /\ ~request[c].existed
  <2>1. PICK r : r = request[c]
    OBVIOUS
  <2>2. OnTable(r) /\ r.kind = "table" /\ r.at = "drop"
    BY <1>1, <2>1, TableKnown DEF CompensateTable, TableKinds
  <2>3. Making(r)
    BY <2>2 DEF OnTable
  <2>4. CompensationAllowed(r) /\ r.mode # "create"
    BY <1>1, <2>1, <2>2, <2>3 DEF Making
  <2>5. QED BY <2>1, <2>4 DEF CompensationAllowed
<1>2. RegistryInv /\ [Next]_vars =>
         [\A c \in Workers : CompensateTable(c) =>
             LET r == request[c]
             IN  r.was = "written" => r.mode = "overwrite" /\ ~r.existed]_governanceVars
  BY <1>1
<1>3. QED BY <1>2, RegistrySafe, PTL DEF Spec, CompensationKeepsData

=============================================================================
