----------------------------- MODULE TableGrants -----------------------------
(***************************************************************************)
(* Tables and the grants on them.                                          *)
(*                                                                         *)
(* A table lives in the namespace backend, its grants in the relationship  *)
(* store, and no transaction spans the two: every request changes one and  *)
(* then the other, and may fail in between.  A create whose grant failed   *)
(* takes itself back; a drop and a rename revoke what the freed name left. *)
(***************************************************************************)
EXTENDS WarehouseRegistry

CONSTANTS
    Tables,
    Home,          \* the namespace each table is in
    Rungs,         \* bound: the rungs people grant by hand
    Grantees       \* bound: and whom they grant them

ASSUME HomeAssumption == Home \in [Tables -> Namespaces]
ASSUME RungsAssumption == Rungs \subseteq {"owner", "writer", "reader", "validator"}
ASSUME GranteesAssumption == Grantees \subseteq Users

\* An object of the store carries its type in its name.
ASSUME ObjectsAssumption == Tables \cap (Namespaces \cup {Root}) = {}

VARIABLES
    table,    \* what the backend knows of each table
    earned,   \* history: the grants the table's present incarnation gave
    residue   \* history: names freed, or granted on while free, that nobody has cleared since

tableVars == <<table, earned, residue>>
governanceVars == <<record, binding, cache, spaces, request, blind, tuples, table, earned, residue>>

\* A declared table has a location and no data; a dangling one lost its data to
\* a rename that could not take the name away.
States == {"absent", "declared", "written", "dangling"}

OwnerOf(user, t) == Grant(user, "owner", t)
CreateGrants(user, t) == <<OwnerOf(user, t), Grant(Home[t], "parent", t)>>
GrantsOn(t) == {g \in tuples : g.object = t /\ g.relation \notin Links}

TableInit ==
    /\ table = [t \in Tables |-> "absent"]
    /\ earned = [t \in Tables |-> {}]
    /\ residue = {}

Become(t, value) == table' = [table EXCEPT ![t] = value]
Earn(t, grants) == earned' = [earned EXCEPT ![t] = grants]

-----------------------------------------------------------------------------
(* What a route asks of its caller before its handler runs.                *)

CreateSuffixes == {"create", "declare", "register"}
OwnerSuffixes == {"drop", "deregister", "rename", "access/grant", "access/revoke"}

\* What creates a table asks for a right on what it will hang under.
ParentCheck(user, t) == Holds(user, "writer", Home[t])

Rung(suffix) == IF suffix \in OwnerSuffixes THEN "owner" ELSE "writer"

Authorized(user, suffix, t) ==
    IF suffix \in CreateSuffixes THEN ParentCheck(user, t) ELSE Holds(user, Rung(suffix), t)

\* Replacing a table is dropping it, whatever route does it; and a table is moved
\* only to where it could be created.
MayReplace(user, t) == Holds(user, "owner", t)
MayPlaceAt(user, d) == ParentCheck(user, d)

-----------------------------------------------------------------------------
(* POST /v1/table/{id}/create, /declare and /register                      *)

Modes == {"create", "exist_ok", "overwrite"}

\* What the endpoint asks before it writes; only two of the modes look.
CreateTable(c, user, t, mode) ==
    LET existed == mode # "create" /\ table[t] # "absent"
    IN  /\ Free(c)
        /\ Authorized(user, "create", t)
        /\ (existed /\ mode = "overwrite") => MayReplace(user, t)
        /\ Start(c, [kind |-> "table", at |-> "probed", user |-> user, table |-> t,
                     mode |-> mode, existed |-> existed, was |-> table[t]])
        /\ UNCHANGED <<registryVars, tuples, tableVars>>

\* _create_table_direct: data is written into a declared or a new location, and a
\* write that fails takes the location back, also one that somebody else declared
\* and was granted on.  Taking it back may fail as well.
WriteTable(c) ==
    LET r == request[c]
        t == r.table
        readable == table[t] = "written"
        replaces == readable /\ r.mode = "overwrite"
        claims == (IF replaces THEN {} ELSE earned[t]) \cup {OwnerOf(r.user, t)}
        wrote(at) == Start(c, [r EXCEPT !.at = at, !.was = table[t]])
        fresh == table[t] = "absent"
    IN  /\ Standing(c, "table", "probed")
        /\ \/ /\ ~readable \/ replaces
              /\ Become(t, "written") /\ Earn(t, claims)
              /\ wrote(IF r.existed /\ r.mode = "overwrite" THEN "reset" ELSE "seed")
              /\ residue' = IF replaces THEN residue \cup {t} ELSE residue
           \/ /\ readable /\ r.mode = "exist_ok"
              /\ wrote("seed") /\ UNCHANGED tableVars
           \/ Finish(c) /\ UNCHANGED tableVars
           \/ /\ fresh
              /\ Become(t, "declared") /\ Finish(c) /\ UNCHANGED <<earned, residue>>
           \/ /\ ~readable /\ ~fresh
              /\ Become(t, "absent") /\ Earn(t, {}) /\ Finish(c)
              /\ residue' = residue \cup {t}
        /\ UNCHANGED <<registryVars, tuples>>

\* declare_table and register_table; both fail on a name in use.
Attach(c, user, t, value) ==
    /\ Free(c)
    /\ Authorized(user, "declare", t)
    /\ table[t] = "absent"
    /\ Become(t, value) /\ Earn(t, {OwnerOf(user, t)})
    /\ Start(c, [kind |-> "table", at |-> "seed", user |-> user, table |-> t,
                 mode |-> "attach", existed |-> FALSE, was |-> "absent"])
    /\ UNCHANGED <<registryVars, tuples, residue>>

\* revoke_ownership: what it could not revoke stays on the name.
Revoke(t) ==
    \E o \in RevokeOutcomes(t) :
        /\ tuples' = o.store
        /\ residue' = IF o.ok THEN residue \ {t} ELSE residue \cup {t}

\* An overwrite resets the access of the table it replaced.
ResetGrants(c) ==
    /\ Standing(c, "table", "reset")
    /\ Revoke(request[c].table)
    /\ IF request[c].table \in residue' THEN Finish(c) ELSE Move(c, "seed")
    /\ UNCHANGED <<registryVars, table, earned>>

\* MUTANT of CompensationAllowed: an overwrite is taken back as well.
CompensationAllowedForOverwrite(r) == r.mode \in {"create", "overwrite"}

\* Only what this request made from nothing may be taken back.
CompensationAllowed(r) == r.mode = "create" \/ (r.mode = "overwrite" /\ ~r.existed)

\* A create that kept the table of another owner seeds nobody.
KeptExisting(r) == r.existed /\ r.mode = "exist_ok"

SeedTable(c) ==
    LET r == request[c]
    IN  /\ Standing(c, "table", "seed")
        /\ IF KeptExisting(r) THEN Finish(c) /\ UNCHANGED tuples
           ELSE \E o \in WriteOutcomes(CreateGrants(r.user, r.table)) :
                  /\ tuples' = o.store
                  /\ IF ~o.ok /\ CompensationAllowed(r) THEN Move(c, "revoke") ELSE Finish(c)
        /\ UNCHANGED <<registryVars, tableVars>>

\* The compensation: revoke first, and drop only if that worked.
CompensateGrants(c) ==
    /\ Standing(c, "table", "revoke")
    /\ Revoke(request[c].table)
    /\ IF request[c].table \in residue' THEN Finish(c) ELSE Move(c, "drop")
    /\ UNCHANGED <<registryVars, table, earned>>

CompensateTable(c) ==
    /\ Standing(c, "table", "drop")
    /\ Become(request[c].table, "absent") /\ Earn(request[c].table, {})
    /\ Finish(c)
    /\ UNCHANGED <<registryVars, tuples, residue>>

-----------------------------------------------------------------------------
(* POST /v1/table/{id}/drop and /deregister                                *)

DropTable(c, user, t) ==
    /\ Free(c)
    /\ Authorized(user, "drop", t)
    /\ table[t] # "absent"
    /\ Become(t, "absent") /\ Earn(t, {})
    /\ residue' = residue \cup {t}
    /\ Start(c, [kind |-> "drop", at |-> "dropped", user |-> user, table |-> t])
    /\ UNCHANGED <<registryVars, tuples>>

\* MUTANT of RevokeDropped: only the caller's own grant is revoked.
RevokeCallerOnly(c) ==
    /\ Standing(c, "drop", "dropped")
    /\ tuples' = tuples \ {OwnerOf(request[c].user, request[c].table)}
    /\ residue' = residue \ {request[c].table}
    /\ Finish(c)
    /\ UNCHANGED <<registryVars, table, earned>>

RevokeDropped(c) ==
    /\ Standing(c, "drop", "dropped")
    /\ Revoke(request[c].table)
    /\ Finish(c)
    /\ UNCHANGED <<registryVars, table, earned>>

-----------------------------------------------------------------------------
(* POST /v1/table/{id}/rename: declare, copy, delete, deregister, then the *)
(* grants.                                                                 *)

RenameTable(c, user, t, d) ==
    /\ Free(c)
    /\ t # d
    /\ Authorized(user, "rename", t) /\ MayPlaceAt(user, d)
    /\ table[t] = "written" /\ table[d] = "absent"
    /\ Become(d, "declared") /\ Earn(d, {OwnerOf(user, d)})
    /\ Start(c, [kind |-> "rename", at |-> "declared", user |-> user, table |-> t, dest |-> d])
    /\ UNCHANGED <<registryVars, tuples, residue>>

\* A failed copy takes the destination back, which may fail too.
CopyTable(c) ==
    LET r == request[c]
    IN  /\ Standing(c, "rename", "declared")
        /\ \/ Become(r.dest, table[r.table]) /\ Move(c, "copied") /\ UNCHANGED earned
           \/ Become(r.dest, "absent") /\ Earn(r.dest, {}) /\ Finish(c)
           \/ Finish(c) /\ UNCHANGED <<table, earned>>
        /\ UNCHANGED <<registryVars, tuples, residue>>

\* The source's bytes and then its name go; either may fail, and is only logged.
RemoveSource(c) ==
    LET t == request[c].table
    IN  /\ Standing(c, "rename", "copied")
        /\ \E left \in {"absent", "dangling", table[t]} :
              Become(t, left) /\ Earn(t, IF left = "absent" THEN {} ELSE earned[t])
        /\ residue' = residue \cup {t}
        /\ Move(c, "moved")
        /\ UNCHANGED <<registryVars, tuples>>

RevokeSource(c) ==
    /\ Standing(c, "rename", "moved")
    /\ Revoke(request[c].table)
    /\ IF request[c].table \in residue' THEN Finish(c) ELSE Move(c, "revoked")
    /\ UNCHANGED <<registryVars, table, earned>>

SeedDestination(c) ==
    /\ Standing(c, "rename", "revoked")
    /\ \E o \in WriteOutcomes(CreateGrants(request[c].user, request[c].dest)) : tuples' = o.store
    /\ Finish(c)
    /\ UNCHANGED <<registryVars, tableVars>>

-----------------------------------------------------------------------------
(* Grants edited by hand: /v1/table/{id}/access, /v1/namespace/{id}/access *)
(* and the administrator's /v1/access/tuples, which name any object.       *)

Change(grant, adds) ==
    \E o \in IF adds THEN WriteOutcomes(<<grant>>) ELSE DeleteOutcomes(grant) : tuples' = o.store

\* Nobody asks whether the table is there: a grant on a free name waits for the
\* next table to take it.
ChangeOnTable(grant, adds) ==
    LET t == grant.object
    IN  /\ Change(grant, adds)
        /\ earned' = [earned EXCEPT ![t] = IF adds THEN @ \cup {grant} ELSE @]
        /\ residue' = IF adds /\ table[t] = "absent" THEN residue \cup {t} ELSE residue
        /\ UNCHANGED <<registryVars, request, table>>

TableAccess(c, user, grantee, rung, t, adds) ==
    /\ Free(c) /\ Authorized(user, "access/grant", t)
    /\ ChangeOnTable(Grant(grantee, rung, t), adds)

NamespaceAccess(c, user, grantee, rung, n, adds) ==
    /\ Free(c) /\ Holds(user, "owner", n)
    /\ Change(Grant(grantee, rung, n), adds)
    /\ UNCHANGED <<registryVars, request, tableVars>>

EstateGate(user) == Holds(user, "owner", Root)

WriteAccessTuple(c, user, grantee, rung, t) ==
    /\ Free(c) /\ EstateGate(user)
    /\ ChangeOnTable(Grant(grantee, rung, t), TRUE)

DeleteAccessTuple(c, user, grantee, rung, t) ==
    /\ Free(c) /\ EstateGate(user)
    /\ ChangeOnTable(Grant(grantee, rung, t), FALSE)

-----------------------------------------------------------------------------
(* POST /v1/table/batch-commit: one commit over several tables.            *)

Batches == UNION {[some -> {"declare", "deregister", "version"}] : some \in SUBSET Tables}

\* MUTANT of BatchAuthorized: every operation on a table is a write to it.
BatchAuthorizedAsWrites(user, ops) ==
    \A t \in DOMAIN ops : Authorized(user, ops[t], t) \/ Authorized(user, "version", t)

\* Each operation asks for what its own route asks for; one denied denies all.
BatchAuthorized(user, ops) == \A t \in DOMAIN ops : Authorized(user, ops[t], t)

\* The backend applies all of it or nothing.  No one revokes what was granted on
\* a name that a batch frees.
BatchCommit(c, user, ops) ==
    LET of(kind) == {t \in DOMAIN ops : ops[t] = kind}
    IN  /\ Free(c)
        /\ DOMAIN ops # {} /\ BatchAuthorized(user, ops)
        /\ \A t \in DOMAIN ops : t \in of("declare") <=> table[t] = "absent"
        /\ table' = [t \in Tables |-> CASE t \in of("declare")    -> "declared"
                                        [] t \in of("deregister") -> "absent"
                                        [] OTHER                 -> table[t]]
        /\ earned' = [t \in Tables |-> CASE t \in of("declare")    -> {OwnerOf(user, t)}
                                         [] t \in of("deregister") -> {}
                                         [] OTHER                 -> earned[t]]
        /\ residue' = residue \cup of("deregister")
        /\ Start(c, [kind |-> "batch", at |-> "committed", user |-> user, left |-> of("declare")])
        /\ UNCHANGED <<registryVars, tuples>>

\* The declared tables are given to the caller one by one, and one that fails
\* ends the request: nothing takes the rest back.
SeedBatch(c) ==
    LET r == request[c]
    IN  /\ Standing(c, "batch", "committed")
        /\ \/ r.left = {} /\ Finish(c) /\ UNCHANGED tuples
           \/ \E t \in r.left : \E o \in WriteOutcomes(CreateGrants(r.user, t)) :
                 /\ tuples' = o.store
                 /\ IF o.ok THEN request' = [request EXCEPT ![c].left = @ \ {t}] ELSE Finish(c)
        /\ UNCHANGED <<registryVars, tableVars>>

-----------------------------------------------------------------------------
TableRequest(c) ==
    \E user \in Users, t \in Tables :
        \/ \E mode \in Modes : CreateTable(c, user, t, mode)
        \/ \E value \in {"declared", "written"} : Attach(c, user, t, value)
        \/ DropTable(c, user, t)
        \/ \E d \in Tables : RenameTable(c, user, t, d)
        \/ \E grantee \in Grantees, rung \in Rungs :
              \/ \E adds \in BOOLEAN : TableAccess(c, user, grantee, rung, t, adds)
              \/ \E adds \in BOOLEAN : NamespaceAccess(c, user, grantee, rung, Home[t], adds)
              \/ WriteAccessTuple(c, user, grantee, rung, t)
              \/ DeleteAccessTuple(c, user, grantee, rung, t)
        \/ \E ops \in Batches : BatchCommit(c, user, ops)

TableStep(c) ==
    \/ WriteTable(c) \/ ResetGrants(c) \/ SeedTable(c)
    \/ CompensateGrants(c) \/ CompensateTable(c)
    \/ RevokeDropped(c)
    \/ CopyTable(c) \/ RemoveSource(c) \/ RevokeSource(c) \/ SeedDestination(c)
    \/ SeedBatch(c)

TableNext(c) == TableRequest(c) \/ TableStep(c) \/ (Abort(c) /\ UNCHANGED tableVars)

-----------------------------------------------------------------------------
\* A name that is used again never inherits a grant: whoever holds a rung on a
\* table got it from this incarnation of it.  What the code does not clear stays in
\* `residue` until a later request clears the name: a name whose dropper, renamer or
\* overwriter failed or died before it had revoked, a name freed by a batch or by
\* the rollback of a failed write, and a name somebody granted on while it was free.
NoStaleGrant ==
    \A t \in Tables \ residue : table[t] # "absent" => GrantsOn(t) \subseteq earned[t]

\* Data is taken from a name, or replaced on it, by somebody who held it: whatever
\* route or batch does it, the caller owned the table or had made it itself.
TakenByItsOwner ==
    [][\A t \in Tables :
          table[t] = "written" /\ (table'[t] # "written" \/ ~(earned[t] \subseteq earned'[t])) =>
              \E user \in Users :
                  /\ HoldsIn(tuples, user, "owner", t) \/ OwnerOf(user, t) \in earned[t]
                  /\ \E c \in Workers :
                        \/ request[c] # Idle /\ request[c].user = user
                        \/ request'[c] # Idle /\ request'[c].user = user]_governanceVars

\* Taking back a create whose grant failed never destroys data that was there when
\* the request wrote, except that of a table made since an overwrite looked for one.
CompensationKeepsData ==
    [][\A c \in Workers : CompensateTable(c) =>
          LET r == request[c]
          IN  r.was = "written" => r.mode = "overwrite" /\ ~r.existed]_governanceVars

=============================================================================
