--------------------------- MODULE TableMaintenance ---------------------------
(***************************************************************************)
(* Maintenance of one table: the policies its owners set, the sweep that   *)
(* compacts and cleans on a timer, and the same work on request.           *)
(*                                                                         *)
(* A sweep loads the policies once and then works through the tables,      *)
(* while owners change policies, move tags and write.  A record it could   *)
(* not read counts as not set; a registry it could not list ends the tick. *)
(***************************************************************************)
EXTENDS LanceTable

CONSTANTS
    Rules,         \* bound: the policies owners set
    Unset

ASSUME RulesAssumption ==
    /\ Rules \subseteq [enabled : BOOLEAN, retain : Nat, aged : BOOLEAN, paced : BOOLEAN]
    /\ Unset \notin Rules

VARIABLES
    policy,     \* the record set at each level: the table, its namespace, its project
    sweep,      \* the sweep of this process
    stamp,      \* when a paced policy last had its way: "none", "fresh", "due" or unreadable
    tool        \* the step of the operator's command, or "idle"

maintenanceVars == <<policy, sweep, stamp, tool>>

Levels == 1..3
Resting == [at |-> "rest"]

MaintenanceInit ==
    /\ policy = [l \in Levels |-> Unset]
    /\ sweep = Resting
    /\ stamp = "none"
    /\ tool = "idle"

-----------------------------------------------------------------------------
(* The policy routes.                                                      *)

Set(records) == {l \in Levels : records[l] # Unset}

\* The rule that governs the table under some records: none over a narrower one.
Governing(records) ==
    IF Set(records) = {} THEN {Unset}
    ELSE {records[l] : l \in {k \in Set(records) : \A j \in Levels : j < k => records[j] = Unset}}

SetPolicy(l, rule) ==
    /\ policy[l] # rule
    /\ policy' = [policy EXCEPT ![l] = rule]
    /\ sweep' = IF sweep = Resting THEN Resting
                ELSE [sweep EXCEPT !.inforce = @ \cup Governing(policy')]
    /\ UNCHANGED <<tableVars, stamp, tool>>

SetTablePolicy(rule) == SetPolicy(1, rule)
SetNamespacePolicy(rule) == SetPolicy(2, rule)
SetProjectPolicy(rule) == SetPolicy(3, rule)
DeleteTablePolicy == SetPolicy(1, Unset)
DeleteNamespacePolicy == SetPolicy(2, Unset)
DeleteProjectPolicy == SetPolicy(3, Unset)

\* MUTANT of Resolved: the widest record is taken first.
ResolvedWidest(records) ==
    IF Set(records) = {} THEN Unset
    ELSE records[CHOOSE l \in Set(records) : \A k \in Set(records) : k <= l]

\* resolve_policy: the table's own record, else its namespace's, else its project's.
Resolved(records) ==
    IF Set(records) = {} THEN Unset
    ELSE records[CHOOSE l \in Set(records) : \A k \in Set(records) : l <= k]

-----------------------------------------------------------------------------
(* run_sweep and compact_one                                               *)

\* list_policies leaves out the records it cannot read; a tick while a sweep is
\* under way is skipped.  `inforce` is history: the rules that held for the table
\* at some moment since, any of them if a record was not read.
LoadPolicies ==
    /\ sweep = Resting
    /\ \E unread \in SUBSET Set(policy) :
          sweep' = [at |-> "loaded",
                    records |-> [l \in Levels |-> IF l \in unread THEN Unset ELSE policy[l]],
                    inforce |-> IF unread = {} THEN Governing(policy) ELSE Rules \cup {Unset}]
    /\ UNCHANGED <<tableVars, policy, stamp, tool>>

\* Opted out, or maintained not long ago.
Skipped(rule) ==
    rule # Unset /\ (~rule.enabled \/ (rule.paced /\ stamp = "fresh"))

\* The pass begins; opening the table may fail, which nobody hears of.
Visit ==
    /\ sweep.at = "loaded"
    /\ LET rule == Resolved(sweep.records)
       IN  \/ Skipped(rule) /\ sweep' = Resting
           \/ ~Skipped(rule) /\ sweep' = [sweep EXCEPT !.at = "opened"]
           \/ ~Skipped(rule) /\ sweep' = Resting
    /\ UNCHANGED <<tableVars, policy, stamp, tool>>

\* A pass that fails after opening is not stamped; what it committed stays.
FailPass ==
    /\ sweep.at \in {"opened", "indices", "clean"}
    /\ sweep' = Resting
    /\ UNCHANGED <<tableVars, policy, stamp, tool>>

Maintained == "version"

\* Small fragments are merged into a version of their own, if there are any.
CompactFiles ==
    /\ sweep.at = "opened"
    /\ Commit(Maintained) \/ UNCHANGED tableVars
    /\ sweep' = [sweep EXCEPT !.at = "indices"]
    /\ UNCHANGED <<policy, stamp, tool>>

\* Folding them into the indices may fail without failing the pass.
OptimizeIndices ==
    /\ sweep.at = "indices"
    /\ Commit(Maintained) \/ UNCHANGED tableVars
    /\ sweep' = [sweep EXCEPT !.at = "clean"]
    /\ UNCHANGED <<policy, stamp, tool>>

\* What an age bound spares: whatever was committed after some moment.
Younger == {{v \in live : v > k} : k \in 0..Latest}

\* The versions a rule spares.  A count alone replaces the default age bound;
\* with both, a version must clear both to go.
Spared(rule) ==
    IF rule = Unset \/ rule.retain = 0 THEN Younger
    ELSE IF rule.aged THEN {young \cup LastLive(rule.retain) : young \in Younger}
    ELSE {LastLive(rule.retain)}

\* A paced policy is stamped, unless that fails.
CleanUp ==
    /\ sweep.at = "clean"
    /\ LET rule == Resolved(sweep.records)
       IN  /\ \E spared \in Spared(rule) : live' = Cleaned(spared)
           /\ stamp' \in IF rule # Unset /\ rule.paced THEN {"fresh", stamp} ELSE {stamp}
    /\ sweep' = Resting
    /\ UNCHANGED <<log, tags, policy, tool>>

\* The interval of a paced policy has passed, or its stamp was lost.
Elapse ==
    /\ stamp = "fresh"
    /\ stamp' \in {"due", "none"}
    /\ UNCHANGED <<tableVars, policy, sweep, tool>>

-----------------------------------------------------------------------------
(* /v1/table/{id}/maintenance/...                                          *)

\* run_gc: the owner's own bounds, whatever the policy says.
RunGC(retain) ==
    /\ live' = Cleaned(LastLive(retain))
    /\ UNCHANGED <<log, tags, maintenanceVars>>

CompactNow ==
    /\ Commit(Maintained)
    /\ UNCHANGED maintenanceVars

-----------------------------------------------------------------------------
(* The tag routes, and the writes of others.                               *)

CreateTag(t, v) ==
    /\ tags[t] = 0 /\ v \in live
    /\ tags' = [tags EXCEPT ![t] = v]
    /\ UNCHANGED <<log, live, maintenanceVars>>

UpdateTag(t, v) ==
    /\ tags[t] \notin {0, v} /\ v \in live
    /\ tags' = [tags EXCEPT ![t] = v]
    /\ UNCHANGED <<log, live, maintenanceVars>>

DeleteTag(t) ==
    /\ tags[t] # 0
    /\ tags' = [tags EXCEPT ![t] = 0]
    /\ UNCHANGED <<log, live, maintenanceVars>>

Write ==
    /\ Commit(Maintained)
    /\ UNCHANGED maintenanceVars

-----------------------------------------------------------------------------
(* ratch compact, maintain and tag, run beside the services on the table.  *)

CommitOrNot == Commit(Maintained) \/ UNCHANGED tableVars

\* The indices that compaction invalidates are rebuilt after it, if at all.
CmdCompact ==
    /\ tool = "idle"
    /\ CommitOrNot
    /\ tool' \in {"idle", "vectors"}
    /\ UNCHANGED <<policy, sweep, stamp>>

\* One column after the other; one that is empty in part keeps its old index.
EnsureVectorIndex ==
    /\ tool = "vectors"
    /\ CommitOrNot
    /\ tool' \in {"vectors", "scalars"}
    /\ UNCHANGED <<policy, sweep, stamp>>

\* One that fails is passed over.
RecreateScalarIndex ==
    /\ tool = "scalars"
    /\ CommitOrNot
    /\ tool' \in {"scalars", "idle"}
    /\ UNCHANGED <<policy, sweep, stamp>>

DieCompacting ==
    /\ tool # "idle" /\ tool' = "idle"
    /\ UNCHANGED <<tableVars, policy, sweep, stamp>>

\* Whatever is older than the operator's bound, whatever the policy says.
CmdMaintain ==
    /\ \E spared \in Younger : live' = Cleaned(spared)
    /\ UNCHANGED <<log, tags, maintenanceVars>>

\* Without a version it is the one the command opened, which others may have
\* passed by.
CmdTag(t) == DeleteTag(t) \/ \E v \in live : CreateTag(t, v)

MaintenanceNext ==
    \/ \E rule \in Rules :
          SetTablePolicy(rule) \/ SetNamespacePolicy(rule) \/ SetProjectPolicy(rule)
    \/ DeleteTablePolicy \/ DeleteNamespacePolicy \/ DeleteProjectPolicy
    \/ LoadPolicies \/ Visit \/ FailPass \/ CompactFiles \/ OptimizeIndices \/ CleanUp \/ Elapse
    \/ \E retain \in {r.retain : r \in Rules} : RunGC(retain)
    \/ CompactNow \/ Write
    \/ CmdCompact \/ EnsureVectorIndex \/ RecreateScalarIndex \/ DieCompacting \/ CmdMaintain
    \/ \E t \in Tags : CmdTag(t) \/ DeleteTag(t) \/ \E v \in 1..Latest : CreateTag(t, v) \/ UpdateTag(t, v)

-----------------------------------------------------------------------------
\* What a sweep does to a table, some time after it listed the policies, a rule
\* allows that held for the table since: one that opted in, or none; not one that
\* was satisfied already; and never at the cost of versions the rule retains.  Only
\* a record that could not be read may be passed over.
SweepObeysPolicy ==
    [][sweep' # sweep /\ <<log, live>>' # <<log, live>> =>
          \E rule \in sweep.inforce :
             rule # Unset =>
                /\ rule.enabled
                /\ rule.paced => stamp # "fresh"
                /\ LastLive(rule.retain) \subseteq live']_<<sweep, log, live>>

=============================================================================
