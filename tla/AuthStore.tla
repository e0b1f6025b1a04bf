------------------------------ MODULE AuthStore ------------------------------
(***************************************************************************)
(* The relationship store every service asks before it acts.               *)
(*                                                                         *)
(* A grant is a tuple: a subject holds a relation on an object.  A right   *)
(* on an object follows from a tuple on the object itself or on anything   *)
(* it hangs under: project, warehouse, namespace, table.  The store is a   *)
(* service of its own, so every write to it may fail, and a failed write   *)
(* may have landed.                                                        *)
(***************************************************************************)
EXTENDS Naturals, Sequences

VARIABLE tuples  \* the stored grants: [user, relation, object]

Grant(user, relation, object) == [user |-> user, relation |-> relation, object |-> object]

Links == {"parent", "project"}

\* What an object hangs under, one level up.
Above(object, store) == {g.user : g \in {h \in store : h.object = object /\ h.relation \in Links}}

\* The object and everything above it; the hierarchy has four levels.
Scope(object, store) ==
    LET once == Above(object, store)
        twice == UNION {Above(o, store) : o \in once}
        thrice == UNION {Above(o, store) : o \in twice}
    IN  {object} \cup once \cup twice \cup thrice

\* The relations that imply a rung; the validator's rung is not the writer's.
Implying(rung) ==
    CASE rung = "owner"     -> {"owner", "admin"}
      [] rung = "writer"    -> {"owner", "admin", "writer"}
      [] rung = "reader"    -> {"owner", "admin", "writer", "reader", "member"}
      [] rung = "validator" -> {"owner", "admin", "validator"}

\* check: a rung on an object is held on it or on anything above it.
HoldsIn(store, user, rung, object) ==
    \E o \in Scope(object, store), relation \in Implying(rung) :
        Grant(user, relation, o) \in store
Holds(user, rung, object) == HoldsIn(tuples, user, rung, object)

\* What a call may leave behind: the store, and whether it reported success.
Outcome(ok, store) == [ok |-> ok, store |-> store]

\* write_tuples: one atomic batch.  A batch with a duplicate is rejected and
\* written again tuple by tuple, which may stop half way; a lost answer may
\* hide a batch that landed.
WriteOutcomes(batch) ==
    LET asked == {batch[i] : i \in DOMAIN batch}
        upTo(n) == tuples \cup {batch[i] : i \in 1..n}
        failures == IF asked \cap tuples = {} THEN {tuples, tuples \cup asked}
                    ELSE {upTo(n) : n \in 0..Len(batch)}
    IN  {Outcome(TRUE, tuples \cup asked)} \cup {Outcome(FALSE, store) : store \in failures}

\* delete_tuples over what read_object_tuples returned: one by one, and any
\* part of it may be done when it fails.
RevokeOutcomes(object) ==
    LET held == {g \in tuples : g.object = object}
    IN  {Outcome(TRUE, tuples \ held)}
            \cup {Outcome(FALSE, tuples \ gone) : gone \in SUBSET held}

\* delete_tuples of one grant, which may be absent already.
DeleteOutcomes(grant) ==
    {Outcome(TRUE, tuples \ {grant}), Outcome(FALSE, tuples), Outcome(FALSE, tuples \ {grant})}

=============================================================================
