------------------------------- MODULE UserState -------------------------------
(***************************************************************************)
(* A person's saved views: one record in the state store behind the        *)
(* catalog, pages that read it once and then save whole lists, and the     *)
(* copy each browser keeps.  Saves are last write wins; what must not      *)
(* happen is a save over a record that its page could not read.            *)
(***************************************************************************)
EXTENDS Integers

CONSTANTS Pages,         \* browsers of one person, each with one page open
          MaxSaves,      \* bounds the saves
          MaxDeploys,    \* bounds the changes of the schema
          MaxMishaps     \* bounds the answers other than the catalog's own

VARIABLES stored,    \* the record: its list of views and the schema they were saved in
          schema,    \* the schema the catalog and a page loaded now have
          mirrors,   \* what each browser keeps in localStorage
          pages,     \* each page's store of views
          puts,      \* saves on their way to the catalog
          saves, mishaps

userVars == <<stored, schema, mirrors, pages, puts, saves, mishaps>>

NoRecord == [views |-> {}, schema |-> 0]
NoMirror == {0}

\* What a read comes to: "ok" with a list, "absent", or "unreadable".  `from`
\* tells who said so.
Ok(views, from) == [status |-> "ok", views |-> views, from |-> from]
Absent(from)    == [status |-> "absent", views |-> {}, from |-> from]
CannotRead      == [status |-> "unreadable", views |-> {}, from |-> "nobody"]

\* `unseen` is for the property: what the record held and the page was not told.
Fresh == [asked |-> FALSE, ready |-> FALSE, answer |-> CannotRead, unseen |-> {},
          views |-> {}, schema |-> schema]

UserInit ==
    /\ stored = NoRecord
    /\ schema = 1
    /\ mirrors = [p \in Pages |-> NoMirror]
    /\ pages = [p \in Pages |-> Fresh]
    /\ puts = {}
    /\ saves = 0 /\ mishaps = 0

\* The record as the catalog serves it: a record that no longer fits, in its
\* envelope or in its document, is a 409 and not an empty list.
Fits(record) == record.schema = schema
FetchedOrAbsent ==
    IF stored = NoRecord \/ ~Fits(stored) THEN Absent("catalog") ELSE Ok(stored.views, "catalog")
Fetched ==
    CASE stored = NoRecord -> Absent("catalog")
      [] stored # NoRecord /\ Fits(stored) -> Ok(stored.views, "catalog")
      [] OTHER -> CannotRead

Mirrored(p, otherwise) ==
    IF mirrors[p] = NoMirror THEN otherwise ELSE Ok(mirrors[p], "browser")

\* The store is asked once per page: the popover loads while the page is
\* neither ready nor told that the views are unreadable.
Ask(p, answer) ==
    /\ ~pages[p].asked
    /\ pages' = [pages EXCEPT ![p].asked = TRUE, ![p].answer = answer,
                              ![p].unseen = stored.views \ answer.views]
    /\ UNCHANGED <<stored, schema, puts, saves>>

ReadUserState(p) ==
    /\ Ask(p, Fetched)
    /\ mirrors' = IF Fetched.status = "ok" THEN [mirrors EXCEPT ![p] = Fetched.views] ELSE mirrors
    /\ UNCHANGED mishaps

\* _call: whatever goes wrong with the store is a 503; and so for the page is a
\* catalog that does not answer.
Mishap == mishaps < MaxMishaps /\ mishaps' = mishaps + 1

\* The catalog cannot be reached, answers 503 because its store cannot be, or
\* finds the session expired.
ReadFails(p) ==
    /\ Mishap
    /\ \E answer \in {Mirrored(p, CannotRead), CannotRead, Mirrored(p, Absent("browser"))} :
          Ask(p, answer)
    /\ UNCHANGED mirrors

\* `ready` stays false after an unreadable answer, for the life of the page.
Settle(p) ==
    /\ pages[p].asked /\ ~pages[p].ready /\ pages[p].answer.status # "unreadable"
    /\ pages' = [pages EXCEPT ![p].ready = TRUE, ![p].views = pages[p].answer.views]
    /\ UNCHANGED <<stored, schema, mirrors, puts, saves, mishaps>>

\* A view is added or removed, and the whole list sent: several lists of one
\* page may be on their way together.
Save(p, views) ==
    /\ pages[p].ready /\ saves < MaxSaves
    /\ saves' = saves + 1
    /\ pages' = [pages EXCEPT ![p].views = views]
    /\ puts' = puts \union {[by |-> p, views |-> views, schema |-> pages[p].schema,
                             from |-> pages[p].answer.from, unseen |-> pages[p].unseen]}
    /\ UNCHANGED <<stored, schema, mirrors, mishaps>>

\* A list of another schema, or one past the byte ceiling, is refused: the page
\* then says so, and stays ready.
PutLands(put) ==
    /\ put.schema = schema
    /\ stored' = [views |-> put.views, schema |-> schema]
    /\ puts' = puts \ {put}
    /\ \E written \in BOOLEAN :   \* whether the page is still there for the answer
          mirrors' = IF written THEN [mirrors EXCEPT ![put.by] = put.views] ELSE mirrors
    /\ UNCHANGED <<schema, pages, saves, mishaps>>

PutFails(put) ==
    /\ \/ put.schema # schema /\ UNCHANGED mishaps
       \/ Mishap
    /\ puts' = puts \ {put}
    /\ \E expired \in BOOLEAN :   \* with a session expired the copy is the save
          mirrors' = IF expired THEN [mirrors EXCEPT ![put.by] = put.views] ELSE mirrors
    /\ UNCHANGED <<stored, schema, pages, saves>>

\* Deleting it is the way out that a 409 names.
Erase ==
    /\ stored # NoRecord
    /\ stored' = NoRecord
    /\ UNCHANGED <<schema, mirrors, pages, puts, saves, mishaps>>

Reload(p) ==
    /\ pages[p].asked
    /\ pages' = [pages EXCEPT ![p] = Fresh]
    /\ UNCHANGED <<stored, schema, mirrors, puts, saves, mishaps>>

\* A deployment whose schema the record does not fit, and the operator who
\* rewrites the record for it.
Deploy ==
    /\ schema <= MaxDeploys
    /\ schema' = schema + 1
    /\ UNCHANGED <<stored, mirrors, pages, puts, saves, mishaps>>

Recover ==
    /\ stored # NoRecord /\ ~Fits(stored)
    /\ stored' = [stored EXCEPT !.schema = schema]
    /\ UNCHANGED <<schema, mirrors, pages, puts, saves, mishaps>>

UserNext ==
    \/ \E p \in Pages : \/ ReadUserState(p) \/ ReadFails(p) \/ Settle(p) \/ Reload(p)
                        \/ Save(p, pages[p].views \union {saves + 1})
                        \/ \E view \in pages[p].views : Save(p, pages[p].views \ {view})
    \/ \E put \in puts : PutLands(put) \/ PutFails(put)
    \/ Erase \/ Deploy \/ Recover

(***************************************************************************)
(* A save loses no view that was in the record when its page read it and   *)
(* that the page was not shown: neither an outage nor a schema that moved  *)
(* on makes a page save an empty list over the person's work.  Views that  *)
(* were shown, or saved elsewhere since, may go: the last write wins.  A   *)
(* page that loaded its browser's copy instead is left out; it does lose   *)
(* them (user-state.ts, the 401 and the unreachable answer).               *)
(***************************************************************************)
NothingUnseenLost ==
    [][\A put \in puts \ puts' :
          put.from = "catalog" => (stored.views \ stored'.views) \cap put.unseen = {}]_userVars

=============================================================================
