--------------------------- MODULE SchemaHistory ---------------------------
(***************************************************************************)
(* What operators may rely on when several of them run cmd/migrate against *)
(* one database (internal/database/migrator.go, README of the repository), *)
(* with no processes, lock or failing statement inside: migrations happen  *)
(* one at a time, each leads from a clean version to a neighbour, changes  *)
(* only objects of its own version and in its own direction, and leaves    *)
(* the database clean only when the schema is that of the version.  One    *)
(* that is cut short leaves the dirty flag, and then nothing but a force   *)
(* gets the database out of there.  In prod nothing else changes a schema. *)
(***************************************************************************)
EXTENDS Naturals

CONSTANTS
  Latest,   \* the newest version any build knows
  Parts     \* what a migration creates

VARIABLES
  env,      \* APP_ENV
  schema,   \* the objects in the database, <<version, part>>
  version,  \* schema_migrations.version, 0 for none
  dirty,    \* schema_migrations.dirty
  body,     \* the direction of the migration under way, or "none"
  trusted   \* no force lied, nothing went past the versions

vars == <<env, schema, version, dirty, body, trusted>>

SchemaOf(v) == (1..v) \X Parts

TypeOK ==
  /\ env \in {"dev", "prod"}
  /\ schema \subseteq (1..Latest) \X Parts
  /\ version \in 0..Latest + 1
  /\ dirty \in BOOLEAN /\ trusted \in BOOLEAN
  /\ body \in {"none", "up", "down"}

Init ==
  /\ env \in {"dev", "prod"}
  /\ schema = {} /\ version = 0 /\ dirty = FALSE
  /\ body = "none" /\ trusted = TRUE

\* A migration starts on a clean database and marks where it leads to.
Begin ==
  /\ body = "none" /\ ~dirty
  /\ \/ body' = "up" /\ version < Latest /\ version' = version + 1
     \/ body' = "down" /\ version \in 1..Latest /\ version' = version - 1
  /\ dirty' = TRUE
  /\ UNCHANGED <<env, schema, trusted>>

\* The objects of the migration under way.
Own == {IF body = "up" THEN version ELSE version + 1} \X Parts

\* Some of its statements.
Statements ==
  /\ body # "none"
  /\ IF body = "up" THEN schema \subseteq schema' /\ schema' \subseteq schema \cup Own
                    ELSE schema \ Own \subseteq schema' /\ schema' \subseteq schema
  /\ UNCHANGED <<env, version, dirty, body, trusted>>

Complete ==
  /\ body # "none"
  /\ trusted => schema = SchemaOf(version)
  /\ dirty' = FALSE /\ body' = "none"
  /\ UNCHANGED <<env, schema, version, trusted>>

\* A statement fails, or the process dies.
Abandon ==
  /\ body # "none"
  /\ body' = "none"
  /\ UNCHANGED <<env, schema, version, dirty, trusted>>

\* An operator says which version it is.
Force ==
  /\ body = "none"
  /\ version' \in 0..Latest + 1
  /\ dirty' = FALSE
  /\ trusted' = (trusted /\ schema = SchemaOf(version'))
  /\ UNCHANGED <<env, schema, body>>

\* A service that boots out of prod adds what it misses.
Drift ==
  /\ env # "prod"
  /\ schema \subseteq schema'
  /\ trusted' = FALSE
  /\ UNCHANGED <<env, version, dirty, body>>

Next == Begin \/ Statements \/ Complete \/ Abandon \/ Force \/ Drift

Spec == Init /\ [][Next]_vars

=============================================================================
