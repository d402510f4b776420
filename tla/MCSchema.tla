------------------------------ MODULE MCSchema ------------------------------
(* Instances of the constants of Schema for TLC. *)
EXTENDS Schema, TLC

CONSTANTS s1, s2, m

BaseTables == <<"experiments", "pipeline_jobs">>
AuthTables == <<"users", "auth_sessions">>

Old(tables, version) == [sized |-> TRUE, tables |-> tables, columns |-> {}, version |-> version]

\* No database yet.
NoDatabase == {None}

\* Nothing; an empty file; built by a service of 0.4 or 0.7, or by Alembic then.
Databases ==
    {None, NewFile,
     Old({"schema_migrations"} \cup Range(BaseTables), "none"),
     Old(Tables, "none"),
     Old(Range(BaseTables), "040"),
     Old(Range(BaseTables) \cup Range(AuthTables), "050")}
=============================================================================
