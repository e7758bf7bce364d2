---------------------------- MODULE MCMigrations ----------------------------
(* Model-checking instance of Migrations. *)
EXTENDS Migrations

MCTables == <<"user", "account">>
MCFields == [user |-> <<"email", "handle", "orgId">>, account |-> <<"userId", "providerId">>]
MCUnique == {<<"user", "email">>, <<"user", "handle">>}
MCIndex == {<<"account", "userId">>}
MCReferences == {<<"user", "orgId">>, <<"account", "userId">>}
MCComposite == [user |-> {}, account |-> {"userId", "providerId"}]

\* The version before the plugin that adds handle and orgId, and before the
\* composite constraint on account.
Old == {Table("user"), Column("user", "email"), Object("unique", "user", "email"),
        Table("account"), Column("account", "userId"), Column("account", "providerId")}

\* The column without its constraint: on SQLite a migration of an older library that
\* was cut off behind ADD COLUMN, elsewhere a version in which it was not unique.
Bare == Old \cup {Column("user", "handle")}

MCBefore == [e \in {"postgres", "mysql", "sqlite"} |-> {{}, Old, Bare}]
=============================================================================
