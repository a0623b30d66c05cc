----------------------------- MODULE MCMigrate ------------------------------
(* An instance for TLC: two releases and one with an edited file.          *)
EXTENDS Migrate

MCFiles == {"a", "edited", "index", "rewrite", "contract"}
Old == <<"a", "index">>
New == <<"a", "index", "rewrite", "contract">>
Edited == <<"edited", "index">>
MCReleases == {Old, New, Edited}
MCDatabases == {<<"a">>, <<"a", "index", "rewrite">>, New}
=============================================================================
