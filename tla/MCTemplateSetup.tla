--------------------------- MODULE MCTemplateSetup ---------------------------
(* TemplateSetup on a small checkout: config/database.yml, which keeps its    *)
(* path, a file whose path has the name and one whose path has the prefix.    *)
(* The name of the choice "shop" is also its prefix, so that two paths of the *)
(* template become one; an ignore rule covers a destination of "mine".        *)
EXTENDS TemplateSetup, TLC

CONSTANTS database, byName, byPrefix, mine, yours, shop

MCFiles == {database, byName, byPrefix}
MCChoices == {mine, yours, shop}
MCPaths == {"database.yml", "starter_app.rb", "starterapp.rb", "my_app.rb", "myapp.rb",
            "your_app.rb", "yourapp.rb", "shop.rb"}
MCPath ==
  (database :> [c \in Names |-> "database.yml"]) @@
  (byName :> ((Template :> "starter_app.rb") @@ (mine :> "my_app.rb")
              @@ (yours :> "your_app.rb") @@ (shop :> "shop.rb"))) @@
  (byPrefix :> ((Template :> "starterapp.rb") @@ (mine :> "myapp.rb")
                @@ (yours :> "yourapp.rb") @@ (shop :> "shop.rb")))
MCSecretsOf == [setup |-> <<"operations", "anycable">>,
                dev   |-> <<"anycable", "operations">>]
TerminalsAlike == Permutations(Terminals)
MCIgnored == {"myapp.rb"}
=============================================================================
