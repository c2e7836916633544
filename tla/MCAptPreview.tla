----------------------------- MODULE MCAptPreview -----------------------------
(* Constants for model-checking AptPreview.                                 *)
EXTENDS AptPreview, TLC

CONSTANTS app, lib, a1, a2

TwoPackages == {app, lib}
Archives == {a1, a2}
Dependency == (app :> {lib}) @@ (lib :> {})

\* Nothing installed, the dependency alone, or both.
SomeHosts ==
    {(app :> 0) @@ (lib :> 0), (app :> 0) @@ (lib :> 1), (app :> 1) @@ (lib :> 1)}

\* Both packages in one version; the application gone and the library in two;
\* the application rebuilt, and ambiguous.
SomeSources ==
    {(app :> <<{a1}, {}>>) @@ (lib :> <<{a1}, {}>>),
     (app :> <<{}, {}>>) @@ (lib :> <<{a1}, {a2}>>),
     (app :> <<{a2}, {a1, a2}>>) @@ (lib :> <<{a1}, {a2}>>)}

\* The application alone, both without removals, and both.
SomePolicies ==
    {[packages |-> {app}, allow_remove |-> TRUE],
     [packages |-> {app, lib}, allow_remove |-> FALSE],
     [packages |-> {app, lib}, allow_remove |-> TRUE]}

SomeRequests ==
    {[action |-> "install", name |-> app, version |-> 1],
     [action |-> "install", name |-> app, version |-> 2],
     [action |-> "remove", name |-> lib, version |-> 0]}
=============================================================================
