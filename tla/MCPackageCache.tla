---------------------------- MODULE MCPackageCache ----------------------------
(***************************************************************************)
(* Small instances of PackageCache for TLC.                                *)
(***************************************************************************)
EXTENDS PackageCache, TLC

Names == {"server", "client", "lib", "wrap", "libc"}

RootNames == <<"server", "client", "wrap">>

\* client and lib need each other.
Needs ==
  [n \in Names |-> CASE n = "server" -> <<"libc", "client">>
                     [] n = "client" -> <<"lib", "libc">>
                     [] n = "lib"    -> <<"client">>
                     [] OTHER        -> <<>>]

Indexes == {{"server", "client", "libc"}, {"lib"}, {"wrap"}}

\* Installers differ in nothing but their name.
Installers == Permutations(Installer)
================================================================================
