--------------------------- MODULE MCHttpModules ---------------------------
(***************************************************************************)
(* For TLC: a page that imports a view, and a view that imports the page   *)
(* and a store.                                                            *)
(***************************************************************************)
EXTENDS HttpModules

MCImports == [k \in Keys |->
    (CASE k = "page" -> {"view"}
       [] k = "view" -> {"page", "store"}
       [] OTHER -> {}) \cap Keys]

=============================================================================
