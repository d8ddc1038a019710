--------------------------- MODULE MCPluginLoader ---------------------------
(* PluginLoader with two plugins of one name, one of another and a nameless. *)
EXTENDS PluginLoader

MCLoads == {"bloom1", "bloom2", "cms", "nameless"}
MCNames == {"bloom", "cms"}
MCNameOf == [l \in MCLoads |-> CASE l = "nameless" -> NoName
                                 [] l = "cms" -> "cms"
                                 [] OTHER -> "bloom"]
=============================================================================
