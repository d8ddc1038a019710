---------------------------- MODULE PluginLoader ----------------------------
(***************************************************************************)
(* speculor::PluginLoader (src/plugin/plugin_loader.cpp).  A plugin is an  *)
(* object made by a shared library and owned by shared pointers: a local   *)
(* one of load_plugin, the entry in plugins_, and those that callers got.  *)
(* Whoever drops the last of them runs the deleter, which shuts the plugin *)
(* down, deletes it and closes the library.                                *)
(*                                                                         *)
(* dlopen counts: each call of load_plugin has a handle of its own, even   *)
(* on the same file.  The model names handle and object after that call.   *)
(* A plugin does not call the loader back from shutdown(), which may run   *)
(* under mutex_; the detectors a plugin creates are not modelled.          *)
(***************************************************************************)
EXTENDS Naturals

CONSTANTS
    Loads,       \* the calls of load_plugin
    Names,       \* the names under which plugins are listed
    NameOf,      \* name() of the object each call creates
    NoName,      \* for those with an empty name or version
    Clients,     \* who calls get_plugin and get_plugins
    NoLoad

ASSUME NamesAssumption == NameOf \in [Loads -> Names \cup {NoName}] /\ NoName \notin Names
ASSUME NoLoadAssumption == NoLoad \notin Loads

VARIABLES
    call,        \* each call of load_plugin: its next step
    opened,      \* the handles that were opened and not closed
    object,      \* each plugin object: "none", "live", "shut" or "deleted"
    plugins,     \* plugins_
    held,        \* the pointers of each client
    deleting,    \* the objects whose deleter runs
    unloading,   \* the entries unload_all has still to erase; it holds mutex_
    erased       \* the object whose deleter runs under mutex_, or NoLoad

vars == <<call, opened, object, plugins, held, deleting, unloading, erased>>

Init ==
    /\ call = [l \in Loads |-> "idle"]
    /\ opened = {}
    /\ object = [l \in Loads |-> "none"]
    /\ plugins = [n \in Names |-> NoLoad]
    /\ held = [c \in Clients |-> {}]
    /\ deleting = {}
    /\ unloading = {}
    /\ erased = NoLoad

MutexFree == unloading = {} /\ erased = NoLoad

\* plugin_ptr, the local pointer of load_plugin, is in its scope.
Local(l) == call[l] \in {"validate", "insert", "return"}

Referenced(l) ==
    \/ Local(l)
    \/ \E n \in Names : plugins[n] = l
    \/ \E c \in Clients : l \in held[c]

\* A pointer to l has just been dropped: the deleter runs if it was the last.
Dropped(l) == deleting' = IF Referenced(l)' THEN deleting ELSE deleting \cup {l}

-----------------------------------------------------------------------------
(* load_plugin *)

Goto(l, step) == call' = [call EXCEPT ![l] = step]

\* dlopen; without success the call returns false.
LoadOpen(l) ==
    /\ call[l] = "idle"
    /\ \/ Goto(l, "create") /\ opened' = opened \cup {l}
       \/ Goto(l, "done") /\ UNCHANGED opened
    /\ UNCHANGED <<object, plugins, held, deleting, unloading, erased>>

\* Mutant: the handle is kept when the factory returns null.
LoadCreateLeaking(l) ==
    /\ call[l] = "create"
    /\ \/ Goto(l, "validate") /\ object' = [object EXCEPT ![l] = "live"]
       \/ Goto(l, "done") /\ UNCHANGED object
    /\ UNCHANGED <<opened, plugins, held, deleting, unloading, erased>>

\* Find create_plugin and call it; without a plugin the library is closed again.
LoadCreate(l) ==
    /\ call[l] = "create"
    /\ \/ Goto(l, "validate") /\ object' = [object EXCEPT ![l] = "live"] /\ UNCHANGED opened
       \/ Goto(l, "done") /\ opened' = opened \ {l} /\ UNCHANGED object
    /\ UNCHANGED <<plugins, held, deleting, unloading, erased>>

\* validate_plugin
Valid(l) == NameOf[l] # NoName

\* A plugin without a name or a version goes with its only pointer.
LoadValidate(l) ==
    /\ call[l] = "validate"
    /\ Goto(l, IF Valid(l) THEN "insert" ELSE "done")
    /\ UNCHANGED <<opened, object, plugins, held, unloading, erased>>
    /\ Dropped(l)

\* emplace: no effect when the name is taken.  The mutex is released before the
\* local pointer is.
LoadInsert(l) ==
    /\ call[l] = "insert"
    /\ MutexFree
    /\ plugins' = [plugins EXCEPT ![NameOf[l]] = IF @ = NoLoad THEN l ELSE @]
    /\ Goto(l, "return")
    /\ UNCHANGED <<opened, object, held, deleting, unloading, erased>>

\* The call returns true, whether or not its plugin is listed by now.
LoadReturn(l) ==
    /\ call[l] = "return"
    /\ Goto(l, "done")
    /\ UNCHANGED <<opened, object, plugins, held, unloading, erased>>
    /\ Dropped(l)

-----------------------------------------------------------------------------
(* The deleter *)

\* Mutant: the plugin's shutdown calls the loader, which takes the mutex.
ShutdownCallingBack(l) ==
    /\ MutexFree
    /\ l \in deleting /\ object[l] = "live"
    /\ object' = [object EXCEPT ![l] = "shut"]
    /\ UNCHANGED <<call, opened, plugins, held, deleting, unloading, erased>>

Shutdown(l) ==
    /\ l \in deleting /\ object[l] = "live"
    /\ object' = [object EXCEPT ![l] = "shut"]
    /\ UNCHANGED <<call, opened, plugins, held, deleting, unloading, erased>>

Delete(l) ==
    /\ l \in deleting /\ object[l] = "shut"
    /\ object' = [object EXCEPT ![l] = "deleted"]
    /\ UNCHANGED <<call, opened, plugins, held, deleting, unloading, erased>>

\* Mutant: the mutex stays locked.
CloseLocked(l) ==
    /\ l \in deleting /\ object[l] = "deleted"
    /\ opened' = opened \ {l}
    /\ deleting' = deleting \ {l}
    /\ UNCHANGED <<call, object, plugins, held, unloading, erased>>

\* Mutant: the library is closed first.
CloseEarly(l) ==
    /\ l \in deleting /\ object[l] = "shut"
    /\ opened' = opened \ {l}
    /\ deleting' = deleting \ {l}
    /\ erased' = IF erased = l THEN NoLoad ELSE erased
    /\ UNCHANGED <<call, object, plugins, held, unloading>>

Close(l) ==
    /\ l \in deleting /\ object[l] = "deleted"
    /\ opened' = opened \ {l}
    /\ deleting' = deleting \ {l}
    /\ erased' = IF erased = l THEN NoLoad ELSE erased
    /\ UNCHANGED <<call, object, plugins, held, unloading>>

-----------------------------------------------------------------------------
(* unload_plugin, unload_all: entries are erased under the mutex, and so is *)
(* what they were the last to point to.                                    *)

\* Mutant: the plugin is deleted whoever still uses it.
EraseOwned(n) ==
    /\ plugins[n] # NoLoad
    /\ plugins' = [plugins EXCEPT ![n] = NoLoad]
    /\ UNCHANGED <<call, opened, object, held>>
    /\ deleting' = deleting \cup {plugins[n]}
    /\ erased' = plugins[n]

Erase(n) == \E l \in Loads :
    /\ plugins[n] = l
    /\ plugins' = [plugins EXCEPT ![n] = NoLoad]
    /\ UNCHANGED <<call, opened, object, held>>
    /\ Dropped(l)
    /\ erased' = IF l \in deleting' THEN l ELSE NoLoad

UnloadPlugin(n) ==
    /\ MutexFree
    /\ Erase(n)
    /\ UNCHANGED unloading

Listed == {n \in Names : plugins[n] # NoLoad}

\* Also the destructor.
UnloadAll ==
    /\ MutexFree
    /\ unloading' = Listed
    /\ UNCHANGED <<call, opened, object, plugins, held, deleting, erased>>

UnloadNext(n) ==
    /\ n \in unloading
    /\ erased = NoLoad
    /\ Erase(n)
    /\ unloading' = unloading \ {n}

-----------------------------------------------------------------------------
(* The clients *)

GetPlugin(c, n) ==
    /\ MutexFree
    /\ n \in Listed
    /\ held' = [held EXCEPT ![c] = @ \cup {plugins[n]}]
    /\ UNCHANGED <<call, opened, object, plugins, deleting, unloading, erased>>

GetPlugins(c) ==
    /\ MutexFree
    /\ held' = [held EXCEPT ![c] = @ \cup {plugins[n] : n \in Listed}]
    /\ UNCHANGED <<call, opened, object, plugins, deleting, unloading, erased>>

\* The client's last copy goes.
Release(c, l) ==
    /\ l \in held[c]
    /\ held' = [held EXCEPT ![c] = @ \ {l}]
    /\ UNCHANGED <<call, opened, object, plugins, unloading, erased>>
    /\ Dropped(l)

-----------------------------------------------------------------------------
Load(l) ==
    \/ LoadOpen(l)
    \/ LoadCreate(l)
    \/ LoadValidate(l)
    \/ LoadInsert(l)
    \/ LoadReturn(l)

Deleter(l) == Shutdown(l) \/ Delete(l) \/ Close(l)

Next ==
    \/ \E l \in Loads : Load(l) \/ Deleter(l)
    \/ \E n \in Names : UnloadPlugin(n) \/ UnloadNext(n)
    \/ UnloadAll
    \/ \E c \in Clients : GetPlugins(c)
    \/ \E c \in Clients, n \in Names : GetPlugin(c, n)
    \/ \E c \in Clients, l \in Loads : Release(c, l)

Spec == Init /\ [][Next]_vars

\* A call of the loader goes on once it has begun, and deleters do.  Nobody is
\* made to call, or to release what it holds.
Fairness ==
    /\ \A l \in Loads : WF_vars(Deleter(l))
    /\ \A n \in Names : WF_vars(UnloadNext(n))

FairSpec == Spec /\ Fairness

-----------------------------------------------------------------------------
(* Properties *)

TypeOK ==
    /\ call \in [Loads -> {"idle", "create", "validate", "insert", "return", "done"}]
    /\ opened \subseteq Loads
    /\ object \in [Loads -> {"none", "live", "shut", "deleted"}]
    /\ plugins \in [Names -> Loads \cup {NoLoad}]
    /\ held \in [Clients -> SUBSET Loads]
    /\ deleting \subseteq Loads
    /\ unloading \subseteq Listed
    /\ erased \in Loads \cup {NoLoad}

\* A plugin that somebody can call is live and its code is mapped, whatever was
\* unloaded, by whom and in which order, since it was handed out.
ReferencedIsUsable == \A l \in Loads : Referenced(l) => object[l] = "live" /\ l \in opened

\* The deleter's order: no code of a library runs after it was closed, and an
\* object is deleted with its library still mapped.
CodeOutlivesObject == \A l \in Loads : object[l] \in {"live", "shut"} => l \in opened

\* No handle leaks, on no error path: an open one is with a load_plugin that has
\* not created its object yet, with a pointer, or with a deleter.
OpenIsOwned ==
    \A l \in opened : call[l] = "create" \/ Referenced(l) \/ l \in deleting

\* An object is deleted by one thread and once: no pointer to it comes back.
DeletedForGood ==
    [][\A l \in Loads : object[l] \in {"shut", "deleted"} \/ l \in deleting => ~Referenced(l)']_vars

\* The plugin listed under a name stays until it is unloaded: loading another one
\* of that name does not replace it (plugins_.emplace).
FirstStays ==
    [][\A n \in Names : {NoLoad} \cap {plugins[n], plugins'[n]} = {} => plugins'[n] = plugins[n]]_vars

\* A library that nobody uses any more is closed.
UnusedIsClosed ==
    \A l \in Loads : l \in deleting ~> l \notin opened

\* unload_plugin and unload_all return and release the mutex.
UnloadReturns == ~MutexFree ~> MutexFree
=============================================================================
