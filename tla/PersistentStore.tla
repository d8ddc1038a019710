--------------------------- MODULE PersistentStore ---------------------------
(***************************************************************************)
(* The engine's store_ (src/core/engine.cpp): a RocksDbStore                *)
(* (src/storage/persistent_store.cpp) over one directory, with the one key *)
(* the engine uses.  RocksDB itself is external: it locks the directory    *)
(* while it is open, any call may fail for a reason of its own, and what   *)
(* it has acknowledged survives the death of the process.                  *)
(***************************************************************************)
CONSTANTS
    Values,      \* what is put under the key "pipeline"
    NoValue

ASSUME NoValueAssumption == NoValue \notin Values

VARIABLES
    store,       \* store_: "none", or a store that is "closed" or "open"
    locked,      \* RocksDB's lock on the directory
    disk         \* the value in the directory

storeVars == <<store, locked, disk>>

StoreInit == store = "none" /\ locked = FALSE /\ disk = NoValue

\* Mutant: the destructor forgets to close.
StoreDropOpen == store' = "none" /\ UNCHANGED <<locked, disk>>

\* store_ = nullptr: the destructor closes.
StoreDrop ==
    /\ store' = "none"
    /\ locked' = (locked /\ store # "open")
    /\ UNCHANGED disk

\* A new store, and open() on it.
StoreOpen ==
    /\ \/ ~locked /\ store' = "open" /\ locked' = TRUE
       \/ store' = "closed" /\ UNCHANGED locked
    /\ UNCHANGED disk

\* put, whose result the engine does not look at.
StorePut(value) ==
    /\ \/ store = "open" /\ disk' = value
       \/ UNCHANGED disk
    /\ UNCHANGED <<store, locked>>

\* What get may return: nothing when it fails, as when there is nothing.
StoreGet == IF store = "open" THEN {disk, NoValue} ELSE {NoValue}

\* The process ends, by whatever means; the operating system drops the lock.
StoreCrash == store' = "none" /\ locked' = FALSE /\ UNCHANGED disk
=============================================================================
