-------------------------- MODULE PluginLoaderProofs --------------------------
(***************************************************************************)
(* Theorems about PluginLoader, for any numbers of plugins, names and      *)
(* clients.                                                                *)
(***************************************************************************)
EXTENDS PluginLoader, TLAPS

\* A load_plugin that has not made its object yet: nobody can know of it.
BeginInv ==
    \A l \in Loads :
        /\ call[l] \in {"idle", "create"} => object[l] = "none" /\ ~Referenced(l) /\ l \notin deleting
        /\ call[l] = "create" => l \in opened
        /\ call[l] = "idle" => l \notin opened
        /\ call[l] \in {"insert", "return"} => NameOf[l] \in Names

\* What its deleter has in hand nobody else has, and its library is open.
DyingInv ==
    \A l \in deleting : ~Referenced(l) /\ l \in opened /\ object[l] # "none"

IInv ==
    /\ TypeOK
    /\ ReferencedIsUsable
    /\ CodeOutlivesObject
    /\ OpenIsOwned
    /\ BeginInv
    /\ DyingInv

LEMMA Initially == Init => IInv
  BY NamesAssumption, NoLoadAssumption
  DEF Init, IInv, TypeOK, ReferencedIsUsable, CodeOutlivesObject, OpenIsOwned,
      BeginInv, DyingInv, Referenced, Local, Listed

LEMMA LoadStep ==
    ASSUME IInv, NEW l \in Loads, Load(l)
    PROVE  IInv'
<1>0. USE NamesAssumption, NoLoadAssumption DEF IInv, TypeOK, Goto, Listed
<1>1. CASE LoadOpen(l)
  BY <1>1 DEF LoadOpen, ReferencedIsUsable, CodeOutlivesObject, OpenIsOwned, BeginInv, DyingInv,
              Referenced, Local
<1>2. CASE LoadCreate(l)
  BY <1>2 DEF LoadCreate, ReferencedIsUsable, CodeOutlivesObject, OpenIsOwned, BeginInv, DyingInv,
              Referenced, Local
<1>3. CASE LoadValidate(l)
  BY <1>3 DEF LoadValidate, Valid, Dropped, ReferencedIsUsable, CodeOutlivesObject, OpenIsOwned, BeginInv,
              DyingInv, Referenced, Local
<1>4. CASE LoadInsert(l)
  BY <1>4 DEF LoadInsert, ReferencedIsUsable, CodeOutlivesObject, OpenIsOwned, BeginInv, DyingInv,
              Referenced, Local, MutexFree
<1>5. CASE LoadReturn(l)
  BY <1>5 DEF LoadReturn, Dropped, ReferencedIsUsable, CodeOutlivesObject, OpenIsOwned, BeginInv,
              DyingInv, Referenced, Local
<1>6. QED
  BY <1>1, <1>2, <1>3, <1>4, <1>5 DEF Load

LEMMA DeleterStep ==
    ASSUME IInv, NEW l \in Loads, Deleter(l)
    PROVE  IInv'
  BY NamesAssumption, NoLoadAssumption
  DEF IInv, TypeOK, Listed, Deleter, Shutdown, Delete, Close, ReferencedIsUsable,
      CodeOutlivesObject, OpenIsOwned, BeginInv, DyingInv, Referenced, Local

LEMMA EraseStep ==
    ASSUME IInv, NEW n \in Names, UnloadPlugin(n) \/ UnloadNext(n)
    PROVE  IInv'
<1>1. PICK l \in Loads :
        /\ plugins[n] = l
        /\ plugins' = [plugins EXCEPT ![n] = NoLoad]
        /\ UNCHANGED <<call, opened, object, held>>
        /\ Dropped(l)
        /\ erased' = IF l \in deleting' THEN l ELSE NoLoad
  BY DEF UnloadPlugin, UnloadNext, Erase
<1>2. TypeOK'
  BY <1>1, NoLoadAssumption DEF IInv, TypeOK, Listed, UnloadPlugin, UnloadNext, MutexFree, Dropped
<1>3. Referenced(l) /\ \A k \in Loads : Referenced(k)' => Referenced(k)
  BY <1>1, NoLoadAssumption DEF IInv, TypeOK, Referenced, Local
<1>4. \A k \in Loads \ {l} : Referenced(k)' <=> Referenced(k)
  BY <1>1, NoLoadAssumption DEF IInv, TypeOK, Referenced, Local
<1>5. ReferencedIsUsable' /\ CodeOutlivesObject'
  BY <1>1, <1>3 DEF IInv, ReferencedIsUsable, CodeOutlivesObject
<1>6. deleting \subseteq deleting' /\ (l \in deleting' \/ Referenced(l)')
  BY <1>1 DEF Dropped
<1>7. OpenIsOwned'
  BY <1>1, <1>4, <1>6 DEF IInv, TypeOK, OpenIsOwned
<1>8. BeginInv' /\ DyingInv'
  BY <1>1, <1>3, <1>4 DEF IInv, TypeOK, BeginInv, DyingInv, ReferencedIsUsable, Dropped
<1>9. QED
  BY <1>2, <1>5, <1>8, <1>7 DEF IInv

LEMMA ClientStep ==
    ASSUME IInv, NEW c \in Clients,
           GetPlugins(c) \/ (\E n \in Names : GetPlugin(c, n)) \/ (\E l \in Loads : Release(c, l))
    PROVE  IInv'
<1>0. USE NoLoadAssumption DEF IInv, TypeOK, Listed
<1>1. CASE GetPlugins(c)
  <2>1. \A k \in Loads : Referenced(k)' => Referenced(k)
    BY <1>1 DEF GetPlugins, Referenced, Local
  <2>2. \A k \in Loads : Referenced(k) => Referenced(k)'
    BY <1>1 DEF GetPlugins, Referenced, Local
  <2>3. TypeOK'
    BY <1>1 DEF GetPlugins
  <2>4. QED
    BY <1>1, <2>1, <2>2, <2>3
    DEF GetPlugins, ReferencedIsUsable, CodeOutlivesObject, OpenIsOwned, BeginInv, DyingInv
<1>2. ASSUME NEW n \in Names, GetPlugin(c, n)
      PROVE  IInv'
  <2>1. \A k \in Loads : Referenced(k)' <=> Referenced(k)
    BY <1>2 DEF GetPlugin, Referenced, Local
  <2>2. TypeOK'
    BY <1>2 DEF GetPlugin
  <2>3. QED
    BY <1>2, <2>1, <2>2
    DEF GetPlugin, ReferencedIsUsable, CodeOutlivesObject, OpenIsOwned, BeginInv, DyingInv
<1>3. ASSUME NEW l \in Loads, Release(c, l)
      PROVE  IInv'
  <2>1. Referenced(l) /\ \A k \in Loads : Referenced(k)' => Referenced(k)
    BY <1>3 DEF Release, Referenced, Local
  <2>2. \A k \in Loads \ {l} : Referenced(k) => Referenced(k)'
    BY <1>3 DEF Release, Referenced, Local
  <2>3. TypeOK'
    BY <1>3 DEF Release, Dropped
  <2>4. QED
    BY <1>3, <2>1, <2>2, <2>3
    DEF Release, Dropped, ReferencedIsUsable, CodeOutlivesObject, OpenIsOwned, BeginInv, DyingInv
<1>4. QED
  BY <1>1, <1>2, <1>3

LEMMA Preserved == IInv /\ [Next]_vars => IInv'
<1> SUFFICES ASSUME IInv, [Next]_vars
             PROVE  IInv'
  OBVIOUS
<1>1. ASSUME NEW l \in Loads, Load(l) \/ Deleter(l)
      PROVE  IInv'
  BY <1>1, LoadStep, DeleterStep
<1>2. ASSUME NEW n \in Names, UnloadPlugin(n) \/ UnloadNext(n)
      PROVE  IInv'
  BY <1>2, EraseStep
<1>3. CASE UnloadAll \/ UNCHANGED vars
  BY <1>3
  DEF IInv, TypeOK, UnloadAll, vars, Listed, ReferencedIsUsable, CodeOutlivesObject,
      OpenIsOwned, BeginInv, DyingInv, Referenced, Local
<1>4. ASSUME NEW c \in Clients,
             GetPlugins(c) \/ (\E n \in Names : GetPlugin(c, n)) \/ (\E l \in Loads : Release(c, l))
      PROVE  IInv'
  BY <1>4, ClientStep
<1>5. QED
  BY <1>1, <1>2, <1>3, <1>4 DEF Next

LEMMA Invariant == Spec => []IInv
  BY Initially, Preserved, PTL DEF Spec

\* Every reachable state has the types TypeOK gives.
THEOREM TypeCorrect == Spec => []TypeOK
<1>1. IInv => TypeOK
  BY DEF IInv
<1>2. QED
  BY Invariant, <1>1, PTL

\* get_plugin's callers may call what they got: it is live and its library is
\* mapped, whatever unload_plugin and unload_all did meanwhile.
THEOREM ReferencedIsUsableHolds == Spec => []ReferencedIsUsable
<1>1. IInv => ReferencedIsUsable
  BY DEF IInv
<1>2. QED
  BY Invariant, <1>1, PTL

\* The deleter closes a library after the object it made was deleted.
THEOREM CodeOutlivesObjectHolds == Spec => []CodeOutlivesObject
<1>1. IInv => CodeOutlivesObject
  BY DEF IInv
<1>2. QED
  BY Invariant, <1>1, PTL

\* No error path of load_plugin and no order of releases leaks a library handle.
THEOREM OpenIsOwnedHolds == Spec => []OpenIsOwned
<1>1. IInv => OpenIsOwned
  BY DEF IInv
<1>2. QED
  BY Invariant, <1>1, PTL

\* The deleter of an object runs once: no pointer to it comes back.
THEOREM DeletedForGoodHolds == Spec => DeletedForGood
<1>1. ASSUME IInv, [Next]_vars, NEW l \in Loads, object[l] \in {"shut", "deleted"} \/ l \in deleting
      PROVE  l \in deleting' \/ object'[l] # "live"
  <2>1. ASSUME NEW k \in Loads, Load(k) \/ Deleter(k)
        PROVE  l \in deleting' \/ object'[l] # "live"
    BY <1>1, <2>1
    DEF IInv, TypeOK, BeginInv, Load, Deleter, LoadOpen, LoadCreate, LoadValidate, Valid, LoadInsert,
        LoadReturn, Dropped, Shutdown, Delete, Close
  <2>2. ASSUME NEW n \in Names, UnloadPlugin(n) \/ UnloadNext(n)
        PROVE  l \in deleting' \/ object'[l] # "live"
    BY <1>1, <2>2 DEF UnloadPlugin, UnloadNext, Erase, Dropped
  <2>3. CASE UnloadAll \/ UNCHANGED vars
    BY <1>1, <2>3 DEF UnloadAll, vars
  <2>4. ASSUME NEW c \in Clients,
               GetPlugins(c) \/ (\E n \in Names : GetPlugin(c, n)) \/ (\E k \in Loads : Release(c, k))
        PROVE  l \in deleting' \/ object'[l] # "live"
    BY <1>1, <2>4 DEF GetPlugins, GetPlugin, Release, Dropped
  <2>5. QED
    BY <1>1, <2>1, <2>2, <2>3, <2>4 DEF Next
<1>2. IInv /\ IInv' /\ [Next]_vars =>
        [\A l \in Loads : object[l] \in {"shut", "deleted"} \/ l \in deleting => ~Referenced(l)']_vars
  BY <1>1 DEF IInv, DyingInv, ReferencedIsUsable
<1>3. QED
  BY Invariant, <1>2, PTL DEF Spec, DeletedForGood

\* plugins_.emplace keeps the plugin that is listed under a name.
THEOREM FirstStaysHolds == Spec => FirstStays
<1>1. ASSUME IInv, [Next]_vars, NEW n \in Names, {NoLoad} \cap {plugins[n], plugins'[n]} = {}
      PROVE  plugins'[n] = plugins[n]
  <2>1. ASSUME NEW l \in Loads, Load(l) \/ Deleter(l)
        PROVE  plugins'[n] = plugins[n]
    BY <1>1, <2>1
    DEF IInv, TypeOK, Load, Deleter, LoadOpen, LoadCreate, LoadValidate, Valid, LoadInsert, LoadReturn,
        Shutdown, Delete, Close
  <2>2. ASSUME NEW m \in Names, UnloadPlugin(m) \/ UnloadNext(m)
        PROVE  plugins'[n] = plugins[n]
    BY <1>1, <2>2 DEF IInv, TypeOK, UnloadPlugin, UnloadNext, Erase
  <2>3. CASE UnloadAll \/ UNCHANGED vars
    BY <2>3 DEF UnloadAll, vars
  <2>4. ASSUME NEW c \in Clients,
               GetPlugins(c) \/ (\E m \in Names : GetPlugin(c, m)) \/ (\E l \in Loads : Release(c, l))
        PROVE  plugins'[n] = plugins[n]
    BY <2>4 DEF GetPlugins, GetPlugin, Release
  <2>5. QED
    BY <1>1, <2>1, <2>2, <2>3, <2>4 DEF Next
<1>2. IInv /\ [Next]_vars => [\A n \in Names : {NoLoad} \cap {plugins[n], plugins'[n]} = {}
                                                => plugins'[n] = plugins[n]]_vars
  BY <1>1
<1>3. QED
  BY Invariant, <1>2, PTL DEF Spec, FirstStays
===============================================================================
