---------------------------- MODULE Registry_proofs ----------------------------
(***************************************************************************)
(* The registry keeps its hierarchy consistent and its bindings exclusive, *)
(* whatever is created, imported, bound, remapped and unbound.             *)
(***************************************************************************)
EXTENDS Registry, SequenceTheorems, TLAPS

(* BindingExclusive is not inductive alone: the service looks for an       *)
(* asset's active bindings among those of the asset's site, so it relies   *)
(* on every binding carrying the location of its asset, which in turn      *)
(* relies on records never moving.                                         *)
Inv == TypeOK /\ HierarchyConsistent /\ BindingsLocated /\ BindingExclusive

\* What an entry of each kind holds.
LEMMA EntryFields ==
    ASSUME NEW entry \in Entry
    PROVE  /\ entry.kind \in {"tenant", "branch", "site", "asset", "device"}
           /\ entry.kind = "tenant" => entry.id \in Tenant
           /\ entry.kind = "branch" => entry.id \in Branch /\ entry.tenant \in Tenant
           /\ entry.kind = "site" => entry.id \in Site /\ entry.owner \in SiteOwner
           /\ entry.kind = "asset" => entry.id \in Asset /\ entry.location \in Location
           /\ entry.kind = "device" => entry.id \in Device /\ entry.location \in Location
  BY DEF Entry

\* A place that Located accepts is a site with the owner the place names.
LEMMA LocatedSite ==
    ASSUME TypeOK, NEW l \in Location, Located(l)
    PROVE  /\ sites[l.site] = [tenant |-> l.tenant, branch |-> l.branch]
           /\ l.site \in Site
  <1>1. l.site \in Site /\ sites[l.site] \in SiteOwner
    BY DEF TypeOK, Located, Location
  <1> QED
    BY <1>1 DEF Located, SiteOwner

\* Init establishes the invariant.
LEMMA InitInv == Init => Inv
  BY RegistryAssumption
     DEF Init, Inv, TypeOK, HierarchyConsistent, BindingsLocated, BindingExclusive,
         Bound, ActiveBinding, Time

\* Creating a record, alone or in an import, keeps the records well-typed.
LEMMA CreateTypes ==
    ASSUME TypeOK, NEW entry \in Entry, Create(entry)
    PROVE  /\ tenants' \subseteq Tenant
           /\ branches' \in [Branch -> Tenant \cup {None}]
           /\ sites' \in [Site -> SiteOwner \cup {None}]
           /\ assets' \in [Asset -> Location \cup {None}]
           /\ devices' \in [Device -> Location \cup {None}]
           /\ UNCHANGED <<bindings, clock, callerTimed>>
  <1> USE EntryFields DEF TypeOK, Create, places, equipment
  <1>1. CASE CreateTenant(entry)
    BY <1>1 DEF CreateTenant
  <1>2. CASE CreateBranch(entry)
    BY <1>2 DEF CreateBranch
  <1>3. CASE CreateSite(entry)
    BY <1>3 DEF CreateSite
  <1>4. CASE CreateAsset(entry)
    BY <1>4 DEF CreateAsset
  <1>5. CASE CreateDevice(entry)
    BY <1>5 DEF CreateDevice
  <1> QED
    BY <1>1, <1>2, <1>3, <1>4, <1>5

\* Creating a record changes no record there is, and places a new one under
\* ancestors that agree.
LEMMA CreateHierarchy ==
    ASSUME TypeOK, HierarchyConsistent, NEW entry \in Entry, Create(entry)
    PROVE  HierarchyConsistent'
  <1> USE EntryFields, RegistryAssumption
      DEF TypeOK, HierarchyConsistent, Create, places, equipment
  <1>1. CASE CreateTenant(entry)
    BY <1>1 DEF CreateTenant
  <1>2. CASE CreateBranch(entry)
    BY <1>2 DEF CreateBranch, Accepted, SiteOwner
  <1>3. CASE CreateSite(entry)
    BY <1>3 DEF CreateSite, Accepted, SiteOwner, Location
  <1>4. CASE CreateAsset(entry)
    BY <1>4, LocatedSite DEF CreateAsset, Accepted
  <1>5. CASE CreateDevice(entry)
    BY <1>5, LocatedSite DEF CreateDevice, Accepted
  <1> QED
    BY <1>1, <1>2, <1>3, <1>4, <1>5

\* Records a binding refers to are there and stay what they are.
LEMMA CreateBindings ==
    ASSUME TypeOK, BindingsLocated, NEW entry \in Entry, Create(entry)
    PROVE  BindingsLocated'
  <1>1. bindings' = bindings
    BY DEF Create
  <1>2. \A d \in Device : devices[d] # None => devices'[d] = devices[d]
    BY EntryFields DEF TypeOK, Create, Accepted, CreateTenant, CreateBranch,
       CreateSite, CreateAsset, CreateDevice, places, equipment
  <1>3. \A a \in Asset : assets[a] # None => assets'[a] = assets[a]
    BY EntryFields DEF TypeOK, Create, Accepted, CreateTenant, CreateBranch,
       CreateSite, CreateAsset, CreateDevice, places, equipment
  <1>4. \A b \in Binding : Bound(b) => bindings[b] \in BindingRow
    BY DEF TypeOK, Bound
  <1>5. \A l \in Location : l # None
    BY RegistryAssumption
  <1> QED
    BY <1>1, <1>2, <1>3, <1>4, <1>5 DEF BindingsLocated, Bound, BindingRow

\* A step that creates a record keeps the invariant.
LEMMA CreateInv ==
    ASSUME Inv, NEW entry \in Entry, Create(entry), importing' \in Seq(Entry)
    PROVE  Inv'
  <1>1. TypeOK'
    BY CreateTypes DEF Inv, TypeOK
  <1>2. HierarchyConsistent'
    BY CreateHierarchy DEF Inv
  <1>3. BindingsLocated'
    BY CreateBindings DEF Inv
  <1>4. BindingExclusive'
    BY DEF Inv, Create, BindingExclusive, ActiveBinding, Bound
  <1> QED
    BY <1>1, <1>2, <1>3, <1>4 DEF Inv

\* The row a successful binding adds is well-typed and located.
LEMMA NewBindingRow ==
    ASSUME TypeOK, NEW d \in Device, NEW a \in Asset, NEW time \in Time,
           NEW ending \in SUBSET Binding, Bindable(d, a, ending)
    PROVE  /\ NewBinding(d, a, time) \in BindingRow
           /\ NewBinding(d, a, time) # None
           /\ NewBinding(d, a, time).device = d
           /\ NewBinding(d, a, time).asset = a
           /\ NewBinding(d, a, time).location = devices[d]
           /\ devices[d] = assets[a]
  BY RegistryAssumption DEF TypeOK, Bindable, NewBinding, BindingRow, Time

\* The row of a binding that ends.
LEMMA EndedRow ==
    ASSUME TypeOK, NEW c \in Binding, ActiveBinding(c), NEW time \in Time
    PROVE  /\ Ended(c, time) \in BindingRow
           /\ Ended(c, time) # None
           /\ Ended(c, time).status = "inactive"
           /\ Ended(c, time).device = bindings[c].device
           /\ Ended(c, time).asset = bindings[c].asset
           /\ Ended(c, time).location = bindings[c].location
  <1>1. bindings[c] \in BindingRow
    BY DEF TypeOK, ActiveBinding, Bound
  <1> QED
    BY <1>1, RegistryAssumption DEF Ended, BindingRow, Time

\* Binding keeps the invariant.  The new binding excludes every active one:
\* one of the same asset would be of the asset's site and so have been found.
LEMMA BindInv ==
    ASSUME Inv, NEW d \in Device, NEW a \in Asset, NEW time \in Time,
           NEW given \in BOOLEAN, BindDeviceToAsset(d, a, time, given)
    PROVE  Inv'
  <1>1. PICK b \in Binding :
          /\ ~Bound(b)
          /\ bindings' = [bindings EXCEPT ![b] = NewBinding(d, a, time)]
          /\ callerTimed' = IF given THEN callerTimed \cup {b} ELSE callerTimed
    BY DEF BindDeviceToAsset
  <1>2. Bindable(d, a, {}) /\ UNCHANGED <<places, equipment, importing, clock>>
    BY DEF BindDeviceToAsset
  <1>3. /\ NewBinding(d, a, time) \in BindingRow
        /\ NewBinding(d, a, time) # None
        /\ NewBinding(d, a, time).device = d
        /\ NewBinding(d, a, time).asset = a
        /\ NewBinding(d, a, time).location = devices[d]
        /\ devices[d] = assets[a]
    BY <1>2, NewBindingRow DEF Inv
  <1>4. TypeOK'
    BY <1>1, <1>2, <1>3 DEF Inv, TypeOK, places, equipment
  <1>5. HierarchyConsistent'
    BY <1>2 DEF Inv, HierarchyConsistent, places, equipment
  <1>6. BindingsLocated'
    BY <1>1, <1>2, <1>3 DEF Inv, TypeOK, BindingsLocated, Bound, equipment
  <1>7. \A c \in Binding : ActiveBinding(c) =>
          bindings[c].device # d /\ bindings[c].asset # a
    BY <1>2 DEF Inv, Bindable, DeviceFree, AssetFree, BindingsLocated, ActiveBinding
  <1>8. BindingExclusive'
    BY <1>1, <1>3, <1>7 DEF Inv, TypeOK, BindingExclusive, ActiveBinding, Bound
  <1> QED
    BY <1>4, <1>5, <1>6, <1>8 DEF Inv

\* Ending a binding keeps the invariant.
LEMMA EndInv ==
    ASSUME Inv, NEW c \in Binding, ActiveBinding(c), NEW time \in Time,
           bindings' = [bindings EXCEPT ![c] = Ended(c, time)],
           callerTimed' \subseteq Binding,
           UNCHANGED <<places, equipment, importing, clock>>
    PROVE  Inv'
  <1>1. /\ Ended(c, time) \in BindingRow
        /\ Ended(c, time) # None
        /\ Ended(c, time).status = "inactive"
        /\ Ended(c, time).device = bindings[c].device
        /\ Ended(c, time).asset = bindings[c].asset
        /\ Ended(c, time).location = bindings[c].location
    BY EndedRow DEF Inv
  <1>2. TypeOK'
    BY <1>1 DEF Inv, TypeOK, places, equipment
  <1>3. HierarchyConsistent'
    BY DEF Inv, HierarchyConsistent, places, equipment
  <1>4. BindingsLocated'
    BY <1>1 DEF Inv, TypeOK, BindingsLocated, Bound, ActiveBinding, equipment
  <1>5. BindingExclusive'
    BY <1>1 DEF Inv, TypeOK, BindingExclusive, ActiveBinding, Bound
  <1> QED
    BY <1>2, <1>3, <1>4, <1>5 DEF Inv

\* Remapping keeps the invariant, whether or not the new binding is refused.
LEMMA RemapInv ==
    ASSUME Inv, NEW c \in Binding, NEW a \in Asset, NEW time \in Time,
           NEW given \in BOOLEAN, RemapBinding(c, a, time, given)
    PROVE  Inv'
  <1> DEFINE d == bindings[c].device
  <1>1. ActiveBinding(c) /\ UNCHANGED <<places, equipment, importing, clock>>
    BY DEF RemapBinding
  <1>2. d \in Device /\ bindings[c] \in BindingRow
    BY <1>1 DEF Inv, TypeOK, ActiveBinding, Bound, BindingRow
  <1>3. CASE ~Bindable(d, a, {c})
    <2>1. /\ bindings' = [bindings EXCEPT ![c] = Ended(c, time)]
          /\ callerTimed' \subseteq Binding
      BY <1>3 DEF RemapBinding, Inv, TypeOK
    <2> QED
      BY <1>1, <2>1, EndInv
  <1>4. CASE Bindable(d, a, {c})
    <2>1. PICK b \in Binding :
            /\ ~Bound(b)
            /\ bindings' = [bindings EXCEPT ![c] = Ended(c, time),
                                            ![b] = NewBinding(d, a, time)]
            /\ callerTimed' = IF given THEN callerTimed \cup {b, c} ELSE callerTimed
      BY <1>4 DEF RemapBinding
    <2>2. /\ NewBinding(d, a, time) \in BindingRow
          /\ NewBinding(d, a, time) # None
          /\ NewBinding(d, a, time).device = d
          /\ NewBinding(d, a, time).asset = a
          /\ NewBinding(d, a, time).location = devices[d]
          /\ devices[d] = assets[a]
      BY <1>2, <1>4, NewBindingRow DEF Inv
    <2>3. /\ Ended(c, time) \in BindingRow
          /\ Ended(c, time) # None
          /\ Ended(c, time).status = "inactive"
          /\ Ended(c, time).device = bindings[c].device
          /\ Ended(c, time).asset = bindings[c].asset
          /\ Ended(c, time).location = bindings[c].location
      BY <1>1, EndedRow DEF Inv
    <2>4. b # c
      BY <1>1, <2>1 DEF ActiveBinding
    <2>5. TypeOK'
      BY <1>1, <2>1, <2>2, <2>3 DEF Inv, TypeOK, places, equipment
    <2>6. HierarchyConsistent'
      BY <1>1 DEF Inv, HierarchyConsistent, places, equipment
    <2>7. BindingsLocated'
      BY <1>1, <2>1, <2>2, <2>3, <2>4
         DEF Inv, TypeOK, BindingsLocated, Bound, ActiveBinding, equipment
    <2>8. \A x \in Binding \ {c} : ActiveBinding(x) =>
            bindings[x].device # d /\ bindings[x].asset # a
      BY <1>4 DEF Inv, Bindable, DeviceFree, AssetFree, BindingsLocated, ActiveBinding
    <2>9. BindingExclusive'
      BY <2>1, <2>2, <2>3, <2>4, <2>8
         DEF Inv, TypeOK, BindingExclusive, ActiveBinding, Bound
    <2> QED
      BY <2>5, <2>6, <2>7, <2>9 DEF Inv
  <1> QED
    BY <1>3, <1>4

\* Unbinding keeps the invariant.
LEMMA UnbindInv ==
    ASSUME Inv, NEW c \in Binding, NEW time \in Time, NEW given \in BOOLEAN,
           UnbindBinding(c, time, given)
    PROVE  Inv'
  <1>1. /\ ActiveBinding(c)
        /\ bindings' = [bindings EXCEPT ![c] = Ended(c, time)]
        /\ callerTimed' \subseteq Binding
        /\ UNCHANGED <<places, equipment, importing, clock>>
    BY DEF UnbindBinding, Inv, TypeOK
  <1> QED
    BY <1>1, EndInv

\* Steps that touch no record keep the invariant.
LEMMA FrameInv ==
    ASSUME Inv, UNCHANGED <<places, equipment, bindings, callerTimed>>,
           importing' \in Seq(Entry), clock' \in Time
    PROVE  Inv'
  BY DEF Inv, TypeOK, HierarchyConsistent, BindingsLocated, BindingExclusive,
         Bound, ActiveBinding, places, equipment

\* Every step keeps the invariant.
LEMMA NextInv ==
    ASSUME Inv, [Next]_vars
    PROVE  Inv'
  <1>0. importing \in Seq(Entry) /\ clock \in Time
    BY DEF Inv, TypeOK
  <1>1. CASE CreateOne
    BY <1>0, <1>1, CreateInv DEF CreateOne
  <1>2. CASE StartImport
    BY <1>0, <1>2, FrameInv, RegistryAssumption DEF StartImport
  <1>3. CASE ImportEntry
    <2>1. Head(importing) \in Entry /\ Tail(importing) \in Seq(Entry)
      BY <1>0, <1>3, HeadTailProperties DEF ImportEntry
    <2> QED
      BY <1>3, <2>1, CreateInv DEF ImportEntry
  <1>4. CASE RejectEntry
    <2>1. <<>> \in Seq(Entry)
      BY EmptySeq
    <2> QED
      BY <1>0, <1>4, <2>1, FrameInv DEF RejectEntry
  <1>5. CASE Tick
    <2>1. clock' \in Time
      BY <1>0, <1>5, RegistryAssumption DEF Tick, Time
    <2> QED
      BY <1>0, <1>5, <2>1, FrameInv DEF Tick
  <1>6. CASE \E d \in Device, a \in Asset, time \in Time, given \in BOOLEAN :
               BindDeviceToAsset(d, a, time, given)
    BY <1>6, BindInv
  <1>7. CASE \E c \in Binding, a \in Asset, time \in Time, given \in BOOLEAN :
               RemapBinding(c, a, time, given)
    BY <1>7, RemapInv
  <1>8. CASE \E c \in Binding, time \in Time, given \in BOOLEAN :
               UnbindBinding(c, time, given)
    BY <1>8, UnbindInv
  <1>9. CASE UNCHANGED vars
    BY <1>0, <1>9, FrameInv DEF vars
  <1> QED
    BY <1>1, <1>2, <1>3, <1>4, <1>5, <1>6, <1>7, <1>8, <1>9 DEF Next

\* The inductive invariant holds in every reachable state.
THEOREM InvHolds == Spec => []Inv
  <1>1. Init => Inv
    BY InitInv
  <1>2. Inv /\ [Next]_vars => Inv'
    BY NextInv
  <1> QED
    BY <1>1, <1>2, PTL DEF Spec

\* Every reachable state is well-typed.
THEOREM RegistryTypeCorrect == Spec => []TypeOK
  <1>1. Inv => TypeOK
    BY DEF Inv
  <1> QED
    BY <1>1, InvHolds, PTL

\* Every record belongs to ancestors that exist and agree with each other.
THEOREM HierarchyHolds == Spec => []HierarchyConsistent
  <1>1. Inv => HierarchyConsistent
    BY DEF Inv
  <1> QED
    BY <1>1, InvHolds, PTL

\* No device and no asset ever has two active bindings.
THEOREM BindingsExclusiveHold == Spec => []BindingExclusive
  <1>1. Inv => BindingExclusive
    BY DEF Inv
  <1> QED
    BY <1>1, InvHolds, PTL

-----------------------------------------------------------------------------
(* The history of bindings. *)

\* Every step keeps the history of the bindings there are.
LEMMA StepKeepsHistory ==
    ASSUME Inv, [Next]_vars
    PROVE  KeepsHistory \/ UNCHANGED vars
  <1>1. CASE UNCHANGED bindings
    BY <1>1 DEF KeepsHistory
  <1>2. ASSUME NEW d \in Device, NEW a \in Asset, NEW time \in Time,
               NEW given \in BOOLEAN, BindDeviceToAsset(d, a, time, given)
        PROVE  KeepsHistory
    BY <1>2 DEF BindDeviceToAsset, KeepsHistory, Inv, TypeOK
  <1>3. ASSUME NEW c \in Binding, NEW time \in Time, ActiveBinding(c)
        PROVE  /\ Ended(c, time).device = bindings[c].device
               /\ Ended(c, time).asset = bindings[c].asset
               /\ Ended(c, time).from = bindings[c].from
               /\ bindings[c].status # "inactive"
    <2>1. bindings[c] \in BindingRow
      BY <1>3 DEF Inv, TypeOK, ActiveBinding, Bound
    <2> QED
      BY <1>3, <2>1 DEF Ended, BindingRow, ActiveBinding
  <1>4. ASSUME NEW c \in Binding, NEW a \in Asset, NEW time \in Time,
               NEW given \in BOOLEAN, RemapBinding(c, a, time, given)
        PROVE  KeepsHistory
    BY <1>3, <1>4 DEF RemapBinding, KeepsHistory, Inv, TypeOK
  <1>5. ASSUME NEW c \in Binding, NEW time \in Time, NEW given \in BOOLEAN,
               UnbindBinding(c, time, given)
        PROVE  KeepsHistory
    BY <1>3, <1>5 DEF UnbindBinding, KeepsHistory, Inv, TypeOK
  <1> QED
    BY <1>1, <1>2, <1>4, <1>5
       DEF Next, vars, CreateOne, StartImport, ImportEntry, RejectEntry, Tick, Create

\* An ended binding is never changed, and no binding is ever moved.
THEOREM HistoryHolds == Spec => HistoryKept
  <1>1. Inv /\ [Next]_vars => [KeepsHistory]_vars
    BY StepKeepsHistory
  <1> QED
    BY <1>1, InvHolds, PTL DEF Spec, HistoryKept

\* Times the server gave lie in the past, so a binding that starts now starts
\* after every earlier one has ended.
ServerTimes ==
    \A b \in Binding \ callerTimed : Bound(b) =>
        /\ bindings[b].from <= clock
        /\ bindings[b].status = "inactive" => bindings[b].ended <= clock

TimeInv == ServerTimes /\ PeriodsDisjoint

\* Binding a device now keeps the periods apart.
LEMMA BindTimes ==
    ASSUME Inv, TimeInv, NEW d \in Device, NEW a \in Asset, NEW time \in Time,
           NEW given \in BOOLEAN, BindDeviceToAsset(d, a, time, given)
    PROVE  TimeInv'
  <1>1. PICK b \in Binding :
          /\ ~Bound(b)
          /\ bindings' = [bindings EXCEPT ![b] = NewBinding(d, a, time)]
          /\ callerTimed' = IF given THEN callerTimed \cup {b} ELSE callerTimed
    BY DEF BindDeviceToAsset
  <1>2. Bindable(d, a, {}) /\ clock' = clock /\ Given(time, given)
    BY DEF BindDeviceToAsset
  <1>3. \A c \in Binding : ActiveBinding(c) =>
          bindings[c].device # d /\ bindings[c].asset # a
    BY <1>2 DEF Inv, Bindable, DeviceFree, AssetFree, BindingsLocated, ActiveBinding
  <1>4. /\ NewBinding(d, a, time) \in BindingRow
        /\ NewBinding(d, a, time) # None
        /\ NewBinding(d, a, time).device = d
        /\ NewBinding(d, a, time).asset = a
        /\ NewBinding(d, a, time).from = time
        /\ NewBinding(d, a, time).status = "active"
    BY <1>2, NewBindingRow DEF Inv, NewBinding
  <1>5. b \notin callerTimed' => time = clock
    BY <1>1, <1>2 DEF Given
  <1>6. clock \in Nat /\ \A c \in Binding : Bound(c) => bindings[c] \in BindingRow
    BY RegistryAssumption DEF Inv, TypeOK, Bound, Time
  <1>7. \A c \in Binding \ {b} : bindings'[c] = bindings[c]
    BY <1>1 DEF Inv, TypeOK
  <1>8. bindings'[b] = NewBinding(d, a, time)
    BY <1>1 DEF Inv, TypeOK
  <1>9. ServerTimes'
    BY <1>1, <1>2, <1>4, <1>5, <1>6, <1>7, <1>8 DEF TimeInv, ServerTimes, Bound
  <1>10. ASSUME NEW c \in Binding \ callerTimed', Bound(c), c # b,
                b \notin callerTimed', bindings[c].device = d \/ bindings[c].asset = a
         PROVE  Before(c, b)'
    <2>1. bindings[c].status = "inactive"
      BY <1>3, <1>6, <1>10 DEF ActiveBinding, BindingRow
    <2>2. bindings[c].ended <= clock
      BY <1>1, <1>10, <2>1 DEF TimeInv, ServerTimes
    <2> QED
      BY <1>4, <1>5, <1>7, <1>8, <1>10, <2>1, <2>2 DEF Before
  <1>11. PeriodsDisjoint'
    BY <1>1, <1>4, <1>7, <1>8, <1>10 DEF TimeInv, PeriodsDisjoint, Bound, Before
  <1> QED
    BY <1>9, <1>11 DEF TimeInv

\* Ending a binding now keeps the periods apart: while it was active, every
\* other binding of its device or asset had ended before it began.
LEMMA EndTimes ==
    ASSUME Inv, TimeInv, NEW c \in Binding, ActiveBinding(c), NEW time \in Time,
           bindings' = [bindings EXCEPT ![c] = Ended(c, time)],
           callerTimed \subseteq callerTimed',
           c \notin callerTimed' => time = clock, clock' = clock
    PROVE  TimeInv'
  <1>1. bindings[c] \in BindingRow
    BY DEF Inv, TypeOK, ActiveBinding, Bound
  <1>2. /\ bindings'[c].device = bindings[c].device
        /\ bindings'[c].asset = bindings[c].asset
        /\ bindings'[c].from = bindings[c].from
        /\ bindings'[c].status = "inactive"
        /\ bindings'[c].ended = time
    BY <1>1 DEF Inv, TypeOK, Ended, BindingRow
  <1>3. \A x \in Binding \ {c} : bindings'[x] = bindings[x]
    BY DEF Inv, TypeOK
  <1>4. clock \in Nat
    BY RegistryAssumption DEF Inv, TypeOK, Time
  <1>5. ServerTimes'
    BY <1>2, <1>3, <1>4 DEF TimeInv, ServerTimes, Bound, ActiveBinding
  <1>6. \A x \in Binding : ~Before(c, x)
    BY DEF Before, ActiveBinding
  <1>7. PeriodsDisjoint'
    BY <1>2, <1>3, <1>6 DEF TimeInv, PeriodsDisjoint, Bound, Before, ActiveBinding
  <1> QED
    BY <1>5, <1>7 DEF TimeInv

\* Remapping now keeps the periods apart.
LEMMA RemapTimes ==
    ASSUME Inv, TimeInv, NEW c \in Binding, NEW a \in Asset, NEW time \in Time,
           NEW given \in BOOLEAN, RemapBinding(c, a, time, given)
    PROVE  TimeInv'
  <1> DEFINE d == bindings[c].device
  <1>1. ActiveBinding(c) /\ clock' = clock /\ Given(time, given)
    BY DEF RemapBinding
  <1>2. bindings[c] \in BindingRow /\ d \in Device
    BY <1>1 DEF Inv, TypeOK, ActiveBinding, Bound, BindingRow
  <1>3. CASE ~Bindable(d, a, {c})
    <2>1. /\ bindings' = [bindings EXCEPT ![c] = Ended(c, time)]
          /\ callerTimed \subseteq callerTimed'
          /\ c \notin callerTimed' => time = clock
      BY <1>1, <1>3 DEF RemapBinding, Given
    <2> QED
      BY <1>1, <2>1, EndTimes
  <1>4. CASE Bindable(d, a, {c})
    <2>1. PICK b \in Binding :
            /\ ~Bound(b)
            /\ bindings' = [bindings EXCEPT ![c] = Ended(c, time),
                                            ![b] = NewBinding(d, a, time)]
            /\ callerTimed' = IF given THEN callerTimed \cup {b, c} ELSE callerTimed
      BY <1>4 DEF RemapBinding
    <2>2. /\ bindings'[c] = Ended(c, time) /\ bindings'[b] = NewBinding(d, a, time)
          /\ \A x \in Binding \ {b, c} : bindings'[x] = bindings[x]
          /\ b # c
      BY <1>1, <2>1 DEF Inv, TypeOK, ActiveBinding
    <2>3. /\ bindings'[c].device = d
          /\ bindings'[c].asset = bindings[c].asset
          /\ bindings'[c].from = bindings[c].from
          /\ bindings'[c].status = "inactive"
          /\ bindings'[c].ended = time
      BY <1>2, <2>2 DEF Ended, BindingRow
    <2>4. /\ bindings'[b].device = d
          /\ bindings'[b].asset = a
          /\ bindings'[b].from = time
          /\ bindings'[b].status = "active"
      BY <2>2 DEF NewBinding
    <2>5. ASSUME b \notin callerTimed' \/ c \notin callerTimed'
          PROVE  time = clock
      BY <1>1, <2>1, <2>5 DEF Given
    <2>6. clock \in Nat /\ time \in Nat
      BY RegistryAssumption DEF Inv, TypeOK, Time
    <2>0. callerTimed \subseteq callerTimed' /\ ~Bound(b)
      BY <2>1
    <2>7. ServerTimes'
      <3>1. ASSUME NEW x \in Binding \ callerTimed', x # b, Bound(x)'
            PROVE  Bound(x) /\ bindings'[x].from = bindings[x].from
        BY <1>1, <2>2, <2>3, <3>1 DEF Bound, ActiveBinding
      <3>2. ASSUME NEW x \in Binding \ callerTimed', x # b, Bound(x)',
                   bindings'[x].status = "inactive"
            PROVE  bindings'[x].ended <= clock
        <4>1. CASE x = c
          BY <2>3, <2>5, <2>6, <3>2, <4>1
        <4>2. CASE x # c
          BY <2>0, <2>2, <3>2, <4>2 DEF TimeInv, ServerTimes, Bound
        <4> QED
          BY <4>1, <4>2
      <3>3. \A x \in Binding \ callerTimed' : x # b /\ Bound(x)' =>
              bindings'[x].from <= clock
        BY <2>0, <3>1 DEF TimeInv, ServerTimes
      <3>4. b \notin callerTimed' => bindings'[b].from <= clock
        BY <2>4, <2>5, <2>6
      <3> QED
        BY <1>1, <2>4, <3>2, <3>3, <3>4 DEF ServerTimes
    <2>8. \A x \in Binding \ {c} : ActiveBinding(x) =>
            bindings[x].device # d /\ bindings[x].asset # a
      BY <1>4 DEF Inv, Bindable, DeviceFree, AssetFree, BindingsLocated, ActiveBinding
    <2>9. ASSUME NEW x \in Binding \ callerTimed', x # b, Bound(x),
                 b \notin callerTimed', bindings[x].device = d \/ bindings[x].asset = a
          PROVE  Before(x, b)'
      <3>1. CASE x = c
        BY <2>3, <2>4, <2>6, <3>1 DEF Before
      <3>2. CASE x # c
        <4>1. bindings[x] \in BindingRow
          BY <2>9 DEF Inv, TypeOK, Bound
        <4>2. bindings[x].status = "inactive"
          BY <2>8, <2>9, <3>2, <4>1 DEF ActiveBinding, BindingRow
        <4>3. bindings[x].ended <= clock
          BY <2>1, <2>9, <4>2 DEF TimeInv, ServerTimes
        <4> QED
          BY <2>2, <2>4, <2>5, <2>9, <3>2, <4>2, <4>3 DEF Before
      <3> QED
        BY <3>1, <3>2
    <2>10. \A x \in Binding : ~Before(c, x)
      BY <1>1 DEF Before, ActiveBinding
    <2>11. \A x, y \in Binding \ callerTimed' :
             x # b /\ y # b /\ Bound(x) /\ Bound(y) /\ x # y
               /\ (bindings[x].device = bindings[y].device
                    \/ bindings[x].asset = bindings[y].asset)
             => Before(x, y)' \/ Before(y, x)'
      <3>1. ASSUME NEW x \in Binding \ callerTimed', NEW y \in Binding \ callerTimed',
                   x # b, y # b, Bound(x), Bound(y), x # y,
                   bindings[x].device = bindings[y].device
                     \/ bindings[x].asset = bindings[y].asset
            PROVE  Before(x, y) \/ Before(y, x)
        BY <2>0, <3>1 DEF TimeInv, PeriodsDisjoint
      <3>2. ASSUME NEW x \in Binding, NEW y \in Binding, x # b, y # b, Before(x, y)
            PROVE  Before(x, y)'
        <4>1. x # c
          BY <2>10, <3>2
        <4>2. bindings'[x] = bindings[x] /\ bindings'[y].from = bindings[y].from
          BY <2>2, <2>3, <3>2, <4>1
        <4> QED
          BY <3>2, <4>2 DEF Before
      <3> QED
        BY <3>1, <3>2
    <2>12. \A x \in Binding \ {b} :
             /\ Bound(x)' => Bound(x)
             /\ Bound(x) => /\ bindings'[x].device = bindings[x].device
                            /\ bindings'[x].asset = bindings[x].asset
      BY <1>1, <2>2, <2>3 DEF Bound, ActiveBinding
    <2>13. PeriodsDisjoint'
      BY <2>4, <2>9, <2>11, <2>12 DEF PeriodsDisjoint
    <2> QED
      BY <2>7, <2>13 DEF TimeInv
  <1> QED
    BY <1>3, <1>4

\* Steps that leave the bindings alone, the clock running on at most.
LEMMA FrameTimes ==
    ASSUME Inv, TimeInv, UNCHANGED <<bindings, callerTimed>>,
           clock' \in Nat, clock <= clock'
    PROVE  TimeInv'
  <1>1. clock \in Nat /\ \A c \in Binding : Bound(c) => bindings[c] \in BindingRow
    BY RegistryAssumption DEF Inv, TypeOK, Bound, Time
  <1>2. \A t \in Time : t \in Nat
    BY RegistryAssumption DEF Time
  <1>3. ServerTimes'
    BY <1>1, <1>2 DEF TimeInv, ServerTimes, Bound, BindingRow
  <1>4. PeriodsDisjoint'
    BY DEF TimeInv, PeriodsDisjoint, Bound, Before
  <1> QED
    BY <1>3, <1>4 DEF TimeInv

\* Every step keeps server-timed periods apart.
LEMMA NextTimes ==
    ASSUME Inv, TimeInv, [Next]_vars
    PROVE  TimeInv'
  <1>0. clock \in Nat /\ clock <= clock
    BY RegistryAssumption DEF Inv, TypeOK, Time
  <1>1. CASE UNCHANGED <<bindings, callerTimed, clock>>
    BY <1>0, <1>1, FrameTimes
  <1>2. CASE Tick
    BY <1>0, <1>2, FrameTimes DEF Tick
  <1>3. CASE \E d \in Device, a \in Asset, time \in Time, given \in BOOLEAN :
               BindDeviceToAsset(d, a, time, given)
    BY <1>3, BindTimes
  <1>4. CASE \E c \in Binding, a \in Asset, time \in Time, given \in BOOLEAN :
               RemapBinding(c, a, time, given)
    BY <1>4, RemapTimes
  <1>5. ASSUME NEW c \in Binding, NEW time \in Time, NEW given \in BOOLEAN,
               UnbindBinding(c, time, given)
        PROVE  TimeInv'
    BY <1>5, EndTimes DEF UnbindBinding, Given
  <1> QED
    BY <1>1, <1>2, <1>3, <1>4, <1>5
       DEF Next, vars, CreateOne, StartImport, ImportEntry, RejectEntry, Create

\* Periods of one device, or of one asset, that the server timed never overlap.
THEOREM PeriodsHold == Spec => []PeriodsDisjoint
  <1>1. Init => TimeInv
    BY DEF Init, TimeInv, ServerTimes, PeriodsDisjoint, Bound
  <1>2. Inv /\ TimeInv /\ [Next]_vars => TimeInv'
    BY NextTimes
  <1>3. TimeInv => PeriodsDisjoint
    BY DEF TimeInv
  <1> QED
    BY <1>1, <1>2, <1>3, InvHolds, PTL DEF Spec
=============================================================================
