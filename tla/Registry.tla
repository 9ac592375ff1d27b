------------------------------- MODULE Registry -------------------------------
(***************************************************************************)
(* The registry of customers and equipment: tenants own branches, branches *)
(* own sites, and a site has assets and devices; a device is bound to one  *)
(* asset at a time and its earlier bindings are kept.                      *)
(*                                                                         *)
(* The service is synchronous and keeps its records in memory: a request   *)
(* is one step, except a bulk import, which creates one record per step    *)
(* while every other request waits, and stops at the first rejection       *)
(* without taking anything back.                                           *)
(***************************************************************************)
EXTENDS Naturals, Sequences

CONSTANTS
    Tenant, Branch, Site, Asset, Device,   \* identifiers of each kind
    Binding,      \* identifiers of bindings
    None,         \* the record of an identifier not in use
    Payload,      \* the import payloads, flattened to sequences of entries
    CallerTime,   \* the times callers may give instead of the server's
    MaxTime       \* bound: the last reading of the server's clock

VARIABLES
    tenants,      \* the tenants
    branches,     \* the tenant of each branch
    sites,        \* the tenant and branch of each site
    assets,       \* the tenant, branch and site of each asset
    devices,      \* the tenant, branch and site of each device
    bindings,     \* the bindings, ended ones included
    importing,    \* what is left of the import under way
    clock,        \* the server's clock
    callerTimed   \* history: the bindings with a time given by a caller

places == <<tenants, branches, sites>>
equipment == <<assets, devices>>
vars == <<places, equipment, bindings, importing, clock, callerTimed>>

-----------------------------------------------------------------------------
SiteOwner == [tenant: Tenant, branch: Branch]
Location  == [tenant: Tenant, branch: Branch, site: Site]
Time      == 0 .. MaxTime

BindingRow == [device: Device, asset: Asset, location: Location,
               status: {"active", "inactive"}, from: Time, ended: Time]

\* One record to create, of any kind, by a request of its own or an import.
Entry ==
         [kind: {"tenant"}, id: Tenant]
    \cup [kind: {"branch"}, id: Branch, tenant: Tenant]
    \cup [kind: {"site"}, id: Site, owner: SiteOwner]
    \cup [kind: {"asset"}, id: Asset, location: Location]
    \cup [kind: {"device"}, id: Device, location: Location]

ASSUME RegistryAssumption ==
    /\ MaxTime \in Nat /\ CallerTime \subseteq Time
    /\ None \notin Tenant \cup SiteOwner \cup Location \cup BindingRow
    /\ Payload \subseteq Seq(Entry)

TypeOK ==
    /\ tenants \subseteq Tenant
    /\ branches \in [Branch -> Tenant \cup {None}]
    /\ sites \in [Site -> SiteOwner \cup {None}]
    /\ assets \in [Asset -> Location \cup {None}]
    /\ devices \in [Device -> Location \cup {None}]
    /\ bindings \in [Binding -> BindingRow \cup {None}]
    /\ importing \in Seq(Entry)
    /\ clock \in Time
    /\ callerTimed \subseteq Binding

Init ==
    /\ tenants = {}
    /\ branches = [b \in Branch |-> None]
    /\ sites = [s \in Site |-> None]
    /\ assets = [a \in Asset |-> None]
    /\ devices = [d \in Device |-> None]
    /\ bindings = [b \in Binding |-> None]
    /\ importing = <<>>
    /\ clock = 0
    /\ callerTimed = {}

-----------------------------------------------------------------------------
(* The hierarchy *)

\* Plausible bug: the branch of the site is not compared.
LocatedMutant(l) ==
    /\ l.tenant \in tenants
    /\ branches[l.branch] = l.tenant
    /\ sites[l.site] # None /\ sites[l.site].tenant = l.tenant

\* A site exists and belongs to the branch and tenant that were named with it.
Located(l) ==
    /\ l.tenant \in tenants
    /\ branches[l.branch] = l.tenant
    /\ sites[l.site] # None
    /\ sites[l.site].tenant = l.tenant /\ sites[l.site].branch = l.branch

Accepted(entry) ==
    \/ entry.kind = "tenant" /\ entry.id \notin tenants
    \/ /\ entry.kind = "branch" /\ branches[entry.id] = None
       /\ entry.tenant \in tenants
    \/ /\ entry.kind = "site" /\ sites[entry.id] = None
       /\ entry.owner.tenant \in tenants
       /\ branches[entry.owner.branch] = entry.owner.tenant
    \/ entry.kind = "asset" /\ assets[entry.id] = None /\ Located(entry.location)
    \/ entry.kind = "device" /\ devices[entry.id] = None /\ Located(entry.location)

CreateTenant(entry) ==
    /\ entry.kind = "tenant"
    /\ tenants' = tenants \cup {entry.id}
    /\ UNCHANGED <<branches, sites, equipment>>

CreateBranch(entry) ==
    /\ entry.kind = "branch"
    /\ branches' = [branches EXCEPT ![entry.id] = entry.tenant]
    /\ UNCHANGED <<tenants, sites, equipment>>

CreateSite(entry) ==
    /\ entry.kind = "site"
    /\ sites' = [sites EXCEPT ![entry.id] = entry.owner]
    /\ UNCHANGED <<tenants, branches, equipment>>

CreateAsset(entry) ==
    /\ entry.kind = "asset"
    /\ assets' = [assets EXCEPT ![entry.id] = entry.location]
    /\ UNCHANGED <<places, devices>>

CreateDevice(entry) ==
    /\ entry.kind = "device"
    /\ devices' = [devices EXCEPT ![entry.id] = entry.location]
    /\ UNCHANGED <<places, assets>>

Create(entry) ==
    /\ Accepted(entry)
    /\ \/ CreateTenant(entry) \/ CreateBranch(entry) \/ CreateSite(entry)
       \/ CreateAsset(entry) \/ CreateDevice(entry)
    /\ UNCHANGED <<bindings, clock, callerTimed>>

CreateOne ==
    /\ importing = <<>>
    /\ \E entry \in Entry : Create(entry)
    /\ UNCHANGED importing

StartImport ==
    /\ importing = <<>>
    /\ importing' \in Payload
    /\ UNCHANGED <<places, equipment, bindings, clock, callerTimed>>

ImportEntry ==
    /\ importing # <<>>
    /\ Create(Head(importing))
    /\ importing' = Tail(importing)

RejectEntry ==
    /\ importing # <<>>
    /\ ~Accepted(Head(importing))
    /\ importing' = <<>>
    /\ UNCHANGED <<places, equipment, bindings, clock, callerTimed>>

-----------------------------------------------------------------------------
(* The bindings *)

Bound(b) == bindings[b] # None
ActiveBinding(b) == Bound(b) /\ bindings[b].status = "active"

\* A time given by the caller, or the server's.
Given(time, given) == IF given THEN time \in CallerTime ELSE time = clock

DeviceFree(d, ending) ==
    ~\E b \in Binding \ ending : ActiveBinding(b) /\ bindings[b].device = d

\* Other bindings of the asset are looked for among those of its site.
AssetFree(a, ending) ==
    ~\E b \in Binding \ ending :
        /\ ActiveBinding(b) /\ bindings[b].asset = a
        /\ bindings[b].location.site = assets[a].site

\* Plausible bug: an asset that already has a device is not refused.
BindableAssetMutant(d, a, ending) ==
    /\ devices[d] # None /\ assets[a] # None
    /\ devices[d] = assets[a]
    /\ DeviceFree(d, ending)

\* Plausible bug: a device that is already bound is not refused.
BindableDeviceMutant(d, a, ending) ==
    /\ devices[d] # None /\ assets[a] # None
    /\ devices[d] = assets[a]
    /\ AssetFree(a, ending)

\* What bindDeviceToAsset checks, the bindings in ending having ended before.
Bindable(d, a, ending) ==
    /\ devices[d] # None /\ assets[a] # None
    /\ devices[d] = assets[a]
    /\ DeviceFree(d, ending)
    /\ AssetFree(a, ending)

\* Plausible bug: the row is stored with a status the lookups do not know.
NewBindingMutant(d, a, from) ==
    [device |-> d, asset |-> a, location |-> devices[d],
     status |-> "bound", from |-> from, ended |-> 0]

NewBinding(d, a, from) ==
    [device |-> d, asset |-> a, location |-> devices[d],
     status |-> "active", from |-> from, ended |-> 0]

BindDeviceToAsset(d, a, from, given) ==
    /\ importing = <<>> /\ Given(from, given)
    /\ Bindable(d, a, {})
    /\ \E b \in Binding :
         /\ ~Bound(b)
         /\ bindings' = [bindings EXCEPT ![b] = NewBinding(d, a, from)]
         /\ callerTimed' = IF given THEN callerTimed \cup {b} ELSE callerTimed
    /\ UNCHANGED <<places, equipment, importing, clock>>

\* Plausible bug: the ended binding starts anew instead of keeping its start.
EndedMutant(b, time) ==
    [bindings[b] EXCEPT !.status = "inactive", !.from = time, !.ended = time]

Ended(b, time) == [bindings[b] EXCEPT !.status = "inactive", !.ended = time]

\* The current binding has ended before the new one is checked: a refusal
\* leaves the device without one.
RemapBinding(c, a, time, given) ==
    /\ importing = <<>> /\ ActiveBinding(c) /\ Given(time, given)
    /\ LET d == bindings[c].device IN
       \/ /\ Bindable(d, a, {c})
          /\ \E b \in Binding :
               /\ ~Bound(b)
               /\ bindings' = [bindings EXCEPT ![c] = Ended(c, time),
                                               ![b] = NewBinding(d, a, time)]
               /\ callerTimed' = IF given THEN callerTimed \cup {b, c}
                                          ELSE callerTimed
       \/ /\ ~Bindable(d, a, {c})
          /\ bindings' = [bindings EXCEPT ![c] = Ended(c, time)]
          /\ callerTimed' = IF given THEN callerTimed \cup {c} ELSE callerTimed
    /\ UNCHANGED <<places, equipment, importing, clock>>

UnbindBinding(c, time, given) ==
    /\ importing = <<>> /\ ActiveBinding(c) /\ Given(time, given)
    /\ bindings' = [bindings EXCEPT ![c] = Ended(c, time)]
    /\ callerTimed' = IF given THEN callerTimed \cup {c} ELSE callerTimed
    /\ UNCHANGED <<places, equipment, importing, clock>>

Tick ==
    /\ clock < MaxTime
    /\ clock' = clock + 1
    /\ UNCHANGED <<places, equipment, bindings, importing, callerTimed>>

-----------------------------------------------------------------------------
Next ==
    \/ CreateOne \/ StartImport \/ ImportEntry \/ RejectEntry \/ Tick
    \/ \E d \in Device, a \in Asset, time \in Time, given \in BOOLEAN :
          BindDeviceToAsset(d, a, time, given)
    \/ \E c \in Binding, a \in Asset, time \in Time, given \in BOOLEAN :
          RemapBinding(c, a, time, given)
    \/ \E c \in Binding, time \in Time, given \in BOOLEAN :
          UnbindBinding(c, time, given)

Spec == Init /\ [][Next]_vars

-----------------------------------------------------------------------------
(* Properties *)

\* Every branch, site, asset and device belongs to ancestors that exist and
\* agree with each other all the way up, whatever imports stopped half-way
\* (registry-and-binding-workflows.md, validation rules).
HierarchyConsistent ==
    /\ \A b \in Branch : branches[b] # None => branches[b] \in tenants
    /\ \A s \in Site : sites[s] # None => branches[sites[s].branch] = sites[s].tenant
    /\ \A x \in Asset : assets[x] # None =>
         sites[assets[x].site] = [tenant |-> assets[x].tenant,
                                  branch |-> assets[x].branch]
    /\ \A x \in Device : devices[x] # None =>
         sites[devices[x].site] = [tenant |-> devices[x].tenant,
                                   branch |-> devices[x].branch]

\* A binding carries the location both of its device and of its asset.
BindingsLocated ==
    \A b \in Binding : Bound(b) =>
        /\ bindings[b].location = devices[bindings[b].device]
        /\ bindings[b].location = assets[bindings[b].asset]

\* A device has at most one active binding, and so has an asset, although the
\* service looks for an asset's bindings among those of its site only.
BindingExclusive ==
    \A b, c \in Binding :
        ActiveBinding(b) /\ ActiveBinding(c) /\ b # c =>
            /\ bindings[b].device # bindings[c].device
            /\ bindings[b].asset # bindings[c].asset

Before(b, c) == bindings[b].status = "inactive" /\ bindings[b].ended <= bindings[c].from

\* As long as callers leave the times to the server, the periods in which a
\* device, or an asset, was bound never overlap: the history says which asset
\* the telemetry of any moment belonged to, also across remaps.
PeriodsDisjoint ==
    \A b, c \in Binding \ callerTimed :
        /\ Bound(b) /\ Bound(c) /\ b # c
        /\ \/ bindings[b].device = bindings[c].device
           \/ bindings[b].asset = bindings[c].asset
        => Before(b, c) \/ Before(c, b)

KeepsHistory ==
    \A b \in Binding : Bound(b) =>
        /\ bindings'[b].device = bindings[b].device
        /\ bindings'[b].asset = bindings[b].asset
        /\ bindings'[b].from = bindings[b].from
        /\ bindings[b].status = "inactive" => bindings'[b] = bindings[b]

\* History is kept: a binding that has ended never changes again, and none
\* ever changes its device, its asset or its start (remapBinding ends the row
\* it finds and adds another).
HistoryKept == [][KeepsHistory]_vars
=============================================================================
