------------------------------- MODULE Queries -------------------------------
(***************************************************************************)
(* dashboard/data.go: the queries of the dashboard, each of one or several *)
(* calls to the storage server, and the lookups of client.go and the       *)
(* properties of properties.go they rest on.  While a query runs, the CSI  *)
(* driver and other clients change the storage, and any call may fail.     *)
(*                                                                         *)
(* A subvolume is the map of its properties; its place <<fs, name>> is     *)
(* also its mount path.  One query runs, after which the behaviour ends.   *)
(***************************************************************************)
EXTENDS FiniteSets, Functions, Naturals, Sequences

CONSTANTS
    Filesystems, \* filesystems of the server
    Names,       \* names of subvolumes
    Ids,         \* CSI volume names
    Clusters,    \* cluster ids
    Protocols,   \* protocols of volumes: found by path or by name
    None,        \* a property that is missing, an argument that is empty
    MaxChanges   \* bound: changes of the storage during the query

ASSUME QueriesAssumption ==
    /\ None \notin Filesystems \cup Ids \cup Clusters \cup Protocols
    /\ Protocols \subseteq {"nfs", "nvmeof"} /\ Protocols # {}
    /\ MaxChanges \in Nat

VARIABLES
    storage, \* what the server has: subvolumes, the paths of those with a
             \* snapshot, the paths shared, the subsystems and targets
    changes, \* changes of the storage so far
    op,      \* the query and its arguments
    step,    \* the call it makes next
    held,    \* the subvolumes it has read and still uses
    todo,    \* the filesystems whose snapshots it has not listed
    rows,    \* what it shows
    answer,  \* how it ended
    failed,  \* history: the calls that failed
    past     \* history: what the server had since the query began, in order

storageVars == <<storage, changes, past>>
vars        == <<storageVars, op, step, held, todo, rows, answer, failed>>

Past     == Range(past)
Locs     == Filesystems \X Names
Keys     == {"managed_by", "csi_volume_name", "protocol", "cluster_id"}
Texts    == {"nasty-csi"} \cup Ids \cup Protocols \cup Clusters
Prefixes == {"default", "other"}

Ops == [kind : {"volumes", "snapshots"}, cluster : Clusters \cup {None}]
       \cup [kind : {"unmanaged"}, fs : Filesystems \cup {None}]
       \cup [kind : {"details"}, id : Ids]
       \cup [kind : {"details"}, loc : Locs]

(***************************************************************************)
(* The server, as its answers are used.                                    *)
(***************************************************************************)

Prop(sv, key) == IF key \in DOMAIN sv THEN sv[key] ELSE None

ManagedBy(sv) == Prop(sv, "managed_by") = "nasty-csi"

FindSubvolumesByProperty(st, key, value, fs) ==
    Restrict(st.subvols,
             {l \in DOMAIN st.subvols : /\ Prop(st.subvols[l], key) = value
                                        /\ fs \in {None, l[1]}})

FindManagedSubvolumes(st, fs) ==
    FindSubvolumesByProperty(st, "managed_by", "nasty-csi", fs)

ListAllSubvolumes(st, fs) ==
    Restrict(st.subvols, {l \in DOMAIN st.subvols : fs \in {None, l[1]}})

(***************************************************************************)
(* The pure part.                                                          *)
(***************************************************************************)

(* A mutant: optional properties are written also when they are empty. *)
AllProperties(p) ==
    [k \in Keys |-> CASE k = "managed_by"      -> "nasty-csi"
                      [] k = "csi_volume_name" -> p.id
                      [] k = "protocol"        -> p.protocol
                      [] k = "cluster_id"      -> p.cluster]

VolumeProperties(p) ==
    [k \in IF p.cluster = None THEN Keys \ {"cluster_id"} ELSE Keys |->
       CASE k = "managed_by"      -> "nasty-csi"
         [] k = "csi_volume_name" -> p.id
         [] k = "protocol"        -> p.protocol
         [] k = "cluster_id"      -> p.cluster]

ExtractVolumes(subvols) ==
    {[loc |-> l, id |-> subvols[l]["csi_volume_name"],
      cluster |-> Prop(subvols[l], "cluster_id")] :
        l \in {k \in DOMAIN subvols :
                 Prop(subvols[k], "csi_volume_name") # None}}

(* A mutant: volumes of no cluster are left out. *)
FilterExactly(volumes, cluster) ==
    IF cluster = None THEN volumes
    ELSE {v \in volumes : v.cluster = cluster}

FilterByClusterID(volumes, cluster) ==
    IF cluster = None THEN volumes
    ELSE {v \in volumes : v.cluster \in {None, cluster}}

(* The subvolumes of a cluster, and those that no cluster claims.          *)
FilterSubvolumesByClusterID(subvols, cluster) ==
    IF cluster = None THEN subvols
    ELSE Restrict(subvols,
                  {l \in DOMAIN subvols :
                     Prop(subvols[l], "cluster_id") \in {None, cluster}})

(* managedSubvols of FindManagedSnapshots: those whose snapshots it shows. *)
ManagedSubvols(st, cluster) ==
    LET seen == FilterSubvolumesByClusterID(FindManagedSubvolumes(st, None),
                                            cluster)
    IN  Restrict(seen, {l \in DOMAIN seen :
                          Prop(seen[l], "csi_volume_name") # None})

(* A mutant: subvolumes are told apart by name only. *)
SameName(l, k) == l[2] = k[2]

(* Two subvolumes are the same if filesystem "/" name is.                  *)
SameSubvolume(l, k) == l = k

(* The lookup by the whole NQN or IQN, with the client's own prefix.       *)
OfDefaultPrefix(st, id) == st.subsystems \cap {<<"default", id>>}

(* The scan of all subsystems or targets for one that ends in ":" and the   *)
(* name.  <<prefix, id>> stands for every NQN or IQN that ends so: what    *)
(* comes before is the client's default prefix or it is not.               *)
OfName(st, id) == {s \in st.subsystems : s[2] = id}

(* GetVolumeDetails looks for a share or target of this subvolume.         *)
HasLookup(sv) ==
    \/ Prop(sv, "protocol") = "nfs"
    \/ Prop(sv, "protocol") = "nvmeof" /\ Prop(sv, "csi_volume_name") # None

(***************************************************************************)
(* The query.                                                              *)
(***************************************************************************)

(* Of the storage only what the query reads is varied. *)
ParamsSet ==
    [id : Ids,
     protocol : IF op.kind = "details" THEN Protocols
                ELSE {CHOOSE p \in Protocols : TRUE},
     cluster : IF op.kind \in {"volumes", "snapshots"}
               THEN Clusters \cup {None} ELSE {None}]

SnapPaths == IF op.kind = "snapshots" THEN Locs ELSE {}

SharePaths ==
    IF op.kind = "unmanaged" \/ "id" \in DOMAIN op THEN Locs
    ELSE IF "loc" \in DOMAIN op THEN {op.loc} ELSE {}

Subsystems ==
    IF op.kind # "details" THEN {}
    ELSE Prefixes \X (IF "id" \in DOMAIN op THEN {op.id} ELSE Ids)

Unnamed == [k \in {"managed_by"} |-> "nasty-csi"]

InitSubvols ==
    LET all == {<<>>, Unnamed} \cup {VolumeProperties(p) : p \in ParamsSet}
    IN  UNION {[L -> all] : L \in SUBSET Locs}

SubvolsOK(subvols) ==
    /\ DOMAIN subvols \subseteq Locs
    /\ \A l \in DOMAIN subvols : /\ DOMAIN subvols[l] \subseteq Keys
                                /\ Range(subvols[l]) \subseteq Texts

TypeOK ==
    /\ SubvolsOK(storage.subvols) /\ SubvolsOK(held)
    /\ storage.snaps \cup storage.shares \subseteq Locs
    /\ storage.subsystems \subseteq Prefixes \X Ids
    /\ changes \in 0 .. MaxChanges
    /\ op \in Ops
    /\ step \in {"subvolumes", "snapshots", "managed", "shares", "name",
                 "dataset", "target", "fallback", "done"}
    /\ todo \subseteq Filesystems
    /\ \A r \in rows : r.loc \in Locs
    /\ answer \in {"none", "ok", "error", "notFound"}
    /\ past \in Seq(Past) /\ storage \in Past

Init ==
    /\ op \in Ops
    /\ \E subvols \in InitSubvols,
          snaps \in SUBSET SnapPaths, shares \in SUBSET SharePaths,
          subsystems \in SUBSET Subsystems :
         storage = [subvols |-> subvols, snaps |-> snaps, shares |-> shares,
                    subsystems |-> subsystems]
    /\ changes = 0
    /\ step = IF op.kind = "details" THEN "name" ELSE "subvolumes"
    /\ held = <<>> /\ todo = {} /\ rows = {}
    /\ answer = "none"
    /\ failed = {} /\ past = <<storage>>

Fails == failed' = failed \cup {step}

Answer(a) == step' = "done" /\ answer' = a

Continue(s) == step' = s /\ UNCHANGED answer

(* FindManagedVolumes, a single call. *)
FindManagedVolumes ==
    /\ op.kind = "volumes" /\ step = "subvolumes"
    /\ \/ /\ rows' = FilterByClusterID(
                        ExtractVolumes(FindManagedSubvolumes(storage, None)),
                        op.cluster)
          /\ Answer("ok") /\ UNCHANGED failed
       \/ Fails /\ Answer("error") /\ UNCHANGED rows
    /\ UNCHANGED <<storageVars, op, held, todo>>

(* FindManagedSnapshots: the subvolumes whose snapshots are looked for. *)
ReadManagedSubvols ==
    /\ op.kind = "snapshots" /\ step = "subvolumes"
    /\ \/ /\ held' = ManagedSubvols(storage, op.cluster)
          /\ todo' = {l[1] : l \in DOMAIN held'}
          /\ Continue("snapshots") /\ UNCHANGED failed
       \/ Fails /\ Answer("error") /\ UNCHANGED <<held, todo>>
    /\ UNCHANGED <<storageVars, op, rows>>

(* The snapshots of one filesystem, those of held subvolumes being shown.  *)
RowsOf(fs) ==
    UNION {{[loc |-> s, source |-> held[l]["csi_volume_name"]] :
              l \in {k \in DOMAIN held : SameSubvolume(s, k)}} :
           s \in {t \in storage.snaps : t[1] = fs}}

(* A mutant: a filesystem that cannot be listed is left out. *)
SnapshotErrorIgnored ==
    /\ step = "snapshots"
    /\ \E fs \in todo :
         /\ todo' = todo \ {fs}
         /\ \/ rows' = rows \cup RowsOf(fs) /\ UNCHANGED failed
            \/ Fails /\ UNCHANGED rows
    /\ UNCHANGED <<storageVars, op, step, held, answer>>

(* The loop over the filesystems, in any order. *)
ListSnapshots ==
    /\ step = "snapshots"
    /\ \E fs \in todo :
         \/ /\ rows' = rows \cup RowsOf(fs) /\ todo' = todo \ {fs}
            /\ UNCHANGED <<step, answer, failed>>
         \/ Fails /\ Answer("error") /\ rows' = {} /\ UNCHANGED todo
    /\ UNCHANGED <<storageVars, op, held>>

SnapshotsListed ==
    /\ step = "snapshots" /\ todo = {}
    /\ Answer("ok")
    /\ UNCHANGED <<storageVars, op, held, todo, rows, failed>>

(* FindUnmanagedVolumes: all subvolumes, then without the managed ones, if *)
(* the call that lists these succeeds, then with their NFS shares.         *)
ReadAllSubvols ==
    /\ op.kind = "unmanaged" /\ step = "subvolumes"
    /\ \/ /\ held' = ListAllSubvolumes(storage, op.fs)
          /\ Continue("managed") /\ UNCHANGED failed
       \/ Fails /\ Answer("error") /\ UNCHANGED held
    /\ UNCHANGED <<storageVars, op, todo, rows>>

(* A mutant: only managed volumes with a CSI volume name are left out. *)
DropNamed ==
    /\ step = "managed" /\ Continue("shares")
    /\ \/ /\ held' = Restrict(held, DOMAIN held \
                                      DOMAIN ManagedSubvols(storage, None))
          /\ UNCHANGED failed
       \/ Fails /\ UNCHANGED held
    /\ UNCHANGED <<storageVars, op, todo, rows>>

DropManaged ==
    /\ step = "managed" /\ Continue("shares")
    /\ \/ /\ held' = Restrict(held,
                 {l \in DOMAIN held :
                    \A k \in DOMAIN FindManagedSubvolumes(storage, op.fs) :
                       ~SameSubvolume(l, k)})
          /\ UNCHANGED failed
       \/ Fails /\ UNCHANGED held
    /\ UNCHANGED <<storageVars, op, todo, rows>>

ShowUnmanaged ==
    /\ step = "shares"
    /\ \/ /\ rows' = {[loc |-> l, shared |-> l \in storage.shares] :
                        l \in DOMAIN held}
          /\ UNCHANGED failed
       \/ /\ rows' = {[loc |-> l, shared |-> FALSE] : l \in DOMAIN held}
          /\ Fails
    /\ Answer("ok")
    /\ UNCHANGED <<storageVars, op, held, todo>>

(* GetVolumeDetails: the subvolume it describes is found; its share or     *)
(* target, if it has one, is looked for next.                              *)
Found(l) ==
    /\ held' = [k \in {l} |-> storage.subvols[l]]
    /\ rows' = {[loc |-> l, target |-> FALSE]}
    /\ IF HasLookup(storage.subvols[l]) THEN Continue("target")
                                        ELSE Answer("ok")

NotFoundYet == Continue("dataset") /\ UNCHANGED <<held, rows>>

(* FindSubvolumeByCSIVolumeName, the first of several; a reference that is *)
(* a dataset is no subvolume's name.  Any error leads to the next lookup.  *)
LookupByName ==
    /\ step = "name"
    /\ LET named == IF "id" \in DOMAIN op
                    THEN DOMAIN FindSubvolumesByProperty(
                             storage, "csi_volume_name", op.id, None)
                    ELSE {}
       IN  \/ \E l \in named : Found(l) /\ UNCHANGED failed
           \/ named = {} /\ NotFoundYet /\ UNCHANGED failed
           \/ NotFoundYet /\ Fails
    /\ UNCHANGED <<storageVars, op, todo>>

(* A mutant: the error of the second lookup is taken for an empty list. *)
DatasetErrorIgnored ==
    /\ step = "dataset"
    /\ LET there == IF "loc" \in DOMAIN op
                    THEN {op.loc} \cap
                         DOMAIN FindManagedSubvolumes(storage, None)
                    ELSE {}
       IN  \/ \E l \in there : Found(l) /\ UNCHANGED failed
           \/ /\ there = {} /\ Answer("notFound")
              /\ UNCHANGED <<held, rows, failed>>
           \/ Fails /\ Answer("notFound") /\ UNCHANGED <<held, rows>>
    /\ UNCHANGED <<storageVars, op, todo>>

LookupByDataset ==
    /\ step = "dataset"
    /\ LET there == IF "loc" \in DOMAIN op
                    THEN {l \in DOMAIN FindManagedSubvolumes(storage, None) :
                            SameSubvolume(l, op.loc)}
                    ELSE {}
       IN  \/ \E l \in there : Found(l) /\ UNCHANGED failed
           \/ /\ there = {} /\ Answer("notFound")
              /\ UNCHANGED <<held, rows, failed>>
           \/ Fails /\ Answer("error") /\ UNCHANGED <<held, rows>>
    /\ UNCHANGED <<storageVars, op, todo>>

TheVolume == CHOOSE l \in DOMAIN held : TRUE
NameHeld  == Prop(held[TheVolume], "csi_volume_name")

Shown(found) == rows' = {[loc |-> TheVolume, target |-> found]}

(* getNFSShareDetails and getSMBShareDetails; an error is no target.       *)
LookupShare ==
    /\ step = "target" /\ Prop(held[TheVolume], "protocol") = "nfs"
    /\ \/ Shown(TheVolume \in storage.shares) /\ UNCHANGED failed
       \/ Fails /\ UNCHANGED rows
    /\ Answer("ok")
    /\ UNCHANGED <<storageVars, op, held, todo>>

(* getNVMeOFSubsystemDetails and getISCSITargetDetails scan a list, ...    *)
LookupTarget ==
    /\ step = "target" /\ Prop(held[TheVolume], "protocol") = "nvmeof"
    /\ LET found == OfName(storage, NameHeld) # {}
       IN  \/ found /\ Shown(TRUE) /\ Answer("ok") /\ UNCHANGED failed
           \/ ~found /\ Continue("fallback") /\ UNCHANGED <<rows, failed>>
           \/ Fails /\ Answer("ok") /\ UNCHANGED rows
    /\ UNCHANGED <<storageVars, op, held, todo>>

(* ... and read it once more for the exact name.                           *)
LookupExactTarget ==
    /\ step = "fallback"
    /\ \/ /\ Shown(OfDefaultPrefix(storage, NameHeld) # {})
          /\ UNCHANGED failed
       \/ Fails /\ UNCHANGED rows
    /\ Answer("ok")
    /\ UNCHANGED <<storageVars, op, held, todo>>

QueryStep == \/ FindManagedVolumes
             \/ ReadManagedSubvols \/ ListSnapshots \/ SnapshotsListed
             \/ ReadAllSubvols \/ DropManaged \/ ShowUnmanaged
             \/ LookupByName \/ LookupByDataset
             \/ LookupShare \/ LookupTarget \/ LookupExactTarget

(***************************************************************************)
(* The other clients.                                                      *)
(***************************************************************************)

(* f with the values of g written over its own. *)
Overlaid(f, g) ==
    [x \in DOMAIN f \cup DOMAIN g |-> IF x \in DOMAIN g THEN g[x] ELSE f[x]]

CreateSubvolume(l) ==
    /\ l \notin DOMAIN storage.subvols
    /\ storage' = [storage EXCEPT !.subvols = Overlaid(@, [k \in {l} |-> <<>>])]

DeleteSubvolume(l) ==
    /\ l \in DOMAIN storage.subvols
    /\ storage' = [storage EXCEPT !.subvols = Restrict(@, DOMAIN @ \ {l})]

(* Properties that are not among the new ones keep their values.           *)
SetSubvolumeProperties(l, props) ==
    /\ l \in DOMAIN storage.subvols
    /\ storage' = [storage EXCEPT !.subvols[l] = Overlaid(@, props)]

RemoveSubvolumeProperties(l, key) ==
    /\ l \in DOMAIN storage.subvols /\ key \in DOMAIN storage.subvols[l]
    /\ storage' = [storage EXCEPT !.subvols[l] = Restrict(@, DOMAIN @ \ {key})]

Toggled(set, x) == IF x \in set THEN set \ {x} ELSE set \cup {x}

ChangeSnapshot(l) ==
    /\ l \in SnapPaths
    /\ storage' = [storage EXCEPT !.snaps = Toggled(@, l)]

ChangeShare(l) ==
    /\ l \in SharePaths
    /\ storage' = [storage EXCEPT !.shares = Toggled(@, l)]

ChangeSubsystem(s) ==
    storage' = [storage EXCEPT !.subsystems = Toggled(@, s)]

StorageChanges ==
    /\ answer = "none" /\ changes < MaxChanges
    /\ \/ \E l \in Locs :
            \/ CreateSubvolume(l) \/ DeleteSubvolume(l)
            \/ \E p \in ParamsSet :
                 SetSubvolumeProperties(l, VolumeProperties(p))
            \/ \E key \in Keys : RemoveSubvolumeProperties(l, key)
            \/ ChangeSnapshot(l) \/ ChangeShare(l)
       \/ \E s \in Subsystems : ChangeSubsystem(s)
    /\ changes' = changes + 1
    /\ past' = Append(past, storage')
    /\ UNCHANGED <<op, step, held, todo, rows, answer, failed>>

Done == step = "done" /\ UNCHANGED vars

Next == QueryStep \/ StorageChanges \/ Done

Spec == Init /\ [][Next]_vars

(***************************************************************************)
(* Properties.  A query of several calls shows no single state of the      *)
(* storage; what it shows must have been so at some moment while it ran,   *)
(* and what was so all the time must be shown.                             *)
(***************************************************************************)

(* The volume a subvolume is shown as was its own, and seen by the cluster. *)
Belongs(st, l, id) ==
    \E v \in ExtractVolumes(FindManagedSubvolumes(st, None)) :
        /\ v.loc = l /\ v.id = id
        /\ op.cluster # None => v.cluster \in {None, op.cluster}

(* A snapshot shown by FindManagedSnapshots was there at a moment at which *)
(* its subvolume was the volume it is shown as, one the cluster may see,   *)
(* or had been that volume since the query began: a subvolume that changes *)
(* hands between the two calls is shown as what it was, never as what it   *)
(* was not yet, and never as another of the same name.                     *)
SnapshotsAreReal ==
    op.kind = "snapshots" => \A r \in rows :
        \E i, j \in DOMAIN past :
            /\ i <= j
            /\ Belongs(past[i], r.loc, r.source)
            /\ r.loc \in past[j].snaps

(* A snapshot that is there all the time, of a volume the cluster sees all *)
(* the time, is shown by every call of FindManagedSnapshots that succeeds. *)
SnapshotsAreComplete ==
    (op.kind = "snapshots" /\ answer = "ok") => \A s \in Locs :
        (\A st \in Past :
            s \in st.snaps \cap DOMAIN ManagedSubvols(st, op.cluster))
                => \E r \in rows : r.loc = s

(* FindManagedVolumes, which filters volumes by cluster, shows exactly the *)
(* volumes that FindManagedSnapshots, which filters subvolumes, looks for  *)
(* snapshots of.                                                           *)
VolumesMatchSnapshots ==
    (op.kind = "volumes" /\ answer = "ok") =>
        \E st \in Past : {r.loc : r \in rows}
                           = DOMAIN ManagedSubvols(st, op.cluster)

(* What FindUnmanagedVolumes shows was there and was, at some moment, not  *)
(* a managed subvolume, unless the call that lists these failed.  Volumes  *)
(* that change hands or go away between its calls included.                *)
UnmanagedAreReal ==
    op.kind = "unmanaged" => \A r \in rows :
        /\ \E st \in Past : r.loc \in DOMAIN ListAllSubvolumes(st, op.fs)
        /\ "managed" \notin failed =>
             \E st \in Past :
                r.loc \notin DOMAIN FindManagedSubvolumes(st, None)
        /\ r.shared => \E st \in Past : r.loc \in st.shares

(* A subvolume that is there and unmanaged all the time is shown, with its *)
(* share if that is there all the time and could be listed.                *)
UnmanagedAreComplete ==
    (op.kind = "unmanaged" /\ answer = "ok") => \A l \in Locs :
        (\A st \in Past : /\ l \in DOMAIN ListAllSubvolumes(st, op.fs)
                          /\ ~ManagedBy(st.subvols[l]))
            => \E r \in rows :
                 /\ r.loc = l
                 /\ (/\ "shares" \notin failed
                     /\ \A st \in Past : l \in st.shares) => r.shared

(* The subvolume meant by GetVolumeDetails' reference. *)
Means(st, l) ==
    /\ l \in DOMAIN st.subvols
    /\ IF "id" \in DOMAIN op
       THEN Prop(st.subvols[l], "csi_volume_name") = op.id
       ELSE l = op.loc /\ ManagedBy(st.subvols[l])

(* GetVolumeDetails describes one subvolume, which the reference meant.    *)
DetailsAreOfReference ==
    (op.kind = "details" /\ answer = "ok") =>
        \E l \in Locs : /\ {r.loc : r \in rows} = {l}
                        /\ \E st \in Past : Means(st, l)

(* "volume not found" is said only of a reference that meant nothing at    *)
(* some moment, unless the lookup by name failed.                          *)
NotFoundIsTrue ==
    answer = "notFound" =>
        \/ "id" \in DOMAIN op /\ "name" \in failed
        \/ \E st \in Past : \A l \in Locs : ~Means(st, l)

HasTarget(st, l) ==
    IF Prop(held[l], "protocol") = "nfs" THEN l \in st.shares
    ELSE \E p \in Prefixes :
           <<p, Prop(held[l], "csi_volume_name")>> \in st.subsystems

(* The share or target in the details was there at some moment, and none   *)
(* is missing that was there all the time, unless a lookup of it failed.   *)
TargetsAreReal ==
    (op.kind = "details" /\ answer = "ok") =>
        \A r \in rows : HasLookup(held[r.loc]) =>
            IF r.target THEN \E st \in Past : HasTarget(st, r.loc)
            ELSE \/ failed \cap {"target", "fallback"} # {}
                 \/ \E st \in Past : ~HasTarget(st, r.loc)
=============================================================================
