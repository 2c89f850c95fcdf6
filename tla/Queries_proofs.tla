--------------------------- MODULE Queries_proofs ---------------------------
(***************************************************************************)
(* Theorems about the dashboard's queries, for every storage, however      *)
(* large, and every number of changes while a query runs.                  *)
(***************************************************************************)
EXTENDS Queries, TLAPS

(***************************************************************************)
(* The invariant.  What a query holds on to between two calls is tied to a *)
(* state of the storage while it ran.                                      *)
(***************************************************************************)

IsStorage(st) ==
    /\ st = [subvols |-> st.subvols, snaps |-> st.snaps,
             shares |-> st.shares, subsystems |-> st.subsystems]
    /\ SubvolsOK(st.subvols)
    /\ st.snaps \subseteq Locs /\ st.shares \subseteq Locs
    /\ st.subsystems \subseteq Prefixes \X Ids

(* Each call belongs to one query, and nothing is shown too early. *)
StepInv ==
    /\ answer = "none" <=> step # "done"
    /\ answer = "notFound" => op.kind = "details"
    /\ step = "subvolumes" =>
         op.kind \in {"volumes", "snapshots", "unmanaged"} /\ rows = {}
    /\ step = "snapshots" => op.kind = "snapshots"
    /\ step \in {"managed", "shares"} => op.kind = "unmanaged" /\ rows = {}
    /\ step \in {"name", "dataset"} => op.kind = "details" /\ rows = {}
    /\ step \in {"target", "fallback"} => op.kind = "details"

(* The last moment is the present one. *)
PastInv == storage = past[Len(past)]

(* A managed subvolume was the CSI volume source, visible to the cluster. *)
WasVolume(l, source) == \E i \in DOMAIN past : Belongs(past[i], l, source)

(* Between the listings of FindManagedSnapshots. *)
SnapshotInv ==
    step = "snapshots" =>
        /\ \A l \in DOMAIN held : WasVolume(l, held[l]["csi_volume_name"])
        /\ \E st \in Past : DOMAIN held = DOMAIN ManagedSubvols(st, op.cluster)
        /\ \A s \in DOMAIN held : \/ s[1] \in todo
                                  \/ \E st \in Past : s \notin st.snaps
                                  \/ \E r \in rows : r.loc = s

(* The subvolume is there, in the filesystem asked for. *)
There(st, l) == l \in DOMAIN ListAllSubvolumes(st, op.fs)

(* Between the calls of FindUnmanagedVolumes. *)
UnmanagedInv ==
    step \in {"managed", "shares"} =>
        /\ \A l \in DOMAIN held : \E st \in Past : There(st, l)
        /\ \A l \in Locs \ DOMAIN held : \E st \in Past :
             There(st, l) => ManagedBy(st.subvols[l])
        /\ (step = "shares" /\ "managed" \notin failed) =>
             \A l \in DOMAIN held : \E st \in Past :
                l \notin DOMAIN FindManagedSubvolumes(st, None)

(* GetVolumeDetails goes on to the second lookup of an id only if the      *)
(* first one found nothing or failed.                                      *)
DatasetInv ==
    (step = "dataset" /\ "id" \in DOMAIN op) =>
        "name" \in failed \/ \E st \in Past : \A l \in Locs : ~Means(st, l)

(* Then it holds the one subvolume it describes.                           *)
Describes(l) ==
    /\ DOMAIN held = {l} /\ HasLookup(held[l])
    /\ rows = {[loc |-> l, target |-> FALSE]}
    /\ \E st \in Past : Means(st, l)

TargetInv ==
    /\ step \in {"target", "fallback"} => \E l \in Locs : Describes(l)
    /\ step = "fallback" =>
         /\ Prop(held[TheVolume], "protocol") # "nfs"
         /\ \E st \in Past : OfName(st, NameHeld) = {}

QueriesInv ==
    /\ TypeOK /\ IsStorage(storage) /\ PastInv /\ StepInv
    /\ SnapshotInv /\ SnapshotsAreReal /\ SnapshotsAreComplete
    /\ VolumesMatchSnapshots
    /\ UnmanagedInv /\ UnmanagedAreReal /\ UnmanagedAreComplete
    /\ DatasetInv /\ NotFoundIsTrue
    /\ TargetInv /\ DetailsAreOfReference /\ TargetsAreReal

(***************************************************************************)
(* The operators the queries are built from.                               *)
(***************************************************************************)

(* Which subvolumes are found, and that their properties are as stored.    *)
LEMMA FindManagedDef ==
    ASSUME NEW st, NEW fs
    PROVE  /\ \A l : l \in DOMAIN FindManagedSubvolumes(st, fs) <=>
                    /\ l \in DOMAIN st.subvols
                    /\ ManagedBy(st.subvols[l]) /\ fs \in {None, l[1]}
           /\ \A l \in DOMAIN FindManagedSubvolumes(st, fs) :
                FindManagedSubvolumes(st, fs)[l] = st.subvols[l]
BY DEF FindManagedSubvolumes, FindSubvolumesByProperty, Restrict, ManagedBy

LEMMA ListAllDef ==
    ASSUME NEW st, NEW fs
    PROVE  /\ \A l : l \in DOMAIN ListAllSubvolumes(st, fs) <=>
                    l \in DOMAIN st.subvols /\ fs \in {None, l[1]}
           /\ \A l \in DOMAIN ListAllSubvolumes(st, fs) :
                ListAllSubvolumes(st, fs)[l] = st.subvols[l]
BY DEF ListAllSubvolumes, Restrict

(* The cluster may see a subvolume with these properties. *)
Visible(sv, cluster) ==
    cluster = None \/ Prop(sv, "cluster_id") \in {None, cluster}

LEMMA ManagedSubvolsDef ==
    ASSUME NEW st, NEW cluster
    PROVE  /\ \A l : l \in DOMAIN ManagedSubvols(st, cluster) <=>
                    /\ l \in DOMAIN st.subvols
                    /\ ManagedBy(st.subvols[l])
                    /\ Visible(st.subvols[l], cluster)
                    /\ Prop(st.subvols[l], "csi_volume_name") # None
           /\ \A l \in DOMAIN ManagedSubvols(st, cluster) :
                ManagedSubvols(st, cluster)[l] = st.subvols[l]
<1> DEFINE A    == FindManagedSubvolumes(st, None)
           seen == FilterSubvolumesByClusterID(A, cluster)
<1>1. /\ \A l : l \in DOMAIN A <=> /\ l \in DOMAIN st.subvols
                                  /\ ManagedBy(st.subvols[l])
      /\ \A l \in DOMAIN A : A[l] = st.subvols[l]
  BY FindManagedDef
<1>2. /\ DOMAIN seen = {l \in DOMAIN A : Visible(A[l], cluster)}
      /\ \A l \in DOMAIN seen : seen[l] = A[l]
  BY DEF FilterSubvolumesByClusterID, Restrict, Visible
<1>3. ManagedSubvols(st, cluster) =
        Restrict(seen, {l \in DOMAIN seen :
                          Prop(seen[l], "csi_volume_name") # None})
  BY DEF ManagedSubvols
<1>. HIDE DEF A, seen
<1>. QED
  BY <1>1, <1>2, <1>3 DEF Restrict

(* The volumes shown are the managed subvolumes with a CSI volume name.    *)
LEMMA ExtractedVolume ==
    ASSUME NEW st, NEW l \in DOMAIN st.subvols, ManagedBy(st.subvols[l]),
           Prop(st.subvols[l], "csi_volume_name") # None
    PROVE  \E v \in ExtractVolumes(FindManagedSubvolumes(st, None)) :
             /\ v.loc = l /\ v.id = st.subvols[l]["csi_volume_name"]
             /\ v.cluster = Prop(st.subvols[l], "cluster_id")
<1> DEFINE A == FindManagedSubvolumes(st, None)
<1>1. l \in DOMAIN A /\ A[l] = st.subvols[l]
  BY FindManagedDef
<1>. HIDE DEF A
<1> DEFINE v == [loc |-> l, id |-> A[l]["csi_volume_name"],
                 cluster |-> Prop(A[l], "cluster_id")]
<1>2. v \in ExtractVolumes(A)
  BY <1>1 DEF ExtractVolumes
<1>. QED
  BY <1>1, <1>2 DEF A

LEMMA RestrictOK ==
    ASSUME NEW f, SubvolsOK(f), NEW S, S \subseteq DOMAIN f
    PROVE  SubvolsOK(Restrict(f, S))
BY DEF SubvolsOK, Restrict

LEMMA PartOK ==
    ASSUME NEW f, SubvolsOK(f), NEW g, DOMAIN g \subseteq DOMAIN f,
           \A l \in DOMAIN g : g[l] = f[l]
    PROVE  SubvolsOK(g)
BY DEF SubvolsOK

(* A reference given to GetVolumeDetails is an id or a place.              *)
LEMMA References ==
    ASSUME op \in Ops, op.kind = "details"
    PROVE  \/ "id" \in DOMAIN op /\ "loc" \notin DOMAIN op /\ op.id \in Ids
           \/ "id" \notin DOMAIN op /\ "loc" \in DOMAIN op /\ op.loc \in Locs
<1>1. CASE op \in [kind : {"details"}, id : Ids]
  BY <1>1
<1>2. CASE op \in [kind : {"details"}, loc : Locs]
  BY <1>2
<1>3. CASE \/ op \in [kind : {"volumes", "snapshots"},
                      cluster : Clusters \cup {None}]
           \/ op \in [kind : {"unmanaged"}, fs : Filesystems \cup {None}]
  BY <1>3
<1>. QED
  BY <1>1, <1>2, <1>3 DEF Ops

(***************************************************************************)
(* Types.                                                                  *)
(***************************************************************************)

PropertiesOK(sv) == DOMAIN sv \subseteq Keys /\ Range(sv) \subseteq Texts

LEMMA VolumePropertiesOK ==
    ASSUME NEW p \in ParamsSet
    PROVE  PropertiesOK(VolumeProperties(p))
<1>1. /\ p.id \in Ids /\ p.protocol \in Protocols
      /\ p.cluster \in Clusters \cup {None}
  <2>1. (CHOOSE x \in Protocols : TRUE) \in Protocols
    BY QueriesAssumption DEF QueriesAssumption
  <2>. QED
    BY <2>1 DEF ParamsSet
<1> DEFINE sv == VolumeProperties(p)
<1>2. /\ DOMAIN sv \subseteq Keys
      /\ "cluster_id" \in DOMAIN sv => p.cluster # None
      /\ \A k \in DOMAIN sv :
           sv[k] = CASE k = "managed_by"      -> "nasty-csi"
                     [] k = "csi_volume_name" -> p.id
                     [] k = "protocol"        -> p.protocol
                     [] k = "cluster_id"      -> p.cluster
  BY DEF VolumeProperties, Keys
<1>3. \A k \in DOMAIN sv : sv[k] \in Texts
  <2> SUFFICES ASSUME NEW k \in DOMAIN sv PROVE sv[k] \in Texts
    OBVIOUS
  <2>. HIDE DEF sv
  <2>1. k \in {"managed_by", "csi_volume_name", "protocol", "cluster_id"}
    BY <1>2 DEF Keys
  <2>2. CASE k = "managed_by"
    BY <1>2, <2>2 DEF Texts
  <2>3. CASE k = "csi_volume_name"
    BY <1>1, <1>2, <2>3 DEF Texts
  <2>4. CASE k = "protocol"
    BY <1>1, <1>2, <2>4 DEF Texts
  <2>5. CASE k = "cluster_id"
    BY <1>1, <1>2, <2>5 DEF Texts
  <2>. QED
    BY <2>1, <2>2, <2>3, <2>4, <2>5
<1>. HIDE DEF sv
<1>4. PropertiesOK(sv)
  BY <1>2, <1>3 DEF PropertiesOK, Range
<1>. QED
  BY <1>4 DEF sv

LEMMA OverlaidOK ==
    ASSUME NEW f, PropertiesOK(f), NEW g, PropertiesOK(g)
    PROVE  PropertiesOK(Overlaid(f, g))
BY DEF PropertiesOK, Overlaid, Range

(* What the other clients do leaves a storage of the same kind.            *)
LEMMA StorageStep ==
    ASSUME op \in Ops, IsStorage(storage), StorageChanges
    PROVE  IsStorage(storage')
<1> DEFINE sub == storage.subvols
<1>. /\ storage = [subvols |-> sub, snaps |-> storage.snaps,
                   shares |-> storage.shares,
                   subsystems |-> storage.subsystems]
     /\ DOMAIN sub \subseteq Locs
     /\ \A l \in DOMAIN sub : PropertiesOK(sub[l])
  BY DEF IsStorage, SubvolsOK, PropertiesOK
<1>1. ASSUME NEW f, storage' = [storage EXCEPT !.subvols = f], SubvolsOK(f)
      PROVE  IsStorage(storage')
  BY <1>1 DEF IsStorage
<1>2. ASSUME NEW l \in Locs, CreateSubvolume(l) PROVE IsStorage(storage')
  <2> DEFINE f == Overlaid(sub, [k \in {l} |-> <<>>])
  <2>1. PropertiesOK(<<>>)
    BY DEF PropertiesOK, Range
  <2>2. /\ DOMAIN f = DOMAIN sub \cup {l}
        /\ \A k \in DOMAIN f : f[k] = <<>> \/ (k \in DOMAIN sub /\ f[k] = sub[k])
    BY DEF Overlaid
  <2>. HIDE DEF f
  <2>3. SubvolsOK(f)
    BY <2>1, <2>2 DEF SubvolsOK, PropertiesOK
  <2>. QED
    BY <1>1, <1>2, <2>3 DEF CreateSubvolume, f
<1>3. ASSUME NEW l \in Locs, DeleteSubvolume(l) PROVE IsStorage(storage')
  BY <1>1, <1>3, RestrictOK DEF DeleteSubvolume, IsStorage
<1>4. ASSUME NEW l \in Locs, NEW sv, PropertiesOK(sv),
             storage' = [storage EXCEPT !.subvols[l] = sv]
      PROVE  IsStorage(storage')
  <2> DEFINE f == [sub EXCEPT ![l] = sv]
  <2>1. SubvolsOK(f)
    BY <1>4 DEF SubvolsOK, PropertiesOK
  <2>. QED
    BY <1>1, <1>4, <2>1
<1>5. ASSUME NEW l \in Locs, NEW p \in ParamsSet,
             SetSubvolumeProperties(l, VolumeProperties(p))
      PROVE  IsStorage(storage')
  <2>1. PropertiesOK(Overlaid(sub[l], VolumeProperties(p)))
    BY <1>5, VolumePropertiesOK, OverlaidOK DEF SetSubvolumeProperties
  <2>. QED
    BY <1>4, <1>5, <2>1 DEF SetSubvolumeProperties
<1>6. ASSUME NEW l \in Locs, NEW key \in Keys, RemoveSubvolumeProperties(l, key)
      PROVE  IsStorage(storage')
  <2>1. PropertiesOK(Restrict(sub[l], DOMAIN sub[l] \ {key}))
    BY <1>6 DEF RemoveSubvolumeProperties, PropertiesOK, Restrict, Range
  <2>. QED
    BY <1>4, <1>6, <2>1 DEF RemoveSubvolumeProperties
<1>7. ASSUME NEW l \in Locs, ChangeSnapshot(l) \/ ChangeShare(l)
      PROVE  IsStorage(storage')
  BY <1>7 DEF ChangeSnapshot, ChangeShare, Toggled, IsStorage
<1>8. ASSUME NEW s \in Subsystems, ChangeSubsystem(s)
      PROVE  IsStorage(storage')
  <2>1. s \in Prefixes \X Ids
    BY References DEF Subsystems
  <2>. QED
    BY <1>8, <2>1 DEF ChangeSubsystem, Toggled, IsStorage
<1>. QED
  BY <1>2, <1>3, <1>5, <1>6, <1>7, <1>8 DEF StorageChanges

(***************************************************************************)
(* The initial states, and what every step keeps.                          *)
(***************************************************************************)

LEMMA InitStorage ==
    ASSUME Init
    PROVE  IsStorage(storage)
<1> DEFINE all == {<<>>, Unnamed} \cup {VolumeProperties(p) : p \in ParamsSet}
<1>1. PropertiesOK(<<>>) /\ PropertiesOK(Unnamed)
  BY DEF PropertiesOK, Range, Unnamed, Keys, Texts
<1>2. \A sv \in all : PropertiesOK(sv)
  BY <1>1, VolumePropertiesOK
<1>3. storage.subvols \in UNION {[L -> all] : L \in SUBSET Locs}
  BY DEF Init, InitSubvols
<1>. HIDE DEF all
<1>4. PICK L \in SUBSET Locs : storage.subvols \in [L -> all]
  BY <1>3
<1>5. SubvolsOK(storage.subvols)
  BY <1>2, <1>4 DEF SubvolsOK, PropertiesOK
<1>6. SnapPaths \subseteq Locs
  BY DEF SnapPaths
<1>7. SharePaths \subseteq Locs
  <2>1. CASE op.kind = "details"
    BY <2>1, References DEF SharePaths, Init
  <2>2. CASE op.kind # "details"
    <3>1. "id" \notin DOMAIN op /\ "loc" \notin DOMAIN op
      BY <2>2 DEF Init, Ops
    <3>. QED
      BY <3>1 DEF SharePaths
  <2>. QED
    BY <2>1, <2>2
<1>8. Subsystems \subseteq Prefixes \X Ids
  BY References DEF Subsystems, Init
<1>. QED
  BY <1>5, <1>6, <1>7, <1>8 DEF Init, IsStorage

LEMMA QueriesInit ==
    ASSUME Init
    PROVE  QueriesInv
<1>1. IsStorage(storage)
  BY InitStorage
<1>2. /\ op \in Ops /\ changes = 0 /\ held = <<>> /\ todo = {} /\ rows = {}
      /\ answer = "none" /\ failed = {} /\ past = <<storage>>
      /\ step = IF op.kind = "details" THEN "name" ELSE "subvolumes"
  BY DEF Init
<1>3. op.kind \in {"volumes", "snapshots", "unmanaged", "details"}
  BY <1>2 DEF Ops
<1>4. TypeOK /\ PastInv
  <2>1. Past = {storage} /\ Len(past) = 1 /\ past[1] = storage
    BY <1>2 DEF Past, Range
  <2>2. past \in Seq(Past) /\ storage \in Past
    BY <1>2, <2>1
  <2>. QED
    BY <1>1, <1>2, <2>1, <2>2, QueriesAssumption
       DEF TypeOK, IsStorage, SubvolsOK, QueriesAssumption, PastInv
<1>5. StepInv
  BY <1>2, <1>3 DEF StepInv
<1>6. SnapshotInv /\ UnmanagedInv /\ DatasetInv /\ TargetInv
  BY <1>2 DEF SnapshotInv, UnmanagedInv, DatasetInv, TargetInv
<1>7. /\ SnapshotsAreReal /\ SnapshotsAreComplete /\ VolumesMatchSnapshots
      /\ UnmanagedAreReal /\ UnmanagedAreComplete
      /\ NotFoundIsTrue /\ DetailsAreOfReference /\ TargetsAreReal
  BY <1>2 DEF SnapshotsAreReal, SnapshotsAreComplete, VolumesMatchSnapshots,
              UnmanagedAreReal, UnmanagedAreComplete, NotFoundIsTrue,
              DetailsAreOfReference, TargetsAreReal
<1>. QED
  BY <1>1, <1>4, <1>5, <1>6, <1>7 DEF QueriesInv

(* Past is what past is made of, and a change is its last element. *)
LEMMA PastMoments ==
    ASSUME past \in Seq(Past), storage \in Past
    PROVE  /\ DOMAIN past = 1 .. Len(past) /\ Len(past) \in Nat \ {0}
           /\ \A i \in DOMAIN past : past[i] \in Past
           /\ \A st \in Past : \E i \in DOMAIN past : past[i] = st
<1>1. DOMAIN past = 1 .. Len(past) /\ Len(past) \in Nat
  OBVIOUS
<1>2. \A st \in Past : \E i \in DOMAIN past : past[i] = st
  BY DEF Past, Range
<1>3. \A i \in DOMAIN past : past[i] \in Past
  BY DEF Past, Range
<1>. QED
  BY <1>1, <1>2, <1>3

LEMMA PastGrows ==
    ASSUME past \in Seq(Past), past' = Append(past, storage')
    PROVE  /\ Past' = Past \cup {storage'} /\ past' \in Seq(Past')
           /\ DOMAIN past \subseteq DOMAIN past'
           /\ \A i \in DOMAIN past : past'[i] = past[i]
           /\ past'[Len(past')] = storage'
<1>1. /\ Len(past) \in Nat /\ DOMAIN past = 1 .. Len(past)
      /\ Len(past') = Len(past) + 1 /\ DOMAIN past' = 1 .. Len(past')
      /\ \A i \in DOMAIN past : past'[i] = past[i]
      /\ past'[Len(past')] = storage'
  OBVIOUS
<1>2. \A i \in DOMAIN past' : i \in DOMAIN past \/ i = Len(past')
  BY <1>1
<1>3. Past' = Past \cup {storage'}
  <2>1. Past' = {past'[i] : i \in DOMAIN past'}
    BY DEF Past, Range
  <2>2. Past = {past[i] : i \in DOMAIN past}
    BY DEF Past, Range
  <2>. QED
    BY <1>1, <1>2, <2>1, <2>2
<1>4. past' \in Seq(Past')
  BY <1>3
<1>. QED
  BY <1>1, <1>3, <1>4

(* The storage changes between the query's calls, never during one.        *)
LEMMA CallKeepsStorage ==
    ASSUME QueryStep
    PROVE  UNCHANGED <<storage, changes, past, Past, op>>
BY DEF Past, QueryStep, FindManagedVolumes, ReadManagedSubvols, ListSnapshots,
       SnapshotsListed, ReadAllSubvols, DropManaged, ShowUnmanaged,
       LookupByName, LookupByDataset, LookupShare, LookupTarget,
       LookupExactTarget, storageVars

LEMMA ChangeKeepsQuery ==
    ASSUME StorageChanges, TypeOK
    PROVE  /\ UNCHANGED <<op, step, held, todo, rows, answer, failed>>
           /\ Past \subseteq Past' /\ storage' \in Past'
           /\ past' \in Seq(Past') /\ PastInv'
           /\ DOMAIN past \subseteq DOMAIN past'
           /\ \A i \in DOMAIN past : past'[i] = past[i]
           /\ changes' \in 0 .. MaxChanges
           /\ answer = "none"
<1>1. past \in Seq(Past) /\ past' = Append(past, storage')
  BY DEF StorageChanges, TypeOK
<1>. QED
  BY <1>1, PastGrows, QueriesAssumption
     DEF StorageChanges, TypeOK, QueriesAssumption, PastInv

(* The volume whose details are asked for. *)
LEMMA HeldVolume ==
    ASSUME TargetInv, step \in {"target", "fallback"}
    PROVE  /\ TheVolume \in Locs /\ DOMAIN held = {TheVolume}
           /\ HasLookup(held[TheVolume])
           /\ rows = {[loc |-> TheVolume, target |-> FALSE]}
           /\ \E st \in Past : Means(st, TheVolume)
<1>1. PICK l \in Locs : Describes(l)
  BY DEF TargetInv
<1>2. DOMAIN held = {l}
  BY <1>1 DEF Describes
<1>3. TheVolume = l
  BY <1>2 DEF TheVolume
<1>. QED
  BY <1>1, <1>2, <1>3 DEF Describes

(* Each call is that of one query and is followed by the next of it. *)
LEMMA StepStep ==
    ASSUME TypeOK, StepInv, QueryStep \/ StorageChanges
    PROVE  StepInv'
<1>1. CASE FindManagedVolumes
  BY <1>1 DEF FindManagedVolumes, StepInv, Answer, Fails, storageVars
<1>2. CASE ReadManagedSubvols
  BY <1>2 DEF ReadManagedSubvols, StepInv, Answer, Continue, Fails, storageVars
<1>3. CASE ListSnapshots
  BY <1>3 DEF ListSnapshots, StepInv, Answer, Fails, storageVars
<1>4. CASE SnapshotsListed
  BY <1>4 DEF SnapshotsListed, StepInv, Answer, storageVars
<1>5. CASE ReadAllSubvols
  BY <1>5 DEF ReadAllSubvols, StepInv, Answer, Continue, Fails, storageVars
<1>6. CASE DropManaged
  BY <1>6 DEF DropManaged, StepInv, Continue, Fails, storageVars
<1>7. CASE ShowUnmanaged
  BY <1>7 DEF ShowUnmanaged, StepInv, Answer, Fails, storageVars
<1>8. CASE LookupByName
  BY <1>8 DEF LookupByName, StepInv, Found, NotFoundYet, Answer, Continue,
              Fails, storageVars
<1>9. CASE LookupByDataset
  BY <1>9 DEF LookupByDataset, StepInv, Found, Answer, Continue, Fails,
              storageVars
<1>10. CASE LookupShare
  BY <1>10 DEF LookupShare, StepInv, Answer, Fails, storageVars
<1>11. CASE LookupTarget
  BY <1>11 DEF LookupTarget, StepInv, Answer, Continue, Fails, storageVars
<1>12. CASE LookupExactTarget
  BY <1>12 DEF LookupExactTarget, StepInv, Answer, Fails, storageVars
<1>13. CASE StorageChanges
  BY <1>13, ChangeKeepsQuery DEF StepInv
<1>. QED
  BY <1>1, <1>2, <1>3, <1>4, <1>5, <1>6, <1>7, <1>8, <1>9, <1>10, <1>11,
     <1>12, <1>13 DEF QueryStep

(* The places a volume or a snapshot is shown at. *)
LEMMA ExtractedLocs ==
    ASSUME NEW subvols, NEW cluster,
           NEW r \in FilterByClusterID(ExtractVolumes(subvols), cluster)
    PROVE  r.loc \in DOMAIN subvols
BY DEF FilterByClusterID, ExtractVolumes

LEMMA FoundTypes ==
    ASSUME TypeOK, NEW l \in DOMAIN storage.subvols, Found(l)
    PROVE  /\ SubvolsOK(held') /\ \A r \in rows' : r.loc \in Locs
           /\ step' \in {"target", "done"} /\ answer' \in {answer, "ok"}
<1>1. /\ DOMAIN held' = {l} /\ held'[l] = storage.subvols[l]
      /\ rows' = {[loc |-> l, target |-> FALSE]}
  BY DEF Found
<1>2. SubvolsOK(held')
  BY <1>1, PartOK DEF TypeOK
<1>3. step' \in {"target", "done"} /\ answer' \in {answer, "ok"}
  BY DEF Found, Continue, Answer
<1>. QED
  BY <1>1, <1>2, <1>3 DEF TypeOK, SubvolsOK

LEMMA TypeStep ==
    ASSUME TypeOK, IsStorage(storage), TargetInv, QueryStep
    PROVE  TypeOK'
<1> DEFINE Steps   == {"subvolumes", "snapshots", "managed", "shares", "name",
                       "dataset", "target", "fallback", "done"}
           Answers == {"none", "ok", "error", "notFound"}
<1>1. UNCHANGED <<storage, changes, past, Past, op>>
  BY CallKeepsStorage
<1>2. ASSUME /\ SubvolsOK(held')
             /\ step' \in Steps
             /\ todo' \subseteq Filesystems
             /\ \A r \in rows' : r.loc \in Locs
             /\ answer' \in Answers
      PROVE  TypeOK'
  BY <1>1, <1>2 DEF TypeOK
<1>3. ASSUME TRUE
      PROVE  /\ SubvolsOK(held) /\ step \in Steps /\ todo \subseteq Filesystems
             /\ (\A r \in rows : r.loc \in Locs) /\ answer \in Answers
             /\ DOMAIN storage.subvols \subseteq Locs /\ DOMAIN held \subseteq Locs
  BY DEF TypeOK, SubvolsOK
<1>4. CASE FindManagedVolumes
  <2>1. \A r \in rows' : r.loc \in Locs
    <3>1. SUFFICES ASSUME NEW r \in rows', UNCHANGED failed
                   PROVE  r.loc \in Locs
      BY <1>3, <1>4 DEF FindManagedVolumes
    <3>2. r \in FilterByClusterID(
                   ExtractVolumes(FindManagedSubvolumes(storage, None)),
                   op.cluster) \/ r \in rows
      BY <1>4, <3>1 DEF FindManagedVolumes
    <3>. QED
      BY <1>3, <3>2, ExtractedLocs, FindManagedDef
  <2>. QED
    BY <1>2, <1>3, <1>4, <2>1 DEF FindManagedVolumes, Answer, Fails
<1>5. CASE ReadManagedSubvols
  <2>1. CASE UNCHANGED <<held, todo>>
    BY <1>2, <1>3, <1>5, <2>1 DEF ReadManagedSubvols, Answer, Continue
  <2>2. CASE /\ held' = ManagedSubvols(storage, op.cluster)
             /\ todo' = {l[1] : l \in DOMAIN held'}
             /\ Continue("snapshots")
    <3>1. SubvolsOK(held')
      BY <2>2, ManagedSubvolsDef, PartOK DEF TypeOK
    <3>2. todo' \subseteq Filesystems
      BY <2>2, <3>1 DEF SubvolsOK, Locs
    <3>. QED
      BY <1>2, <1>3, <1>5, <2>2, <3>1, <3>2 DEF ReadManagedSubvols, Continue
  <2>. QED
    BY <1>5, <2>1, <2>2 DEF ReadManagedSubvols
<1>6. CASE ListSnapshots
  <2>1. \A fs : \A r \in RowsOf(fs) : r.loc \in Locs
    BY <1>3 DEF RowsOf, SameSubvolume
  <2>. QED
    BY <1>2, <1>3, <1>6, <2>1 DEF ListSnapshots, Answer, Fails
<1>7. CASE SnapshotsListed
  BY <1>2, <1>3, <1>7 DEF SnapshotsListed, Answer
<1>8. CASE ReadAllSubvols
  <2>1. SubvolsOK(ListAllSubvolumes(storage, op.fs))
    BY ListAllDef, PartOK DEF TypeOK
  <2>. QED
    BY <1>2, <1>3, <1>8, <2>1 DEF ReadAllSubvols, Answer, Continue
<1>9. CASE DropManaged
  <2>1. SubvolsOK(held')
    BY <1>3, <1>9, RestrictOK DEF DropManaged
  <2>. QED
    BY <1>2, <1>3, <1>9, <2>1 DEF DropManaged, Continue
<1>10. CASE ShowUnmanaged
  BY <1>2, <1>3, <1>10 DEF ShowUnmanaged, Answer
<1>11. CASE LookupByName
  <2>1. ASSUME NEW l \in DOMAIN FindSubvolumesByProperty(
                              storage, "csi_volume_name", op.id, None),
               Found(l)
        PROVE  TypeOK'
    <3>1. l \in DOMAIN storage.subvols
      BY <2>1 DEF FindSubvolumesByProperty, Restrict
    <3>. QED
      BY <1>2, <1>3, <1>11, <2>1, <3>1, FoundTypes DEF LookupByName
  <2>2. ASSUME NotFoundYet PROVE TypeOK'
    BY <1>2, <1>3, <1>11, <2>2 DEF LookupByName, NotFoundYet, Continue
  <2>. QED
    BY <1>11, <2>1, <2>2 DEF LookupByName
<1>12. CASE LookupByDataset
  <2>1. ASSUME NEW l \in DOMAIN FindManagedSubvolumes(storage, None), Found(l)
        PROVE  TypeOK'
    <3>1. l \in DOMAIN storage.subvols
      BY <2>1, FindManagedDef
    <3>. QED
      BY <1>2, <1>3, <1>12, <2>1, <3>1, FoundTypes DEF LookupByDataset
  <2>2. ASSUME Answer("notFound") \/ Answer("error"), UNCHANGED <<held, rows>>
        PROVE  TypeOK'
    BY <1>2, <1>3, <1>12, <2>2 DEF LookupByDataset, Answer
  <2>. QED
    BY <1>12, <2>1, <2>2 DEF LookupByDataset
<1>13. CASE LookupShare
  BY <1>2, <1>3, <1>13, HeldVolume DEF LookupShare, Shown, Answer
<1>14. CASE LookupTarget
  BY <1>2, <1>3, <1>14, HeldVolume DEF LookupTarget, Shown, Answer, Continue
<1>15. CASE LookupExactTarget
  BY <1>2, <1>3, <1>15, HeldVolume DEF LookupExactTarget, Shown, Answer
<1>. QED
  BY <1>4, <1>5, <1>6, <1>7, <1>8, <1>9, <1>10, <1>11, <1>12, <1>13, <1>14,
     <1>15 DEF QueryStep

(***************************************************************************)
(* FindManagedVolumes and FindManagedSnapshots.                            *)
(***************************************************************************)

(* A volume the snapshots of which are looked for was a volume. *)
LEMMA ManagedBelongs ==
    ASSUME NEW st, NEW l \in DOMAIN ManagedSubvols(st, op.cluster)
    PROVE  Belongs(st, l, ManagedSubvols(st, op.cluster)[l]["csi_volume_name"])
<1>1. /\ l \in DOMAIN st.subvols /\ ManagedBy(st.subvols[l])
      /\ Visible(st.subvols[l], op.cluster)
      /\ Prop(st.subvols[l], "csi_volume_name") # None
      /\ ManagedSubvols(st, op.cluster)[l] = st.subvols[l]
  BY ManagedSubvolsDef
<1>2. PICK v \in ExtractVolumes(FindManagedSubvolumes(st, None)) :
        /\ v.loc = l /\ v.id = st.subvols[l]["csi_volume_name"]
        /\ v.cluster = Prop(st.subvols[l], "cluster_id")
  BY <1>1, ExtractedVolume
<1>. QED
  BY <1>1, <1>2 DEF Belongs, Visible

(* What was so at a moment stays so. *)
MomentsKept ==
    /\ op' = op /\ DOMAIN past \subseteq DOMAIN past'
    /\ \A i \in DOMAIN past : past'[i] = past[i]

LEMMA WasVolumeKept ==
    ASSUME MomentsKept, NEW l, NEW source, WasVolume(l, source)
    PROVE  WasVolume(l, source)'
<1>1. PICK i \in DOMAIN past : Belongs(past[i], l, source)
  BY DEF WasVolume
<1>2. Belongs(past[i], l, source)'
  BY <1>1 DEF MomentsKept, Belongs
<1>. QED
  BY <1>1, <1>2 DEF MomentsKept, WasVolume

(* A row of SnapshotsAreReal. *)
Real(r) ==
    \E i, j \in DOMAIN past : /\ i <= j
                             /\ Belongs(past[i], r.loc, r.source)
                             /\ r.loc \in past[j].snaps

LEMMA RealKept ==
    ASSUME MomentsKept, NEW r, Real(r)
    PROVE  Real(r)'
<1>1. PICK i, j \in DOMAIN past : /\ i <= j
                                 /\ Belongs(past[i], r.loc, r.source)
                                 /\ r.loc \in past[j].snaps
  BY DEF Real
<1>2. Belongs(past[i], r.loc, r.source)' /\ past'[j] = past[j]
  BY <1>1 DEF MomentsKept, Belongs
<1>. QED
  BY <1>1, <1>2 DEF MomentsKept, Real

LEMMA RealRows ==
    ASSUME SnapshotsAreReal, MomentsKept, rows' \subseteq rows
    PROVE  SnapshotsAreReal'
<1>1. op.kind = "snapshots" => \A r \in rows : Real(r)'
  BY RealKept DEF SnapshotsAreReal, Real
<1>. QED
  BY <1>1 DEF SnapshotsAreReal, Real, MomentsKept

SnapshotPart == SnapshotInv /\ SnapshotsAreReal /\ SnapshotsAreComplete

LEMMA SnapshotStep ==
    ASSUME TypeOK, PastInv, StepInv, StepInv', SnapshotPart,
           QueryStep \/ StorageChanges
    PROVE  SnapshotPart'
<1>. MomentsKept
  BY CallKeepsStorage, ChangeKeepsQuery DEF MomentsKept
<1>. /\ DOMAIN past = 1 .. Len(past) /\ Len(past) \in DOMAIN past
     /\ Len(past) \in Nat
  BY PastMoments DEF TypeOK
<1>1. CASE op.kind # "snapshots"
  <2>1. op' = op
    BY CallKeepsStorage, ChangeKeepsQuery
  <2>2. step' # "snapshots"
    BY <1>1, <2>1 DEF StepInv
  <2>. QED
    BY <1>1, <2>1, <2>2
       DEF SnapshotPart, SnapshotInv, SnapshotsAreReal, SnapshotsAreComplete
<1>2. CASE StorageChanges
  <2>1. SnapshotsAreReal'
    BY <1>2, ChangeKeepsQuery, RealRows DEF SnapshotPart
  <2>2. /\ UNCHANGED <<op, step, held, todo, rows, answer>>
        /\ Past \subseteq Past' /\ answer = "none"
    BY <1>2, ChangeKeepsQuery
  <2>3. SnapshotInv'
    BY <2>2, WasVolumeKept DEF SnapshotPart, SnapshotInv
  <2>. QED
    BY <2>1, <2>2, <2>3 DEF SnapshotPart, SnapshotsAreComplete
<1>3. ASSUME op.kind = "snapshots", ReadManagedSubvols
      PROVE  SnapshotPart'
  <2>1. /\ rows' = {} /\ UNCHANGED <<past, Past, op>> /\ storage \in Past
        /\ storage = past[Len(past)]
    BY <1>3 DEF ReadManagedSubvols, StepInv, storageVars, TypeOK, Past, PastInv
  <2>2. CASE Answer("error")
    BY <2>1, <2>2 DEF Answer, SnapshotPart, SnapshotInv, SnapshotsAreReal,
                      SnapshotsAreComplete
  <2>3. CASE /\ held' = ManagedSubvols(storage, op.cluster)
             /\ todo' = {l[1] : l \in DOMAIN held'}
             /\ Continue("snapshots")
    <3>1. answer' = "none"
      BY <1>3, <2>3 DEF ReadManagedSubvols, Continue, StepInv
    <3>2. \A l \in DOMAIN held' : WasVolume(l, held'[l]["csi_volume_name"])
      BY <2>1, <2>3, ManagedBelongs DEF WasVolume
    <3>3. (\A l \in DOMAIN held : WasVolume(l, held[l]["csi_volume_name"]))'
      BY <3>2, WasVolumeKept
    <3>4. SnapshotInv'
      BY <2>1, <2>3, <3>3 DEF SnapshotInv
    <3>. QED
      BY <2>1, <3>1, <3>4
         DEF SnapshotPart, SnapshotsAreReal, SnapshotsAreComplete
  <2>. QED
    BY <1>3, <2>2, <2>3 DEF ReadManagedSubvols
<1>4. ASSUME NEW fs \in todo, step = "snapshots",
             rows' = rows \cup RowsOf(fs), todo' = todo \ {fs},
             UNCHANGED <<storageVars, op, held, step, answer>>
      PROVE  SnapshotPart'
  <2>1. /\ storage \in Past /\ answer' = "none" /\ UNCHANGED Past
        /\ storage = past[Len(past)]
    BY <1>4 DEF TypeOK, StepInv, storageVars, Past, PastInv
  <2>2. ASSUME NEW r \in RowsOf(fs)
        PROVE  r.loc \in storage.snaps /\ WasVolume(r.loc, r.source)
    <3>1. PICK s \in storage.snaps : s \in DOMAIN held
                 /\ r = [loc |-> s, source |-> held[s]["csi_volume_name"]]
      BY DEF RowsOf, SameSubvolume
    <3>. QED
      BY <1>4, <3>1 DEF SnapshotPart, SnapshotInv
  <2>3. SnapshotsAreReal'
    <3>1. ASSUME NEW r \in RowsOf(fs)
          PROVE  Real(r)
      BY <2>1, <2>2, <3>1 DEF WasVolume, Real
    <3>2. \A r \in rows : Real(r)
      BY <1>4 DEF SnapshotPart, SnapshotsAreReal, Real, StepInv
    <3>3. \A r \in rows' : Real(r)'
      BY <1>4, <3>1, <3>2, RealKept
    <3>. QED
      BY <3>3 DEF SnapshotsAreReal, Real
  <2>4. ASSUME NEW s \in DOMAIN held, s[1] = fs, s \in storage.snaps
        PROVE  \E r \in rows' : r.loc = s
    <3> DEFINE r == [loc |-> s, source |-> held[s]["csi_volume_name"]]
    <3>1. r \in RowsOf(fs)
      BY <2>4 DEF RowsOf, SameSubvolume
    <3>. QED
      BY <1>4, <3>1
  <2>5. (\A s \in DOMAIN held : \/ s[1] \in todo
                                \/ \E st \in Past : s \notin st.snaps
                                \/ \E r \in rows : r.loc = s)'
    <3> SUFFICES ASSUME NEW s \in DOMAIN held
                 PROVE  \/ s[1] \in todo'
                        \/ \E st \in Past : s \notin st.snaps
                        \/ \E r \in rows' : r.loc = s
      BY <1>4, <2>1
    <3>1. CASE s[1] = fs
      BY <2>1, <2>4, <3>1
    <3>2. CASE s[1] # fs
      BY <1>4, <3>2 DEF SnapshotPart, SnapshotInv
    <3>. QED
      BY <3>1, <3>2
  <2>6. SnapshotInv'
    BY <1>4, <2>1, <2>5, WasVolumeKept DEF SnapshotPart, SnapshotInv
  <2>. QED
    BY <2>1, <2>3, <2>6 DEF SnapshotPart, SnapshotsAreComplete
<1>5. CASE ListSnapshots
  <2>1. ASSUME Answer("error"), rows' = {}
        PROVE  SnapshotPart'
    BY <2>1 DEF Answer, SnapshotPart, SnapshotInv, SnapshotsAreReal,
                SnapshotsAreComplete
  <2>. QED
    BY <1>4, <1>5, <2>1 DEF ListSnapshots
<1>6. CASE SnapshotsListed
  <2>1. /\ step = "snapshots" /\ todo = {} /\ step' = "done"
        /\ UNCHANGED <<Past, op, held, rows>>
    BY <1>6 DEF SnapshotsListed, Answer, storageVars, Past
  <2>2. \E st \in Past : DOMAIN held = DOMAIN ManagedSubvols(st, op.cluster)
    BY <2>1 DEF SnapshotPart, SnapshotInv
  <2>3. \A s \in DOMAIN held : \/ \E st \in Past : s \notin st.snaps
                               \/ \E r \in rows : r.loc = s
    BY <2>1 DEF SnapshotPart, SnapshotInv
  <2>4. SnapshotsAreComplete'
    BY <2>1, <2>2, <2>3 DEF SnapshotsAreComplete
  <2>. QED
    BY <2>1, <2>4, RealRows DEF SnapshotPart, SnapshotInv
<1>7. CASE op.kind = "snapshots" /\ ~StorageChanges
  <2>1. ReadManagedSubvols \/ ListSnapshots \/ SnapshotsListed
    BY <1>7 DEF QueryStep, FindManagedVolumes, ReadAllSubvols, DropManaged,
                ShowUnmanaged, LookupByName, LookupByDataset, LookupShare,
                LookupTarget, LookupExactTarget, StepInv
  <2>. QED
    BY <1>3, <1>5, <1>6, <1>7, <2>1
<1>. QED
  BY <1>1, <1>2, <1>7

(* Filtering the volumes is filtering the subvolumes. *)
LEMMA SameVolumes ==
    ASSUME NEW st, NEW cluster
    PROVE  {r.loc : r \in FilterByClusterID(
                            ExtractVolumes(FindManagedSubvolumes(st, None)),
                            cluster)}
              = DOMAIN ManagedSubvols(st, cluster)
<1> DEFINE A == FindManagedSubvolumes(st, None)
           E == ExtractVolumes(A)
           F == FilterByClusterID(E, cluster)
<1>1. ASSUME NEW r \in F
      PROVE  r.loc \in DOMAIN ManagedSubvols(st, cluster)
  <2>1. PICK l \in DOMAIN A :
          /\ Prop(A[l], "csi_volume_name") # None
          /\ r = [loc |-> l, id |-> A[l]["csi_volume_name"],
                  cluster |-> Prop(A[l], "cluster_id")]
    BY DEF FilterByClusterID, ExtractVolumes
  <2>2. cluster = None \/ r.cluster \in {None, cluster}
    BY DEF FilterByClusterID
  <2>. QED
    BY <2>1, <2>2, FindManagedDef, ManagedSubvolsDef DEF Visible
<1>2. ASSUME NEW l \in DOMAIN ManagedSubvols(st, cluster)
      PROVE  \E r \in F : r.loc = l
  <2>1. /\ l \in DOMAIN st.subvols /\ ManagedBy(st.subvols[l])
        /\ Visible(st.subvols[l], cluster)
        /\ Prop(st.subvols[l], "csi_volume_name") # None
    BY ManagedSubvolsDef
  <2>2. PICK v \in E : v.loc = l /\ v.cluster = Prop(st.subvols[l], "cluster_id")
    BY <2>1, ExtractedVolume
  <2>. QED
    BY <2>1, <2>2 DEF FilterByClusterID, Visible
<1>. HIDE DEF F
<1>3. {r.loc : r \in F} = DOMAIN ManagedSubvols(st, cluster)
  BY <1>1, <1>2
<1>. QED
  BY <1>3 DEF F

LEMMA VolumesStep ==
    ASSUME TypeOK, StepInv, StepInv', VolumesMatchSnapshots,
           QueryStep \/ StorageChanges
    PROVE  VolumesMatchSnapshots'
<1>1. CASE StorageChanges
  BY <1>1, ChangeKeepsQuery DEF VolumesMatchSnapshots
<1>2. CASE op.kind # "volumes"
  BY <1>2, CallKeepsStorage, ChangeKeepsQuery DEF VolumesMatchSnapshots
<1>3. CASE op.kind = "volumes" /\ QueryStep
  <2>1. FindManagedVolumes
    BY <1>3 DEF QueryStep, StepInv, ReadManagedSubvols, ListSnapshots,
                SnapshotsListed, ReadAllSubvols, DropManaged, ShowUnmanaged,
                LookupByName, LookupByDataset, LookupShare, LookupTarget,
                LookupExactTarget
  <2>2. UNCHANGED <<Past, op>> /\ storage \in Past
    BY <2>1 DEF FindManagedVolumes, storageVars, TypeOK, Past
  <2>3. CASE rows' = FilterByClusterID(
                       ExtractVolumes(FindManagedSubvolumes(storage, None)),
                       op.cluster)
    <3>1. {r.loc : r \in rows'} = DOMAIN ManagedSubvols(storage, op.cluster)
      BY <2>3, SameVolumes
    <3>. QED
      BY <2>2, <3>1 DEF VolumesMatchSnapshots
  <2>4. CASE Answer("error")
    BY <2>4 DEF Answer, VolumesMatchSnapshots
  <2>. QED
    BY <2>1, <2>3, <2>4 DEF FindManagedVolumes
<1>. QED
  BY <1>1, <1>2, <1>3

(***************************************************************************)
(* FindUnmanagedVolumes.                                                   *)
(***************************************************************************)

UnmanagedPart == UnmanagedInv /\ UnmanagedAreReal /\ UnmanagedAreComplete

LEMMA UnmanagedStep ==
    ASSUME TypeOK, StepInv, StepInv', UnmanagedPart, QueryStep \/ StorageChanges
    PROVE  UnmanagedPart'
<1>1. CASE op.kind # "unmanaged"
  <2>1. op' = op
    BY CallKeepsStorage, ChangeKeepsQuery
  <2>2. step' \notin {"managed", "shares"}
    BY <1>1, <2>1 DEF StepInv
  <2>. QED
    BY <1>1, <2>1, <2>2
       DEF UnmanagedPart, UnmanagedInv, UnmanagedAreReal, UnmanagedAreComplete
<1>2. CASE StorageChanges
  BY <1>2, ChangeKeepsQuery
     DEF UnmanagedPart, UnmanagedInv, There, UnmanagedAreReal,
         UnmanagedAreComplete
<1>3. ASSUME rows' = {}, answer' # "ok", UnmanagedInv'
      PROVE  UnmanagedPart'
  BY <1>3 DEF UnmanagedPart, UnmanagedAreReal, UnmanagedAreComplete
<1>4. ASSUME op.kind = "unmanaged", ReadAllSubvols
      PROVE  UnmanagedPart'
  <2>1. rows' = {} /\ answer' # "ok" /\ UNCHANGED <<Past, op>> /\ storage \in Past
    BY <1>4 DEF ReadAllSubvols, StepInv, Answer, Continue, storageVars, TypeOK,
                Past
  <2>2. CASE Answer("error")
    BY <1>3, <2>1, <2>2 DEF Answer, UnmanagedInv
  <2>3. CASE held' = ListAllSubvolumes(storage, op.fs) /\ Continue("managed")
    <3>1. \A l : l \in DOMAIN held' <=> There(storage, l)
      BY <2>3 DEF There
    <3>2. (/\ \A l \in DOMAIN held : \E st \in Past : There(st, l)
           /\ \A l \in Locs \ DOMAIN held : \E st \in Past :
                There(st, l) => ManagedBy(st.subvols[l]))'
      BY <2>1, <3>1 DEF There
    <3>3. UnmanagedInv'
      BY <2>3, <3>2 DEF UnmanagedInv, Continue
    <3>. QED
      BY <1>3, <2>1, <3>3
  <2>. QED
    BY <1>4, <2>2, <2>3 DEF ReadAllSubvols
<1>5. CASE DropManaged
  <2>1. /\ rows' = {} /\ answer' # "ok" /\ step' = "shares"
        /\ UNCHANGED <<Past, op>> /\ storage \in Past /\ step = "managed"
    BY <1>5 DEF DropManaged, StepInv, Continue, storageVars, TypeOK, Past
  <2>2. /\ \A l \in DOMAIN held : \E st \in Past : There(st, l)
        /\ \A l \in Locs \ DOMAIN held : \E st \in Past :
             There(st, l) => ManagedBy(st.subvols[l])
    BY <2>1 DEF UnmanagedPart, UnmanagedInv
  <2>3. CASE "managed" \in failed' /\ held' = held
    <3>1. (/\ \A l \in DOMAIN held : \E st \in Past : There(st, l)
           /\ \A l \in Locs \ DOMAIN held : \E st \in Past :
                There(st, l) => ManagedBy(st.subvols[l]))'
      BY <2>1, <2>2, <2>3 DEF There
    <3>2. UnmanagedInv'
      BY <2>3, <3>1 DEF UnmanagedInv
    <3>. QED
      BY <1>3, <2>1, <3>2
  <2>4. CASE held' = Restrict(held,
                 {l \in DOMAIN held :
                    \A k \in DOMAIN FindManagedSubvolumes(storage, op.fs) :
                       ~SameSubvolume(l, k)})
    <3>1. \A l : l \in DOMAIN held' <=>
             /\ l \in DOMAIN held
             /\ l \notin DOMAIN FindManagedSubvolumes(storage, op.fs)
      BY <2>4 DEF Restrict, SameSubvolume
    <3>2. \A l \in DOMAIN held : op.fs \in {None, l[1]}
      BY <2>2, ListAllDef DEF There
    <3>3. \A l \in DOMAIN held' :
             l \notin DOMAIN FindManagedSubvolumes(storage, None)
      BY <3>1, <3>2, FindManagedDef
    <3>4. \A l \in Locs \ DOMAIN held' : \E st \in Past :
             There(st, l) => ManagedBy(st.subvols[l])
      <4> SUFFICES ASSUME NEW l \in Locs \ DOMAIN held'
                   PROVE  \E st \in Past :
                            There(st, l) => ManagedBy(st.subvols[l])
        OBVIOUS
      <4>1. CASE l \in DOMAIN held
        BY <2>1, <3>1, <4>1, FindManagedDef
      <4>2. CASE l \notin DOMAIN held
        BY <2>2, <4>2
      <4>. QED
        BY <4>1, <4>2
    <3>5. (/\ \A l \in DOMAIN held : \E st \in Past : There(st, l)
           /\ \A l \in Locs \ DOMAIN held : \E st \in Past :
                There(st, l) => ManagedBy(st.subvols[l])
           /\ \A l \in DOMAIN held : \E st \in Past :
                l \notin DOMAIN FindManagedSubvolumes(st, None))'
      BY <2>1, <2>2, <3>1, <3>3, <3>4 DEF There
    <3>6. UnmanagedInv'
      BY <3>5 DEF UnmanagedInv
    <3>. QED
      BY <1>3, <2>1, <3>6
  <2>. QED
    BY <1>5, <2>1, <2>3, <2>4 DEF DropManaged, Fails
<1>6. CASE ShowUnmanaged
  <2>1. /\ step = "shares" /\ step' = "done" /\ failed \subseteq failed'
        /\ UNCHANGED <<Past, op, held>> /\ storage \in Past
        /\ op.kind = "unmanaged"
    BY <1>6 DEF ShowUnmanaged, StepInv, Answer, Fails, storageVars, TypeOK,
                Past
  <2>2. /\ \A r \in rows' :
             /\ r.loc \in DOMAIN held
             /\ r.shared => r.loc \in storage.shares
        /\ \A l \in DOMAIN held : \E r \in rows' :
             /\ r.loc = l
             /\ "shares" \notin failed' /\ l \in storage.shares => r.shared
    <3>1. CASE rows' = {[loc |-> l, shared |-> l \in storage.shares] :
                          l \in DOMAIN held}
      <4>1. \A r \in rows' : r.loc \in DOMAIN held
                              /\ (r.shared => r.loc \in storage.shares)
        <5> SUFFICES ASSUME NEW r \in rows'
                     PROVE  /\ r.loc \in DOMAIN held
                            /\ r.shared => r.loc \in storage.shares
          OBVIOUS
        <5>1. PICK l \in DOMAIN held :
                r = [loc |-> l, shared |-> l \in storage.shares]
          BY <3>1
        <5>2. r.loc = l
          BY <5>1
        <5>3. r.shared = (l \in storage.shares)
          BY <5>1, Zenon
        <5>. QED
          BY <5>2, <5>3
      <4>2. ASSUME NEW l \in DOMAIN held
            PROVE  \E r \in rows' :
                     r.loc = l /\ (l \in storage.shares => r.shared)
        <5> DEFINE r == [loc |-> l, shared |-> l \in storage.shares]
        <5>1. r \in rows'
          BY <3>1
        <5>2. r.loc = l /\ (l \in storage.shares => r.shared)
          OBVIOUS
        <5>. QED
          BY <5>1, <5>2
      <4>. QED
        BY <4>1, <4>2
    <3>2. CASE /\ rows' = {[loc |-> l, shared |-> FALSE] : l \in DOMAIN held}
               /\ Fails
      <4>1. \A r \in rows' : r.loc \in DOMAIN held /\ ~r.shared
        BY <3>2
      <4>2. ASSUME NEW l \in DOMAIN held
            PROVE  \E r \in rows' : r.loc = l
        <5> DEFINE r == [loc |-> l, shared |-> FALSE]
        <5>1. r \in rows' /\ r.loc = l
          BY <3>2
        <5>. QED
          BY <5>1
      <4>. QED
        BY <2>1, <3>2, <4>1, <4>2 DEF Fails
    <3>. QED
      BY <1>6, <3>1, <3>2 DEF ShowUnmanaged
  <2>3. /\ \A l \in DOMAIN held : \E st \in Past : There(st, l)
        /\ \A l \in Locs \ DOMAIN held : \E st \in Past :
             There(st, l) => ManagedBy(st.subvols[l])
        /\ "managed" \notin failed =>
             \A l \in DOMAIN held : \E st \in Past :
                l \notin DOMAIN FindManagedSubvolumes(st, None)
    BY <2>1 DEF UnmanagedPart, UnmanagedInv
  <2>4. UnmanagedAreReal'
    BY <2>1, <2>2, <2>3 DEF UnmanagedAreReal, There
  <2>5. UnmanagedAreComplete'
    <3>1. SUFFICES ASSUME NEW l \in Locs,
                          \A st \in Past :
                             /\ l \in DOMAIN ListAllSubvolumes(st, op.fs)
                             /\ ~ManagedBy(st.subvols[l])
                   PROVE  \E r \in rows' :
                            /\ r.loc = l
                            /\ (/\ "shares" \notin failed'
                                /\ \A st \in Past : l \in st.shares) => r.shared
      BY <2>1 DEF UnmanagedAreComplete
    <3>2. l \in DOMAIN held
      BY <2>3, <3>1 DEF There
    <3>. QED
      BY <2>1, <2>2, <3>2
  <2>. QED
    BY <2>1, <2>4, <2>5 DEF UnmanagedPart, UnmanagedInv
<1>7. CASE op.kind = "unmanaged" /\ ~StorageChanges
  <2>1. ReadAllSubvols \/ DropManaged \/ ShowUnmanaged
    BY <1>7 DEF QueryStep, FindManagedVolumes, ReadManagedSubvols,
                ListSnapshots, SnapshotsListed, LookupByName, LookupByDataset,
                LookupShare, LookupTarget, LookupExactTarget, StepInv
  <2>. QED
    BY <1>4, <1>5, <1>6, <1>7, <2>1
<1>. QED
  BY <1>1, <1>2, <1>7

(***************************************************************************)
(* GetVolumeDetails.                                                       *)
(***************************************************************************)

DetailsPart ==
    /\ DatasetInv /\ TargetInv
    /\ DetailsAreOfReference /\ NotFoundIsTrue /\ TargetsAreReal

(* The lookup that finds the subvolume. *)
LEMMA FoundStep ==
    ASSUME storage \in Past, UNCHANGED <<storage, Past, op>>, answer = "none",
           NEW l \in Locs, Means(storage, l), Found(l)
    PROVE  DetailsPart'
<1>1. /\ DOMAIN held' = {l} /\ held'[l] = storage.subvols[l]
      /\ rows' = {[loc |-> l, target |-> FALSE]}
  BY DEF Found
<1>2. (\E st \in Past : Means(st, l))'
  BY DEF Means
<1>3. CASE HasLookup(storage.subvols[l])
  <2>1. step' = "target" /\ answer' = "none"
    BY <1>3 DEF Found, Continue
  <2>2. Describes(l)'
    BY <1>1, <1>2, <1>3 DEF Describes, HasLookup, Prop
  <2>. QED
    BY <2>1, <2>2 DEF DetailsPart, DatasetInv, TargetInv,
       DetailsAreOfReference, NotFoundIsTrue, TargetsAreReal
<1>4. CASE ~HasLookup(storage.subvols[l])
  <2>1. step' = "done" /\ answer' = "ok"
    BY <1>4 DEF Found, Answer
  <2>2. {r.loc : r \in rows'} = {l}
    BY <1>1
  <2>3. DetailsAreOfReference'
    BY <1>2, <2>2 DEF DetailsAreOfReference
  <2>4. \A r \in rows' : ~HasLookup(held'[r.loc])
    BY <1>1, <1>4 DEF HasLookup, Prop
  <2>5. TargetsAreReal'
    BY <2>4 DEF TargetsAreReal, HasLookup, Prop
  <2>. QED
    BY <2>1, <2>3, <2>5 DEF DetailsPart, DatasetInv, TargetInv, NotFoundIsTrue
<1>. QED
  BY <1>3, <1>4

(* The lookup of its share or target that ends the query. *)
LEMMA TargetStep ==
    ASSUME TargetInv, step \in {"target", "fallback"},
           UNCHANGED <<Past, op, held>>, Answer("ok"),
           NEW found \in BOOLEAN, rows' = {[loc |-> TheVolume, target |-> found]},
           found => \E st \in Past : HasTarget(st, TheVolume),
           ~found => \/ failed' \cap {"target", "fallback"} # {}
                     \/ \E st \in Past : ~HasTarget(st, TheVolume)
    PROVE  DetailsPart'
<1>1. step' = "done" /\ answer' = "ok"
  BY DEF Answer
<1>2. {r.loc : r \in rows'} = {TheVolume}
  OBVIOUS
<1>3. DetailsAreOfReference'
  BY <1>2, HeldVolume DEF DetailsAreOfReference, Means
<1>4. TargetsAreReal'
  BY DEF TargetsAreReal, HasTarget, Prop
<1>. QED
  BY <1>1, <1>3, <1>4 DEF DetailsPart, DatasetInv, TargetInv, NotFoundIsTrue

LEMMA DetailsStep ==
    ASSUME TypeOK, StepInv, StepInv', DetailsPart, QueryStep \/ StorageChanges
    PROVE  DetailsPart'
<1>1. CASE op.kind # "details"
  <2>1. op' = op
    BY CallKeepsStorage, ChangeKeepsQuery
  <2>2. /\ step' \notin {"dataset", "target", "fallback"}
        /\ answer' # "notFound"
    BY <1>1, <2>1 DEF StepInv
  <2>. QED
    BY <1>1, <2>1, <2>2 DEF DetailsPart, DatasetInv, TargetInv,
       DetailsAreOfReference, NotFoundIsTrue, TargetsAreReal
<1>2. CASE StorageChanges
  <2>1. /\ UNCHANGED <<op, step, held, todo, rows, answer, failed>>
        /\ Past \subseteq Past' /\ answer = "none"
    BY <1>2, ChangeKeepsQuery
  <2>2. DatasetInv'
    BY <2>1 DEF DetailsPart, DatasetInv, Means
  <2>3. TargetInv'
    BY <2>1 DEF DetailsPart, TargetInv, Describes, Means, TheVolume, NameHeld
  <2>. QED
    BY <2>1, <2>2, <2>3 DEF DetailsPart, DetailsAreOfReference,
                            NotFoundIsTrue, TargetsAreReal
<1>3. ASSUME QueryStep
      PROVE  storage \in Past /\ UNCHANGED <<storage, Past, op>>
  BY <1>3, CallKeepsStorage DEF TypeOK
<1>4. ASSUME op.kind = "details", LookupByName
      PROVE  DetailsPart'
  <2> DEFINE named == IF "id" \in DOMAIN op
                      THEN DOMAIN FindSubvolumesByProperty(
                               storage, "csi_volume_name", op.id, None)
                      ELSE {}
  <2>1. answer = "none"
    BY <1>4 DEF LookupByName, StepInv
  <2>2. \A l : l \in named <=> /\ "id" \in DOMAIN op
                               /\ l \in DOMAIN storage.subvols
                               /\ Prop(storage.subvols[l], "csi_volume_name")
                                    = op.id
    BY DEF FindSubvolumesByProperty, Restrict
  <2>3. \/ \E l \in named : Found(l)
        \/ NotFoundYet /\ (named = {} \/ Fails)
    BY <1>4 DEF LookupByName
  <2>. HIDE DEF named
  <2>4. ASSUME NEW l \in named, Found(l)
        PROVE  DetailsPart'
    <3>1. l \in Locs /\ Means(storage, l)
      BY <2>2 DEF Means, TypeOK, SubvolsOK
    <3>. QED
      BY <1>3, <1>4, <2>1, <2>4, <3>1, FoundStep DEF QueryStep
  <2>5. ASSUME NotFoundYet, named = {} \/ Fails
        PROVE  DetailsPart'
    <3>1. step' = "dataset" /\ answer' = "none" /\ step = "name"
      BY <1>4, <2>1, <2>5 DEF NotFoundYet, Continue, LookupByName
    <3>2. DatasetInv'
      <4>1. CASE Fails
        BY <3>1, <4>1 DEF Fails, DatasetInv
      <4>2. ASSUME named = {}, "id" \in DOMAIN op
            PROVE  \A l \in Locs : ~Means(storage, l)
        BY <2>2, <4>2 DEF Means
      <4>3. CASE named = {}
        BY <1>3, <1>4, <4>2, <4>3 DEF QueryStep, DatasetInv, Means
      <4>. QED
        BY <2>5, <4>1, <4>3
    <3>. QED
      BY <3>1, <3>2 DEF DetailsPart, TargetInv, DetailsAreOfReference,
                        NotFoundIsTrue, TargetsAreReal
  <2>. QED
    BY <2>3, <2>4, <2>5
<1>5. ASSUME op.kind = "details", LookupByDataset
      PROVE  DetailsPart'
  <2> DEFINE there ==
               IF "loc" \in DOMAIN op
               THEN {l \in DOMAIN FindManagedSubvolumes(storage, None) :
                       SameSubvolume(l, op.loc)}
               ELSE {}
  <2>1. answer = "none" /\ step = "dataset"
    BY <1>5 DEF LookupByDataset, StepInv
  <2>2. \A l : l \in there <=> /\ "loc" \in DOMAIN op /\ l = op.loc
                               /\ l \in DOMAIN storage.subvols
                               /\ ManagedBy(storage.subvols[l])
    BY FindManagedDef DEF SameSubvolume
  <2>3. \/ \E l \in there : Found(l)
        \/ there = {} /\ Answer("notFound") /\ UNCHANGED <<held, rows, failed>>
        \/ Answer("error")
    BY <1>5 DEF LookupByDataset
  <2>. HIDE DEF there
  <2>4. ASSUME NEW l \in there, Found(l)
        PROVE  DetailsPart'
    <3>1. l \in Locs /\ Means(storage, l)
      BY <1>5, <2>2, References DEF Means, TypeOK, SubvolsOK
    <3>. QED
      BY <1>3, <1>5, <2>1, <2>4, <3>1, FoundStep DEF QueryStep
  <2>5. ASSUME there = {}, Answer("notFound"), UNCHANGED failed
        PROVE  DetailsPart'
    <3>1. step' = "done" /\ answer' = "notFound"
      BY <2>5 DEF Answer
    <3>2. \/ "id" \in DOMAIN op /\ "name" \in failed
          \/ \E st \in Past : \A l \in Locs : ~Means(st, l)
      <4>1. CASE "id" \in DOMAIN op
        BY <2>1, <4>1 DEF DetailsPart, DatasetInv
      <4>2. CASE "id" \notin DOMAIN op
        <5>1. \A l \in Locs : ~Means(storage, l)
          BY <1>5, <2>2, <2>5, <4>2, References DEF Means, TypeOK
        <5>. QED
          BY <1>3, <1>5, <5>1 DEF QueryStep
      <4>. QED
        BY <4>1, <4>2
    <3>3. NotFoundIsTrue'
      BY <1>3, <1>5, <2>5, <3>2 DEF QueryStep, NotFoundIsTrue, Means
    <3>. QED
      BY <3>1, <3>3 DEF DetailsPart, DatasetInv, TargetInv,
                        DetailsAreOfReference, TargetsAreReal
  <2>6. ASSUME Answer("error")
        PROVE  DetailsPart'
    BY <2>6 DEF Answer, DetailsPart, DatasetInv, TargetInv,
                DetailsAreOfReference, NotFoundIsTrue, TargetsAreReal
  <2>. QED
    BY <2>3, <2>4, <2>5, <2>6
<1>6. ASSUME op.kind = "details", step \in {"target", "fallback"}
      PROVE  /\ TargetInv /\ TheVolume \in Locs
             /\ HasLookup(held[TheVolume])
             /\ rows = {[loc |-> TheVolume, target |-> FALSE]}
  BY <1>6, HeldVolume DEF DetailsPart
<1>7. ASSUME op.kind = "details", LookupShare \/ LookupTarget \/ LookupExactTarget,
             Fails, UNCHANGED rows, Answer("ok")
      PROVE  DetailsPart'
  <2>1. step \in {"target", "fallback"} /\ UNCHANGED <<Past, op, held>>
    BY <1>7 DEF LookupShare, LookupTarget, LookupExactTarget, storageVars, Past
  <2>2. failed' \cap {"target", "fallback"} # {}
    BY <1>7, <2>1 DEF Fails
  <2>. QED
    BY <1>6, <1>7, <2>1, <2>2, TargetStep
<1>8. ASSUME op.kind = "details", LookupShare
      PROVE  DetailsPart'
  <2>1. /\ step = "target" /\ Prop(held[TheVolume], "protocol") = "nfs"
        /\ UNCHANGED <<Past, op, held>> /\ Answer("ok")
    BY <1>8 DEF LookupShare, storageVars, Past
  <2>2. ASSUME Shown(TheVolume \in storage.shares)
        PROVE  DetailsPart'
    <3> DEFINE found == TheVolume \in storage.shares
    <3>1. found <=> HasTarget(storage, TheVolume)
      BY <2>1 DEF HasTarget
    <3>2. rows' = {[loc |-> TheVolume, target |-> found]}
      BY <2>2 DEF Shown
    <3>3. found \in BOOLEAN
      OBVIOUS
    <3>. HIDE DEF found
    <3>. QED
      BY <1>3, <1>6, <1>8, <2>1, <3>1, <3>2, <3>3, TargetStep DEF QueryStep
  <2>. QED
    BY <1>7, <1>8, <2>1, <2>2 DEF LookupShare
<1>9. ASSUME op.kind = "details", LookupTarget
      PROVE  DetailsPart'
  <2>1. /\ step = "target" /\ Prop(held[TheVolume], "protocol") = "nvmeof"
        /\ UNCHANGED <<Past, op, held>>
    BY <1>9 DEF LookupTarget, storageVars, Past
  <2>2. ASSUME OfName(storage, NameHeld) # {}, Shown(TRUE), Answer("ok")
        PROVE  DetailsPart'
    <3>1. PICK s \in storage.subsystems : s[2] = NameHeld
      BY <2>2 DEF OfName
    <3>2. s[1] \in Prefixes /\ s = <<s[1], NameHeld>>
      BY <3>1 DEF TypeOK
    <3>3. HasTarget(storage, TheVolume)
      BY <2>1, <3>1, <3>2 DEF HasTarget, NameHeld
    <3>. QED
      BY <1>3, <1>6, <1>9, <2>1, <2>2, <3>3, TargetStep DEF QueryStep, Shown
  <2>3. ASSUME OfName(storage, NameHeld) = {}, Continue("fallback"),
               UNCHANGED rows
        PROVE  DetailsPart'
    <3>1. step' = "fallback" /\ answer' = "none"
      BY <2>1, <2>3 DEF Continue, StepInv
    <3>2. PICK l \in Locs : Describes(l)
      BY <2>1 DEF DetailsPart, TargetInv
    <3>3. Describes(l)'
      BY <2>1, <2>3, <3>2 DEF Describes, Means
    <3>4. (/\ Prop(held[TheVolume], "protocol") # "nfs"
           /\ \E st \in Past : OfName(st, NameHeld) = {})'
      BY <1>3, <1>9, <2>1, <2>3 DEF QueryStep, TheVolume, NameHeld
    <3>5. TargetInv'
      BY <3>3, <3>4 DEF TargetInv
    <3>. QED
      BY <3>1, <3>5 DEF DetailsPart, DatasetInv, DetailsAreOfReference,
                        NotFoundIsTrue, TargetsAreReal
  <2>. QED
    BY <1>7, <1>9, <2>2, <2>3 DEF LookupTarget
<1>10. ASSUME op.kind = "details", LookupExactTarget
       PROVE  DetailsPart'
  <2>1. /\ step = "fallback" /\ UNCHANGED <<Past, op, held>> /\ Answer("ok")
    BY <1>10 DEF LookupExactTarget, storageVars, Past
  <2>2. /\ Prop(held[TheVolume], "protocol") # "nfs"
        /\ \E st \in Past : OfName(st, NameHeld) = {}
    BY <2>1 DEF DetailsPart, TargetInv
  <2>3. \E st \in Past : ~HasTarget(st, TheVolume)
    <3>1. PICK st \in Past : OfName(st, NameHeld) = {}
      BY <2>2
    <3>2. \A p : <<p, NameHeld>> \notin st.subsystems
      BY <3>1 DEF OfName
    <3>3. ~HasTarget(st, TheVolume)
      BY <2>2, <3>2 DEF HasTarget, NameHeld
    <3>. QED
      BY <3>3
  <2>4. ASSUME Shown(OfDefaultPrefix(storage, NameHeld) # {})
        PROVE  DetailsPart'
    <3> DEFINE found == OfDefaultPrefix(storage, NameHeld) # {}
    <3>1. found => HasTarget(storage, TheVolume)
      BY <2>2 DEF OfDefaultPrefix, HasTarget, NameHeld, Prefixes
    <3>2. rows' = {[loc |-> TheVolume, target |-> found]}
      BY <2>4 DEF Shown
    <3>3. found \in BOOLEAN
      OBVIOUS
    <3>. HIDE DEF found
    <3>. QED
      BY <1>3, <1>6, <1>10, <2>1, <2>3, <3>1, <3>2, <3>3, TargetStep
         DEF QueryStep
  <2>. QED
    BY <1>7, <1>10, <2>1, <2>4 DEF LookupExactTarget
<1>11. CASE op.kind = "details" /\ ~StorageChanges
  <2>1. \/ LookupByName \/ LookupByDataset
        \/ LookupShare \/ LookupTarget \/ LookupExactTarget
    BY <1>11 DEF QueryStep, FindManagedVolumes, ReadManagedSubvols,
                 ListSnapshots, SnapshotsListed, ReadAllSubvols, DropManaged,
                 ShowUnmanaged, StepInv
  <2>. QED
    BY <1>4, <1>5, <1>8, <1>9, <1>10, <1>11, <2>1
<1>. QED
  BY <1>1, <1>2, <1>11

(***************************************************************************)
(* The theorems.                                                           *)
(***************************************************************************)

LEMMA QueriesStutter ==
    ASSUME QueriesInv, UNCHANGED vars
    PROVE  QueriesInv'
<1>1. UNCHANGED <<storage, changes, past, Past, op, step, held, todo, rows,
                  answer, failed>>
  BY DEF vars, storageVars, Past
<1>2. (TypeOK /\ IsStorage(storage) /\ PastInv /\ StepInv)'
  BY <1>1 DEF QueriesInv, TypeOK, IsStorage, PastInv, StepInv
<1>3. SnapshotInv' /\ SnapshotsAreReal' /\ SnapshotsAreComplete'
  <2>1. MomentsKept
    BY <1>1 DEF MomentsKept
  <2>2. SnapshotInv'
    BY <1>1, <2>1, WasVolumeKept DEF QueriesInv, SnapshotInv
  <2>. QED
    BY <1>1, <2>1, <2>2, RealRows DEF QueriesInv, SnapshotsAreComplete
<1>4. VolumesMatchSnapshots'
  BY <1>1 DEF QueriesInv, VolumesMatchSnapshots
<1>5. UnmanagedInv' /\ UnmanagedAreReal' /\ UnmanagedAreComplete'
  BY <1>1 DEF QueriesInv, UnmanagedInv, There, UnmanagedAreReal,
              UnmanagedAreComplete
<1>6. TargetInv' /\ DetailsAreOfReference' /\ TargetsAreReal'
  BY <1>1 DEF QueriesInv, TargetInv, Describes, TheVolume, NameHeld, Means,
              DetailsAreOfReference, TargetsAreReal, HasTarget
<1>7. DatasetInv' /\ NotFoundIsTrue'
  BY <1>1 DEF QueriesInv, DatasetInv, NotFoundIsTrue, Means
<1>. QED
  BY <1>2, <1>3, <1>4, <1>5, <1>6, <1>7 DEF QueriesInv

LEMMA QueriesInvariance == Spec => []QueriesInv
<1>1. Init => QueriesInv
  BY QueriesInit
<1>2. QueriesInv /\ [Next]_vars => QueriesInv'
  <2>1. CASE QueriesInv /\ (QueryStep \/ StorageChanges)
    <3>1. TypeOK' /\ IsStorage(storage') /\ PastInv'
      <4>1. CASE QueryStep
        BY <2>1, <4>1, TypeStep, CallKeepsStorage DEF QueriesInv, PastInv
      <4>2. CASE StorageChanges
        <5>1. IsStorage(storage')
          BY <2>1, <4>2, StorageStep DEF QueriesInv, TypeOK
        <5>. QED
          BY <2>1, <4>2, <5>1, ChangeKeepsQuery
             DEF QueriesInv, TypeOK, IsStorage
      <4>. QED
        BY <2>1, <4>1, <4>2
    <3>2. StepInv'
      BY <2>1, StepStep DEF QueriesInv
    <3>3. SnapshotPart'
      BY <2>1, <3>2, SnapshotStep DEF QueriesInv, SnapshotPart
    <3>4. VolumesMatchSnapshots'
      BY <2>1, <3>2, VolumesStep DEF QueriesInv
    <3>5. UnmanagedPart'
      BY <2>1, <3>2, UnmanagedStep DEF QueriesInv, UnmanagedPart
    <3>6. DetailsPart'
      BY <2>1, <3>2, DetailsStep DEF QueriesInv, DetailsPart
    <3>. QED
      BY <3>1, <3>2, <3>3, <3>4, <3>5, <3>6
         DEF QueriesInv, SnapshotPart, UnmanagedPart, DetailsPart
  <2>2. CASE QueriesInv /\ UNCHANGED vars
    BY <2>2, QueriesStutter
  <2>. QED
    BY <2>1, <2>2 DEF Next, Done
<1>. QED
  BY <1>1, <1>2, PTL DEF Spec

(* The subvolumes a query holds and shows have places of the server and    *)
(* properties the driver writes, whatever is changed meanwhile.            *)
THEOREM QueriesTypeCorrect == Spec => []TypeOK
<1>1. QueriesInv => TypeOK
  BY DEF QueriesInv
<1>. QED
  BY <1>1, QueriesInvariance, PTL

(* A snapshot FindManagedSnapshots shows was there when its subvolume was, *)
(* or after it had been, the volume it is shown as, which the cluster may  *)
(* see.                                                                    *)
THEOREM SnapshotsShownAreReal == Spec => []SnapshotsAreReal
<1>1. QueriesInv => SnapshotsAreReal
  BY DEF QueriesInv
<1>. QED
  BY <1>1, QueriesInvariance, PTL

(* FindManagedSnapshots misses no snapshot that is there all the time of a *)
(* volume that is there all the time.                                      *)
THEOREM NoSnapshotIsMissed == Spec => []SnapshotsAreComplete
<1>1. QueriesInv => SnapshotsAreComplete
  BY DEF QueriesInv
<1>. QED
  BY <1>1, QueriesInvariance, PTL

(* FindManagedVolumes and FindManagedSnapshots agree on which volumes a    *)
(* cluster has, the one filtering volumes and the other subvolumes.        *)
THEOREM SameVolumesOfCluster == Spec => []VolumesMatchSnapshots
<1>1. QueriesInv => VolumesMatchSnapshots
  BY DEF QueriesInv
<1>. QED
  BY <1>1, QueriesInvariance, PTL

(* What FindUnmanagedVolumes shows was there and was unmanaged.            *)
THEOREM UnmanagedShownAreReal == Spec => []UnmanagedAreReal
<1>1. QueriesInv => UnmanagedAreReal
  BY DEF QueriesInv
<1>. QED
  BY <1>1, QueriesInvariance, PTL

(* FindUnmanagedVolumes misses none that is unmanaged all the time.        *)
THEOREM NoUnmanagedIsMissed == Spec => []UnmanagedAreComplete
<1>1. QueriesInv => UnmanagedAreComplete
  BY DEF QueriesInv
<1>. QED
  BY <1>1, QueriesInvariance, PTL

(* GetVolumeDetails describes a subvolume its reference meant.             *)
THEOREM DetailsDescribeReference == Spec => []DetailsAreOfReference
<1>1. QueriesInv => DetailsAreOfReference
  BY DEF QueriesInv
<1>. QED
  BY <1>1, QueriesInvariance, PTL

(* GetVolumeDetails says "not found" only of what was not there.           *)
THEOREM NotFoundIsSaidTruly == Spec => []NotFoundIsTrue
<1>1. QueriesInv => NotFoundIsTrue
  BY DEF QueriesInv
<1>. QED
  BY <1>1, QueriesInvariance, PTL

(* GetVolumeDetails shows a share or target that was there, and misses     *)
(* none that is there all the time, unless a lookup of it failed.          *)
THEOREM TargetsShownAreReal == Spec => []TargetsAreReal
<1>1. QueriesInv => TargetsAreReal
  BY DEF QueriesInv
<1>. QED
  BY <1>1, QueriesInvariance, PTL
=============================================================================
