---------------------------- MODULE Health_proofs ----------------------------
(***************************************************************************)
(* Theorems about the health check, for every list of volumes and every    *)
(* number of changes while it runs.                                        *)
(***************************************************************************)
EXTENDS Health, FunctionTheorems, FiniteSetTheorems, WellFoundedInduction,
        TLAPS

(***************************************************************************)
(* The invariant.  What the maps hold was so at some moment, in a slot     *)
(* whose list has been read; the report and the annotated list are made    *)
(* from these maps.                                                        *)
(***************************************************************************)

(* The list that has this slot was asked for, and answered. *)
Listed(s) ==
    s.kind \notin failed /\ \E k \in 1 .. 4 : k < step /\ Kinds[k] = s.kind

(* The check did not end before it asked for any. *)
Checked == step \in 1 .. 5 \/ DOMAIN report.volumes # {}

MapsInv ==
    \A s \in Slots :
        /\ resource[s] \in ever[s]
        /\ maps[s] # "absent" => maps[s] \in ever[s]
        /\ (Checked /\ Listed(s)) => maps[s] \in ever[s]

NotReported ==
    /\ report = Report(<<>>, NothingFetched)
    /\ listed = Unannotated(listed)
    /\ step \in {0, 6} => subvols = <<>>

Reports ==
    /\ report = Report(subvols, maps)
    /\ listed = AnnotateVolumesWithHealth(Unannotated(listed),
                                          report.volumes)

ReportInv == NotReported \/ (step = 6 /\ Reports)

HealthInv == TypeOK /\ MapsInv /\ ReportInv

(***************************************************************************)
(* The operators the check is built from.                                  *)
(***************************************************************************)

LEMMA LeastNumber ==
    ASSUME NEW T, T \subseteq Nat, T # {}
    PROVE  \E x \in T : \A y \in T : x <= y
<1>1. IsWellFoundedOn(OpToRel(<, Nat), Nat)
  BY NatLessThanWellFounded
<1>2. PICK x \in T : \A y \in T : <<y, x>> \notin OpToRel(<, Nat)
  BY <1>1, WFMin
<1>3. \A y \in T : ~(y < x)
  BY <1>2 DEF OpToRel
<1>. QED
  BY <1>3

(* The place of the last of several entries is one of their places.        *)
LEMMA LastPlace ==
    ASSUME NEW n \in Nat, NEW S, S \subseteq 1 .. n, S # {}
    PROVE  Max(S) \in S /\ \A i \in S : i <= Max(S)
<1> DEFINE Bounds == {b \in Nat : \A i \in S : i <= b}
<1>1. n \in Bounds
  OBVIOUS
<1>2. PICK b \in Bounds : \A c \in Bounds : b <= c
  BY <1>1, LeastNumber
<1>3. b \in S
  <2>1. SUFFICES ASSUME b \notin S PROVE FALSE
    OBVIOUS
  <2>0. PICK i \in S : TRUE
    OBVIOUS
  <2>2. i \in Nat \ {0} /\ i <= b
    BY <2>0
  <2>3. b - 1 \in Nat /\ \A j \in S : j <= b - 1
    BY <2>1, <2>2
  <2>. QED
    BY <1>2, <2>3
<1>4. \A i \in S : b >= i
  OBVIOUS
<1>5. \E x \in S : \A y \in S : x >= y
  BY <1>3, <1>4
<1>6. Max(S) \in S /\ \A y \in S : Max(S) >= y
  BY <1>5 DEF Max
<1>. QED
  BY <1>6

LEMMA ListType ==
    ASSUME TypeOK
    PROVE  /\ \E n \in Nat : subvols \in [1 .. n -> Subvols]
           /\ \E n \in Nat : DOMAIN subvols = 1 .. n
           /\ \A i \in DOMAIN subvols : subvols[i] \in Subvols
           /\ \E n \in Nat : DOMAIN listed = 1 .. n
           /\ \A i \in DOMAIN listed : listed[i] \in Volumes
           /\ \A i \in DOMAIN listed : listed[i].id # None
<1>1. \A i \in DOMAIN listed : listed[i] \in Volumes
  BY DEF TypeOK, BoundedSeq, SeqOf
<1>2. \A v \in Volumes : v.id # None
  BY HealthAssumption DEF Volumes, HealthAssumption
<1>. QED
  BY <1>1, <1>2 DEF TypeOK, BoundedSeq, SeqOf

LEMMA OnlyEntry ==
    ASSUME NEW x
    PROVE  x \in ToSet(<<x>>)
<1>1. <<x>> = [i \in 1 .. 1 |-> x]
  OBVIOUS
<1>. QED
  BY <1>1 DEF ToSet

(* A volume is unhealthy exactly when it has an issue. *)
LEMMA StatusOfIssues ==
    ASSUME NEW sv, NEW m
    PROVE  Status(Issues(sv, m)) =
             IF Issues(sv, m) = <<>> THEN "Healthy" ELSE "Unhealthy"
<1>1. Issues(sv, m) \in {<<>>, <<"not found">>, <<"disabled">>}
  BY DEF Issues
<1>2. Status(<<>>) = "Healthy"
  <2>1. ToSet(<<>>) = {}
    BY DEF ToSet
  <2>. QED
    BY <2>1 DEF Status
<1>3. ASSUME NEW text \in {"not found", "disabled"}
      PROVE  Status(<<text>>) = "Unhealthy" /\ <<text>> # <<>>
  <2>2. text \in ToSet(<<text>>)
    BY OnlyEntry
  <2>3. <<text>> # <<>>
    OBVIOUS
  <2>4. ToSet(<<text>>) \cap {"not found", "disabled"} # {}
    BY <2>2
  <2>. QED
    BY <2>3, <2>4 DEF Status
<1>. QED
  BY <1>1, <1>2, <1>3

(* What the loop of CheckVolumeHealth reports. *)
LEMMA ReportDef ==
    ASSUME NEW list, NEW m
    PROVE  /\ DOMAIN Report(list, m).volumes = Named(list)
           /\ \A i \in Named(list) :
                Report(list, m).volumes[i] = VolumeHealth(list[i], m)
           /\ \A i : i \in DOMAIN Report(list, m).problems <=>
                /\ i \in Named(list)
                /\ VolumeHealth(list[i], m).status # "Healthy"
           /\ \A i \in DOMAIN Report(list, m).problems :
                Report(list, m).problems[i] = VolumeHealth(list[i], m)
BY DEF Report, OfStatus, Restrict

(* The volumes of a report that was never made. *)
LEMMA NoReport ==
    ASSUME NotReported
    PROVE  DOMAIN report.volumes = {} /\ DOMAIN report.problems = {}
<1>1. \A i : i \notin Named(<<>>)
  BY DEF Named
<1>2. /\ \A i : i \notin DOMAIN report.volumes
      /\ \A i : i \notin DOMAIN report.problems
  BY <1>1, ReportDef DEF NotReported
<1>. QED
  BY <1>2

(* Both maps that the annotations are taken from hold the last subvolume   *)
(* of a name.                                                              *)
LEMMA SamePlaces ==
    ASSUME NEW m, NEW id, id # None
    PROVE  With(Report(subvols, m).volumes, id) = With(subvols, id)
<1>1. \A i : i \in With(Report(subvols, m).volumes, id) <=>
               i \in Named(subvols) /\ VolumeHealth(subvols[i], m).id = id
  BY ReportDef DEF With
<1>2. \A i : VolumeHealth(subvols[i], m).id = subvols[i].id
  BY DEF VolumeHealth
<1>3. \A i : i \in With(subvols, id) <=>
               i \in Named(subvols) /\ subvols[i].id = id
  BY DEF With, Named
<1>. QED
  BY <1>1, <1>2, <1>3

LEMMA LastOfName ==
    ASSUME TypeOK, NEW id, With(subvols, id) # {}, id # None
    PROVE  /\ Max(With(subvols, id)) \in With(subvols, id)
           /\ Max(With(subvols, id)) \in Named(subvols)
<1>1. PICK n \in Nat : DOMAIN subvols = 1 .. n
  BY ListType
<1>2. With(subvols, id) \subseteq 1 .. n
  BY <1>1 DEF With
<1>3. Max(With(subvols, id)) \in With(subvols, id)
  BY <1>2, LastPlace
<1>. QED
  BY <1>3 DEF With, Named

(***************************************************************************)
(* The initial states, and what every step keeps.                          *)
(***************************************************************************)

LEMMA FreshVolume ==
    ASSUME NEW name \in Ids,
           NEW v, v = [id |-> name, status |-> "", issue |-> ""]
    PROVE  v \in Volumes /\ v.id = name
BY DEF Volumes

LEMMA HealthInit ==
    ASSUME Init
    PROVE  HealthInv
<1>0. PICK n \in 0 .. MaxVolumes :
        \E volumes \in [1 .. n -> [id : Ids]] : listed = Unannotated(volumes)
  BY DEF Init, BoundedSeq, SeqOf
<1>1. PICK volumes \in [1 .. n -> [id : Ids]] : listed = Unannotated(volumes)
  BY <1>0
<1>2. \A i \in 1 .. n :
        listed[i] = [id |-> volumes[i].id, status |-> "", issue |-> ""]
  BY <1>1 DEF Unannotated
<1>3. DOMAIN listed = 1 .. n /\ listed = [i \in 1 .. n |-> listed[i]]
  BY <1>1 DEF Unannotated
<1>4. ASSUME NEW i \in 1 .. n
      PROVE  listed[i] \in Volumes /\ listed[i].id = volumes[i].id
  <2>1. volumes[i].id \in Ids
    <3>1. volumes[i] \in [id : Ids]
      BY <1>1
    <3>. QED
      BY <3>1
  <2>. QED
    BY <1>2, <2>1, FreshVolume
<1>5. listed \in BoundedSeq(Volumes, MaxVolumes)
  <2>1. listed \in [1 .. n -> Volumes]
    BY <1>3, <1>4
  <2>. QED
    BY <2>1 DEF BoundedSeq, SeqOf
<1>6. listed = Unannotated(listed)
  <2>1. Unannotated(listed) = [i \in 1 .. n |->
          [id |-> volumes[i].id, status |-> "", issue |-> ""]]
    BY <1>3, <1>4 DEF Unannotated
  <2>. QED
    BY <1>2, <1>3, <2>1
<1>7. NotReported
  BY <1>6 DEF Init, NotReported
<1>8. DOMAIN report.volumes = {}
  BY <1>7, NoReport
<1>9. /\ resource \in [Slots -> States] /\ maps = NothingFetched
      /\ ever = [s \in Slots |-> {resource[s]}] /\ step = 0 /\ failed = {}
      /\ changes = 0 /\ subvols = <<>>
  BY DEF Init
<1>10. subvols \in BoundedSeq(Subvols, MaxVolumes)
  <2>1. subvols \in [1 .. 0 -> Subvols]
    BY <1>9
  <2>. QED
    BY <2>1, HealthAssumption DEF BoundedSeq, SeqOf, HealthAssumption
<1>11. maps \in [Slots -> States] /\ \A s \in Slots : maps[s] = "absent"
  BY <1>9 DEF NothingFetched, States
<1>12. ever \in [Slots -> SUBSET States]
  BY <1>9
<1>13. TypeOK
  BY <1>5, <1>8, <1>9, <1>10, <1>11, <1>12, HealthAssumption
     DEF TypeOK, HealthAssumption
<1>14. MapsInv
  BY <1>8, <1>9, <1>11 DEF MapsInv, Checked
<1>. QED
  BY <1>7, <1>13, <1>14 DEF HealthInv, ReportInv

(* Nothing but the status and the issue is annotated. *)
LEMMA AnnotatedFields ==
    ASSUME NEW v \in Volumes, NEW sv, NEW m
    PROVE  /\ Annotated(v, VolumeHealth(sv, m)) \in Volumes
           /\ Annotated(v, VolumeHealth(sv, m)).id = v.id
           /\ Annotated(v, VolumeHealth(sv, m)).status
                = VolumeHealth(sv, m).status
<1> DEFINE h     == VolumeHealth(sv, m)
           issue == IF h.issues = <<>> THEN v.issue ELSE Head(h.issues)
<1>1. h.status \in {"Healthy", "Unhealthy"}
  BY StatusOfIssues DEF VolumeHealth
<1>2. issue \in {"", "not found", "disabled"}
  <2>1. h.issues \in {<<>>, <<"not found">>, <<"disabled">>}
    BY DEF VolumeHealth, Issues
  <2>2. /\ Head(<<"not found">>) = "not found"
        /\ Head(<<"disabled">>) = "disabled"
    OBVIOUS
  <2>3. v.issue \in {"", "not found", "disabled"}
    BY DEF Volumes
  <2>. QED
    BY <2>1, <2>2, <2>3
<1>3. Annotated(v, h) = [v EXCEPT !.status = h.status, !.issue = issue]
  BY DEF Annotated, Volumes
<1>. HIDE DEF h, issue
<1>. QED
  BY <1>1, <1>2, <1>3 DEF h, Volumes

(* The entries of a list that a report of the fetched data annotates.      *)
LEMMA AnnotatedEntry ==
    ASSUME NEW volumes, NEW i \in DOMAIN volumes, volumes[i] \in Volumes,
           TypeOK
    PROVE  LET same == With(subvols, volumes[i].id)
           IN  AnnotateVolumesWithHealth(
                 volumes, Report(subvols, maps).volumes)[i]
                 = IF same = {} THEN volumes[i]
                   ELSE Annotated(volumes[i],
                                  VolumeHealth(subvols[Max(same)], maps))
<1> DEFINE same    == With(subvols, volumes[i].id)
           healths == Report(subvols, maps).volumes
<1>1. volumes[i].id # None
  BY HealthAssumption DEF Volumes, HealthAssumption
<1>2. With(healths, volumes[i].id) = same
  BY <1>1, SamePlaces
<1>3. same # {} => healths[Max(same)] = VolumeHealth(subvols[Max(same)], maps)
  BY <1>1, LastOfName, ReportDef
<1>4. AnnotateVolumesWithHealth(volumes, healths)[i]
        = IF same = {} THEN volumes[i]
          ELSE Annotated(volumes[i], healths[Max(same)])
  <2>. HIDE DEF healths, same
  <2>. QED
    BY <1>2 DEF AnnotateVolumesWithHealth
<1>. QED
  BY <1>3, <1>4

(* An annotated list has the volumes that it had.                          *)
LEMMA AnnotatedList ==
    ASSUME TypeOK,
           NEW list, list = AnnotateVolumesWithHealth(
                              listed, Report(subvols, maps).volumes)
    PROVE  /\ list \in BoundedSeq(Volumes, MaxVolumes)
           /\ Unannotated(list) = Unannotated(listed)
<1>1. DOMAIN list = DOMAIN listed /\ list = [i \in DOMAIN listed |-> list[i]]
  BY DEF AnnotateVolumesWithHealth
<1>2. \A i \in DOMAIN listed : list[i] \in Volumes /\ list[i].id = listed[i].id
  BY ListType, AnnotatedEntry, AnnotatedFields
<1>3. PICK n \in 0 .. MaxVolumes : listed \in [1 .. n -> Volumes]
  BY DEF TypeOK, BoundedSeq, SeqOf
<1>4. list \in [1 .. n -> Volumes]
  BY <1>1, <1>2, <1>3
<1>5. Unannotated(list) = Unannotated(listed)
  BY <1>1, <1>2 DEF Unannotated
<1>. QED
  BY <1>3, <1>4, <1>5 DEF BoundedSeq, SeqOf

LEMMA HealthTypeStep ==
    ASSUME TypeOK, ReportInv, Next
    PROVE  TypeOK'
<1>1. CASE ReadSubvolumes
  <2>1. ReportInv => DOMAIN report.volumes = {}
    BY <1>1, NoReport DEF ReadSubvolumes, ReportInv
  <2>. QED
    BY <1>1, <2>1 DEF ReadSubvolumes, TypeOK
<1>6. CASE ReadFails
  BY <1>6 DEF ReadFails, TypeOK
<1>2. CASE ListKind
  <2>1. maps' \in [Slots -> States]
    BY <1>2 DEF ListKind, TypeOK
  <2>2. failed' \subseteq Protocols
    BY <1>2 DEF ListKind, TypeOK
  <2>. QED
    BY <1>2, <2>1, <2>2 DEF ListKind, TypeOK
<1>3. CASE Finish
  <2>1. DOMAIN report'.volumes \subseteq DOMAIN subvols
    BY <1>3, ReportDef DEF Finish, Named
  <2>2. \A i \in DOMAIN report'.volumes :
          report'.volumes[i].status \in {"Healthy", "Unhealthy"}
    <3>1. SUFFICES ASSUME NEW i \in Named(subvols)
                   PROVE  VolumeHealth(subvols[i], maps).status
                            \in {"Healthy", "Unhealthy"}
      BY <1>3, ReportDef DEF Finish
    <3>. QED
      BY StatusOfIssues DEF VolumeHealth
  <2>3. listed' \in BoundedSeq(Volumes, MaxVolumes)
    BY <1>3, AnnotatedList DEF Finish
  <2>. QED
    BY <1>3, <2>1, <2>2, <2>3 DEF Finish, TypeOK
<1>4. CASE StorageChanges
  <2>1. PICK s \in Slots, new \in States :
          /\ resource' = [resource EXCEPT ![s] = new]
          /\ ever' = [ever EXCEPT ![s] = @ \cup {new}]
    BY <1>4 DEF StorageChanges
  <2>2. resource' \in [Slots -> States] /\ ever' \in [Slots -> SUBSET States]
    BY <2>1 DEF TypeOK
  <2>. QED
    BY <1>4, <2>2, HealthAssumption DEF StorageChanges, TypeOK, HealthAssumption
<1>5. CASE Reported
  BY <1>5 DEF Reported, vars, TypeOK
<1>. QED
  BY <1>1, <1>2, <1>3, <1>4, <1>5, <1>6 DEF Next

LEMMA ReportStep ==
    ASSUME TypeOK, ReportInv, Next
    PROVE  ReportInv'
<1>1. CASE ReadSubvolumes \/ ReadFails \/ ListKind \/ StorageChanges
  <2>1. NotReported
    BY <1>1 DEF ReadSubvolumes, ReadFails, ListKind, StorageChanges, ReportInv
  <2>2. UNCHANGED <<report, listed>>
    BY <1>1 DEF ReadSubvolumes, ReadFails, ListKind, StorageChanges
  <2>3. step' \in {0, 6} => subvols' = <<>>
    BY <1>1, <2>1
       DEF ReadSubvolumes, ReadFails, ListKind, StorageChanges, NotReported
  <2>. QED
    BY <2>1, <2>2, <2>3 DEF ReportInv, NotReported
<1>2. CASE Finish
  <2>1. NotReported
    BY <1>2 DEF Finish, ReportInv
  <2>2. /\ report' = Report(subvols, maps) /\ UNCHANGED <<subvols, maps>>
        /\ listed' = AnnotateVolumesWithHealth(listed, report'.volumes)
        /\ step' = 6
    BY <1>2 DEF Finish
  <2>3. Unannotated(listed') = listed
    BY <2>1, <2>2, AnnotatedList DEF NotReported
  <2>. QED
    BY <2>2, <2>3 DEF ReportInv, Reports
<1>3. CASE Reported
  BY <1>3 DEF Reported, vars, ReportInv, NotReported, Reports
<1>. QED
  BY <1>1, <1>2, <1>3 DEF Next

LEMMA MapsStep ==
    ASSUME TypeOK, ReportInv, MapsInv, Next
    PROVE  MapsInv'
<1>1. CASE ReadSubvolumes
  BY <1>1 DEF ReadSubvolumes, MapsInv, Listed
<1>2. CASE ReadFails
  <2>1. NotReported /\ UNCHANGED report /\ step' = 6
    BY <1>2 DEF ReadFails, ReportInv
  <2>2. ~Checked'
    BY <2>1, NoReport DEF Checked
  <2>. QED
    BY <1>2, <2>2 DEF ReadFails, MapsInv
<1>3. CASE ListKind
  <2>1. step \in 1 .. 4 /\ step' = step + 1 /\ UNCHANGED <<resource, ever>>
    BY <1>3 DEF ListKind
  <2>2. SUFFICES ASSUME NEW s \in Slots
                 PROVE  /\ maps'[s] # "absent" => maps'[s] \in ever[s]
                        /\ Listed(s)' => maps'[s] \in ever[s]
    BY <2>1 DEF MapsInv
  <2>3. /\ resource[s] \in ever[s]
        /\ maps[s] # "absent" => maps[s] \in ever[s]
        /\ Listed(s) => maps[s] \in ever[s]
    BY <2>1 DEF MapsInv, Checked
  <2>4. CASE /\ maps' = [t \in Slots |->
                          IF t.kind = Kinds[step] THEN resource[t] ELSE maps[t]]
             /\ UNCHANGED failed
    <3>1. CASE s.kind = Kinds[step]
      BY <2>3, <2>4, <3>1
    <3>2. CASE s.kind # Kinds[step]
      BY <2>1, <2>3, <2>4, <3>2 DEF Listed
    <3>. QED
      BY <3>1, <3>2
  <2>5. CASE /\ failed' = failed \cup ({Kinds[step]} \cap Protocols)
             /\ UNCHANGED maps
    <3>1. s.kind \in Protocols
      BY DEF Slots
    <3>. QED
      BY <2>1, <2>3, <2>5, <3>1 DEF Listed
  <2>. QED
    BY <1>3, <2>4, <2>5 DEF ListKind
<1>4. CASE Finish
  BY <1>4 DEF Finish, MapsInv, Listed, Checked
<1>5. CASE StorageChanges
  <2>1. PICK s \in Slots, new \in States :
          /\ resource' = [resource EXCEPT ![s] = new]
          /\ ever' = [ever EXCEPT ![s] = @ \cup {new}]
    BY <1>5 DEF StorageChanges
  <2>2. \A t \in Slots : ever[t] \subseteq ever'[t] /\ resource'[t] \in ever'[t]
    BY <2>1 DEF TypeOK, MapsInv
  <2>. QED
    BY <1>5, <2>2 DEF StorageChanges, MapsInv, Listed, Checked
<1>6. CASE Reported
  BY <1>6 DEF Reported, vars, MapsInv, Listed, Checked
<1>. QED
  BY <1>1, <1>2, <1>3, <1>4, <1>5, <1>6 DEF Next

LEMMA HealthInvariance == Spec => []HealthInv
<1>1. Init => HealthInv
  BY HealthInit
<1>2. HealthInv /\ [Next]_vars => HealthInv'
  <2>1. CASE HealthInv /\ Next
    BY <2>1, HealthTypeStep, ReportStep, MapsStep DEF HealthInv
  <2>2. CASE HealthInv /\ UNCHANGED vars
    BY <2>2 DEF HealthInv, vars, TypeOK, MapsInv, Listed, Checked, ReportInv,
                NotReported, Reports
  <2>. QED
    BY <2>1, <2>2
<1>. QED
  BY <1>1, <1>2, PTL DEF Spec

(***************************************************************************)
(* What the invariant says of a report.                                    *)
(***************************************************************************)

(* The share or target that a volume needs is one of the server's.         *)
LEMMA SlotOfVolume ==
    ASSUME TypeOK, NEW i \in Named(subvols), subvols[i].protocol # None,
           KeyOf(subvols[i]) # None
    PROVE  SlotOf(subvols[i]) \in Slots
<1> DEFINE sv == subvols[i]
<1>1. sv \in Subvols /\ sv.id # None
  BY ListType DEF Named
<1>2. sv.protocol \in Protocols /\ sv.id \in Ids /\ sv.path \in Paths \cup {None}
  BY <1>1 DEF Subvols
<1>3. KeyOf(sv) \in IF sv.protocol \in ByPath THEN Paths ELSE Ids
  BY <1>2 DEF KeyOf
<1>. QED
  BY <1>2, <1>3 DEF SlotOf, Slots

(* Its list was asked for, and the map has what it said.                   *)
LEMMA SlotListed ==
    ASSUME HealthInv, step = 6, DOMAIN report.volumes # {},
           NEW s \in Slots, s.kind \notin failed
    PROVE  maps[s] \in ever[s]
<1>1. s.kind \in ToSet(Kinds)
  BY HealthAssumption DEF Slots, HealthAssumption
<1>2. DOMAIN Kinds = 1 .. 4
  BY DEF Kinds
<1>3. Listed(s)
  BY <1>1, <1>2 DEF Listed, ToSet
<1>. QED
  BY <1>3 DEF HealthInv, MapsInv, Checked

(* A report that has volumes was made from the maps. *)
LEMMA ReportMade ==
    ASSUME HealthInv, DOMAIN report.volumes # {} \/ DOMAIN report.problems # {}
    PROVE  step = 6 /\ Reports
BY NoReport DEF HealthInv, ReportInv

LEMMA ProblemIsReal ==
    ASSUME HealthInv
    PROVE  ProblemsAreReal
<1>1. SUFFICES ASSUME NEW i \in DOMAIN report.problems,
                      report.problems[i].protocol \notin failed
               PROVE  WasMissing(i)
  BY DEF ProblemsAreReal
<1>2. step = 6 /\ Reports
  BY ReportMade
<1> DEFINE sv == subvols[i]
<1>3. /\ i \in Named(subvols) /\ Status(Issues(sv, maps)) # "Healthy"
      /\ sv.protocol \notin failed
  <2>1. /\ i \in Named(subvols) /\ VolumeHealth(sv, maps).status # "Healthy"
        /\ report.problems[i] = VolumeHealth(sv, maps)
    BY <1>1, <1>2, ReportDef DEF Reports
  <2>. QED
    BY <1>1, <2>1 DEF VolumeHealth
<1>4. DOMAIN report.volumes # {}
  BY <1>2, <1>3, ReportDef DEF Reports
<1>5. Issues(sv, maps) # <<>>
  BY <1>3, StatusOfIssues
<1>6. CASE KeyOf(sv) = None
  BY <1>6 DEF WasMissing, EverOf
<1>7. CASE KeyOf(sv) # None
  <2>1. sv.protocol # None /\ maps[SlotOf(sv)] \in {"absent", "disabled"}
    BY <1>5, <1>7 DEF Issues
  <2>2. SlotOf(sv) \in Slots /\ SlotOf(sv).kind \notin failed
    BY <1>3, <1>7, <2>1, SlotOfVolume DEF HealthInv, SlotOf
  <2>3. maps[SlotOf(sv)] \in ever[SlotOf(sv)]
    BY <1>2, <1>4, <2>2, SlotListed
  <2>. QED
    BY <1>7, <2>1, <2>3 DEF WasMissing, EverOf
<1>. QED
  BY <1>6, <1>7

LEMMA HealthyIsReal ==
    ASSUME HealthInv
    PROVE  HealthyWasPresent
<1>1. SUFFICES ASSUME NEW i \in DOMAIN report.volumes,
                      report.volumes[i].status = "Healthy",
                      report.volumes[i].protocol # None
               PROVE  EverOf(i) \cap (IF report.volumes[i].protocol \in ByPath
                                      THEN {"enabled"}
                                      ELSE {"enabled", "disabled"}) # {}
  BY DEF HealthyWasPresent
<1>2. step = 6 /\ Reports
  BY ReportMade
<1> DEFINE sv == subvols[i]
<1>3. /\ i \in Named(subvols) /\ report.volumes[i] = VolumeHealth(sv, maps)
  BY <1>1, <1>2, ReportDef DEF Reports
<1>4. /\ Status(Issues(sv, maps)) = "Healthy"
      /\ sv.protocol # None /\ report.volumes[i].protocol = sv.protocol
  BY <1>1, <1>3 DEF VolumeHealth
<1>5. Issues(sv, maps) = <<>>
  BY <1>4, StatusOfIssues
<1>6. <<"not found">> # <<>> /\ <<"disabled">> # <<>>
  OBVIOUS
<1>7. /\ KeyOf(sv) # None /\ maps[SlotOf(sv)] # "absent"
      /\ sv.protocol \in ByPath => maps[SlotOf(sv)] # "disabled"
  BY <1>4, <1>5, <1>6 DEF Issues
<1>8. SlotOf(sv) \in Slots
  BY <1>3, <1>4, <1>7, SlotOfVolume DEF HealthInv
<1>9. /\ maps[SlotOf(sv)] \in ever[SlotOf(sv)]
      /\ maps[SlotOf(sv)] \in {"disabled", "enabled"}
  BY <1>7, <1>8 DEF HealthInv, MapsInv, TypeOK, States
<1>. QED
  BY <1>4, <1>7, <1>9 DEF EverOf

LEMMA AnnotationsDoAgree ==
    ASSUME HealthInv
    PROVE  AnnotationsAgree
<1> DEFINE before == Unannotated(listed)
           theirs == AnnotateHealthFromMaps(before, subvols, maps)
<1>1. SUFFICES ASSUME step = 6
               PROVE  listed = theirs
  BY DEF AnnotationsAgree
<1>2. /\ DOMAIN before = DOMAIN listed
      /\ \A i \in DOMAIN listed : before[i] \in Volumes
  BY ListType DEF HealthInv, Unannotated, Volumes
<1>3. \A i \in DOMAIN before :
        theirs[i] = LET same == With(subvols, before[i].id)
                    IN  IF same = {} THEN before[i]
                        ELSE Annotated(before[i],
                               VolumeHealth(subvols[Max(same)], maps))
  <2>. HIDE DEF before
  <2>. QED
    BY DEF AnnotateHealthFromMaps
<1>4. theirs = [i \in DOMAIN before |-> theirs[i]]
  <2>. HIDE DEF before
  <2>. QED
    BY DEF AnnotateHealthFromMaps
<1>5. CASE NotReported
  <2>1. \A i \in DOMAIN before : With(subvols, before[i].id) = {}
    BY <1>1, <1>5 DEF NotReported, With
  <2>2. listed = before
    BY <1>5 DEF NotReported
  <2>. HIDE DEF before, theirs
  <2>3. before = [i \in DOMAIN before |-> before[i]]
    BY DEF before, Unannotated
  <2>4. \A i \in DOMAIN before : theirs[i] = before[i]
    BY <1>3, <2>1
  <2>. QED
    BY <1>4, <2>2, <2>3, <2>4
<1>6. CASE Reports
  <2> DEFINE mine == AnnotateVolumesWithHealth(before,
                                               Report(subvols, maps).volumes)
  <2>1. listed = mine
    BY <1>6 DEF Reports
  <2>2. \A i \in DOMAIN before : mine[i] = theirs[i]
    BY <1>2, <1>3, AnnotatedEntry DEF HealthInv
  <2>3. mine = [i \in DOMAIN before |-> mine[i]]
    <3>. HIDE DEF before
    <3>. QED
      BY DEF AnnotateVolumesWithHealth
  <2>. HIDE DEF before, mine, theirs
  <2>. QED
    BY <1>4, <2>1, <2>2, <2>3
<1>. QED
  BY <1>5, <1>6 DEF HealthInv, ReportInv

(* The volumes that are not healthy. *)
Bad == {i \in Named(subvols) :
          VolumeHealth(subvols[i], maps).status # "Healthy"}

(* What CheckVolumeHealth counts. *)
LEMMA ReportCounts ==
    ASSUME TypeOK
    PROVE  /\ DOMAIN Report(subvols, maps).problems = Bad
           /\ Report(subvols, maps).degraded = 0
           /\ Report(subvols, maps).unhealthy = Cardinality(Bad)
           /\ Cardinality(Bad) \in Nat /\ IsFiniteSet(Bad)
<1> DEFINE healths == [i \in Named(subvols) |-> VolumeHealth(subvols[i], maps)]
<1>1. \A i \in Named(subvols) :
        VolumeHealth(subvols[i], maps).status \in {"Healthy", "Unhealthy"}
  BY StatusOfIssues DEF VolumeHealth
<1>2. /\ Report(subvols, maps).degraded
           = Cardinality(OfStatus(healths, "Degraded"))
      /\ Report(subvols, maps).unhealthy
           = Cardinality(OfStatus(healths, "Unhealthy"))
  BY DEF Report
<1>3. OfStatus(healths, "Degraded") = {}
  BY <1>1 DEF OfStatus
<1>4. OfStatus(healths, "Unhealthy") = Bad
  BY <1>1 DEF OfStatus, Bad
<1>5. DOMAIN Report(subvols, maps).problems = Bad
  BY ReportDef DEF Bad
<1>6. IsFiniteSet(Bad)
  <2>1. PICK n \in Nat : DOMAIN subvols = 1 .. n
    BY ListType
  <2>2. IsFiniteSet(1 .. n)
    BY <2>1, FS_Interval
  <2>3. Bad \subseteq 1 .. n
    BY <2>1 DEF Named, Bad
  <2>. QED
    BY <2>2, <2>3, FS_Subset
<1>7. Cardinality({}) = 0
  BY FS_EmptySet
<1>. HIDE DEF healths
<1>. QED
  BY <1>2, <1>3, <1>4, <1>5, <1>6, <1>7, FS_CardinalityType

(* The entries of the caller's list that the report has a problem with.    *)
Troubled == {i \in DOMAIN listed : With(report.problems, listed[i].id) # {}}

LEMMA ProblemsWith ==
    ASSUME Reports, NEW id
    PROVE  \A k : k \in With(report.problems, id) <=>
                    k \in Bad /\ subvols[k].id = id
<1>1. \A k : k \in DOMAIN report.problems <=> k \in Bad
  BY ReportDef DEF Reports, Bad
<1>2. ASSUME NEW k \in DOMAIN report.problems
      PROVE  report.problems[k].id = subvols[k].id
  <2>1. report.problems[k] = VolumeHealth(subvols[k], maps)
    BY ReportDef DEF Reports
  <2>. QED
    BY <2>1 DEF VolumeHealth
<1>. QED
  BY <1>1, <1>2 DEF With

(* Without a name that occurs twice, the volumes that the annotation calls *)
(* unhealthy are those in trouble.                                         *)
LEMMA SummaryIsTroubled ==
    ASSUME HealthInv, step = 6, DistinctNames(subvols)
    PROVE  CalculateSummary(listed).unhealthy = Cardinality(Troubled)
<1> DEFINE good == {i \in DOMAIN listed : listed[i].status \in {"", "Healthy"}}
<1>1. CalculateSummary(listed).unhealthy = Cardinality(DOMAIN listed \ good)
  BY DEF CalculateSummary
<1>2. SUFFICES ASSUME NEW i \in DOMAIN listed
               PROVE  i \in good <=> i \notin Troubled
  <2>1. DOMAIN listed \ good = Troubled
    BY <1>2 DEF Troubled
  <2>. QED
    BY <1>1, <2>1
<1>3. CASE NotReported
  <2>1. listed[i].status = ""
    <3>1. Unannotated(listed)[i].status = ""
      BY DEF Unannotated
    <3>. QED
      BY <1>3, <3>1 DEF NotReported
  <2>2. With(report.problems, listed[i].id) = {}
    BY <1>3, NoReport DEF With
  <2>. QED
    BY <2>1, <2>2 DEF Troubled
<1>4. CASE Reports
  <2> DEFINE before == Unannotated(listed)
             id     == listed[i].id
             same   == With(subvols, id)
  <2>1. /\ i \in DOMAIN before /\ before[i] \in Volumes
        /\ before[i].id = id /\ before[i].status = "" /\ id # None
    BY ListType DEF HealthInv, Unannotated, Volumes
  <2>2. listed = AnnotateVolumesWithHealth(before, Report(subvols, maps).volumes)
    BY <1>4 DEF Reports
  <2>3. CASE same = {}
    <3>1. AnnotateVolumesWithHealth(before, Report(subvols, maps).volumes)[i]
            = before[i]
      BY <2>1, <2>3, AnnotatedEntry DEF HealthInv
    <3>2. listed[i].status = ""
      BY <2>1, <2>2, <3>1
    <3>3. With(report.problems, id) = {}
      BY <1>4, <2>3, ProblemsWith DEF With, Bad, Named
    <3>. QED
      BY <3>2, <3>3 DEF Troubled
  <2>4. CASE same # {}
    <3> DEFINE last == Max(same)
    <3>1. last \in same /\ last \in Named(subvols) /\ subvols[last].id = id
      BY <2>1, <2>4, LastOfName DEF HealthInv, With
    <3>2. AnnotateVolumesWithHealth(before, Report(subvols, maps).volumes)[i]
            = Annotated(before[i], VolumeHealth(subvols[last], maps))
      BY <2>1, <2>4, AnnotatedEntry DEF HealthInv
    <3>3. listed[i].status = VolumeHealth(subvols[last], maps).status
      <4>1. Annotated(before[i], VolumeHealth(subvols[last], maps)).status
              = VolumeHealth(subvols[last], maps).status
        <5>1. before[i] \in Volumes
          BY <2>1
        <5>. HIDE DEF before, last
        <5>. QED
          BY <5>1, AnnotatedFields
      <4>. HIDE DEF before, last
      <4>2. listed[i] = Annotated(before[i], VolumeHealth(subvols[last], maps))
        BY <2>2, <3>2
      <4>. QED
        BY <4>1, <4>2
    <3>4. VolumeHealth(subvols[last], maps).status \in {"Healthy", "Unhealthy"}
      BY StatusOfIssues DEF VolumeHealth
    <3>5. \A k \in Named(subvols) : subvols[k].id = id => k = last
      BY <3>1 DEF DistinctNames
    <3>6. i \in Troubled <=> last \in Bad
      <4>. HIDE DEF last
      <4>1. \A k : k \in With(report.problems, id) <=>
                     k \in Bad /\ subvols[k].id = id
        BY <1>4, ProblemsWith
      <4>2. Bad \subseteq Named(subvols)
        BY DEF Bad
      <4>. QED
        BY <3>1, <3>5, <4>1, <4>2 DEF Troubled
    <3>. HIDE DEF last
    <3>7. last \in Bad <=> listed[i].status # "Healthy"
      BY <3>1, <3>3 DEF Bad
    <3>8. listed[i].status \in {"Healthy", "Unhealthy"}
      BY <3>3, <3>4
    <3>. QED
      BY <3>6, <3>7, <3>8
  <2>. QED
    BY <2>3, <2>4
<1>. QED
  BY <1>3, <1>4 DEF HealthInv, ReportInv

(* A list that has every reported volume once has as many in trouble as    *)
(* the report has problems.                                                *)
LEMMA TroubledAreBad ==
    ASSUME HealthInv, Reports, DistinctNames(subvols), DistinctNames(listed),
           NamesOf(listed) = NamesOf(report.volumes)
    PROVE  Cardinality(Troubled) = Cardinality(Bad)
<1> DEFINE place(k) == CHOOSE i \in DOMAIN listed : listed[i].id = subvols[k].id
           f        == [k \in Bad |-> place(k)]
<1>1. Bad \subseteq Named(subvols) /\ Bad \subseteq DOMAIN subvols
  BY DEF Bad, Named
<1>2. ASSUME NEW k \in Bad
      PROVE  /\ place(k) \in DOMAIN listed
             /\ listed[place(k)].id = subvols[k].id
  <2>1. k \in Named(report.volumes) /\ report.volumes[k].id = subvols[k].id
    <3>1. /\ k \in DOMAIN report.volumes
          /\ report.volumes[k] = VolumeHealth(subvols[k], maps)
      BY <1>1, ReportDef DEF Reports
    <3>2. report.volumes[k].id = subvols[k].id /\ subvols[k].id # None
      BY <1>1, <3>1 DEF VolumeHealth, Named
    <3>. QED
      BY <3>1, <3>2 DEF Named
  <2>2. subvols[k].id \in NamesOf(listed)
    BY <2>1 DEF NamesOf
  <2>. QED
    BY <2>2 DEF NamesOf, Named
<1>3. \A i \in DOMAIN listed :
        i \in Troubled <=> \E k \in Bad : subvols[k].id = listed[i].id
  BY ProblemsWith DEF Troubled
<1>. HIDE DEF place
<1>4. \A k \in Bad : place(k) \in Troubled
  BY <1>2, <1>3
<1>5. f \in Injection(Bad, Troubled)
  <2>1. f \in [Bad -> Troubled]
    BY <1>4
  <2>2. \A k, l \in Bad : f[k] = f[l] => k = l
    BY <1>1, <1>2 DEF DistinctNames
  <2>. QED
    BY <2>1, <2>2, Fun_IsInj
<1>6. f \in Surjection(Bad, Troubled)
  <2>1. ASSUME NEW i \in Troubled
        PROVE  \E k \in Bad : f[k] = i
    <3>1. i \in DOMAIN listed
      BY DEF Troubled
    <3>2. PICK k \in Bad : subvols[k].id = listed[i].id
      BY <1>3, <3>1
    <3>3. place(k) \in Named(listed) /\ i \in Named(listed)
      BY <1>2, <3>1, ListType DEF HealthInv, Named
    <3>4. place(k) = i
      BY <1>2, <3>2, <3>3 DEF DistinctNames
    <3>. QED
      BY <3>4
  <2>2. f \in [Bad -> Troubled]
    BY <1>4
  <2>. QED
    BY <2>1, <2>2, Fun_IsSurj
<1>7. ExistsBijection(Bad, Troubled)
  BY <1>5, <1>6 DEF ExistsBijection, Bijection
<1>8. IsFiniteSet(Bad)
  BY ReportCounts DEF HealthInv
<1>. QED
  BY <1>7, <1>8, FS_Bijection

LEMMA SummaryIsOfReport ==
    ASSUME HealthInv
    PROVE  SummaryMatchesReport
<1>1. SUFFICES
        ASSUME step = 6, DistinctNames(subvols)
        PROVE  /\ CalculateSummary(listed).unhealthy = Cardinality(Troubled)
               /\ (/\ DistinctNames(listed)
                   /\ NamesOf(listed) = NamesOf(report.volumes)) =>
                     Cardinality(Troubled) = report.degraded + report.unhealthy
  BY DEF SummaryMatchesReport, Troubled
<1>2. CASE NotReported
  <2>1. Troubled = {}
    BY <1>2, NoReport DEF Troubled, With
  <2>2. Named(<<>>) = {}
    BY DEF Named
  <2>3. report.degraded = Cardinality({}) /\ report.unhealthy = Cardinality({})
    BY <1>2, <2>2 DEF NotReported, Report, OfStatus
  <2>4. Cardinality({}) = 0
    BY FS_EmptySet
  <2>. QED
    BY <1>1, <2>1, <2>3, <2>4, SummaryIsTroubled
<1>3. CASE Reports
  <2>1. report.degraded + report.unhealthy = Cardinality(Bad)
    BY <1>3, ReportCounts DEF HealthInv, Reports
  <2>. QED
    BY <1>1, <1>3, <2>1, SummaryIsTroubled, TroubledAreBad
<1>. QED
  BY <1>2, <1>3 DEF HealthInv, ReportInv

(***************************************************************************)
(* The theorems.                                                           *)
(***************************************************************************)

(* What the check holds is of the kinds the code gives it: every entry of  *)
(* a report has a status, and is of a subvolume the server listed.         *)
THEOREM HealthTypeCorrect == Spec => []TypeOK
<1>1. HealthInv => TypeOK
  BY DEF HealthInv
<1>. QED
  BY <1>1, HealthInvariance, PTL

(* CheckVolumeHealth makes no false alarm, except of volumes whose list it *)
(* could not get.                                                          *)
THEOREM ProblemsWereProblems == Spec => []ProblemsAreReal
<1>1. HealthInv => ProblemsAreReal
  BY ProblemIsReal
<1>. QED
  BY <1>1, HealthInvariance, PTL

(* A volume that CheckVolumeHealth calls healthy had its share or target.  *)
THEOREM HealthyWereHealthy == Spec => []HealthyWasPresent
<1>1. HealthInv => HealthyWasPresent
  BY HealthyIsReal
<1>. QED
  BY <1>1, HealthInvariance, PTL

(* The two ways of annotating the caller's list agree, also on subvolumes  *)
(* that share a name and on volumes that the check does not see.           *)
THEOREM SameAnnotations == Spec => []AnnotationsAgree
<1>1. HealthInv => AnnotationsAgree
  BY AnnotationsDoAgree
<1>. QED
  BY <1>1, HealthInvariance, PTL

(* When no two subvolumes carry one name, the summary of any earlier list  *)
(* counts as unhealthy its volumes that the report has a problem with, and *)
(* as many as the report does when the list has every reported volume once. *)
THEOREM SummaryCountsProblems == Spec => []SummaryMatchesReport
<1>1. HealthInv => SummaryMatchesReport
  BY SummaryIsOfReport
<1>. QED
  BY <1>1, HealthInvariance, PTL
=============================================================================
