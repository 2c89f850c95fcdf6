------------------------------- MODULE Health -------------------------------
(***************************************************************************)
(* dashboard/health.go: the health check of the managed volumes, which     *)
(* reads the subvolumes and then four lists of shares and targets one      *)
(* after the other while the storage changes, and its uses: the report,    *)
(* the two ways of annotating a volume list that the caller brings, and    *)
(* the summary of that list.                                               *)
(*                                                                         *)
(* NFS and SMB shares are found by path, NVMe-oF subsystems and iSCSI      *)
(* targets by the volume's name.  A volume of no known protocol has        *)
(* nothing to look for.                                                    *)
(***************************************************************************)
EXTENDS Integers, SequencesExt

CONSTANTS
    Protocols,  \* protocols of the volumes
    Ids,        \* CSI volume names
    Paths,      \* mount paths
    None,       \* a property or a path that is empty, no known protocol
    MaxVolumes, \* bound: subvolumes the server reports, volumes annotated
    MaxChanges  \* bound: changes of the storage during the check

(* The order in which buildHealthResourceMaps asks for them. *)
Kinds  == <<"nfs", "nvmeof", "smb", "iscsi">>
ByPath == {"nfs", "smb"}

ASSUME HealthAssumption ==
    /\ Protocols \subseteq ToSet(Kinds)
    /\ None \notin Ids \cup Paths \cup Protocols
    /\ MaxVolumes \in Nat /\ MaxChanges \in Nat

VARIABLES
    subvols,  \* the managed subvolumes, as the check has read them
    resource, \* shares and targets: "absent", "disabled" or "enabled"
    changes,  \* changes made so far
    step,     \* 0: read subvolumes; 1 .. 4: list a kind; 5: report; 6: done
    maps,     \* HealthResourceMaps as fetched
    report,   \* what CheckVolumeHealth returned
    listed,   \* the caller's volume list, which the check annotates
    failed,   \* history: the volumes' protocols whose query failed
    ever      \* history: the states each resource has had during the check

vars == <<subvols, resource, changes, step, maps, report, listed, failed,
          ever>>

States  == {"absent", "disabled", "enabled"}
Slots   == {s \in [kind : Protocols, key : Ids \cup Paths] :
              s.key \in IF s.kind \in ByPath THEN Paths ELSE Ids}
Subvols == [id : Ids \cup {None}, protocol : Protocols \cup {None},
            path : Paths \cup {None}]

(***************************************************************************)
(* The pure part.                                                          *)
(***************************************************************************)

KeyOf(sv)  == IF sv.protocol \in ByPath THEN sv.path ELSE sv.id
SlotOf(sv) == [kind |-> sv.protocol, key |-> KeyOf(sv)]

(* A mutant: whether a share is enabled is not looked at. *)
IssuesNotDisabled(sv, m) ==
    IF sv.protocol = None THEN <<>>
    ELSE IF KeyOf(sv) = None \/ m[SlotOf(sv)] = "absent" THEN <<"not found">>
    ELSE <<>>

(* CheckNFSHealth, CheckNVMeOFHealth, CheckSMBHealth, CheckISCSIHealth.    *)
Issues(sv, m) ==
    IF sv.protocol = None THEN <<>>
    ELSE IF KeyOf(sv) = None \/ m[SlotOf(sv)] = "absent" THEN <<"not found">>
    ELSE IF sv.protocol \in ByPath /\ m[SlotOf(sv)] = "disabled"
         THEN <<"disabled">>
    ELSE <<>>

(* A mutant: the entry starts without a status. *)
StatusUninitialised(issues) ==
    IF issues = <<>> THEN "" ELSE "Unhealthy"

(* No check writes an issue that leaves a volume "Degraded".               *)
Status(issues) ==
    CASE issues = <<>> -> "Healthy"
      [] ToSet(issues) \cap {"not found", "disabled"} # {} -> "Unhealthy"
      [] OTHER -> "Degraded"

VolumeHealth(sv, m) ==
    [id |-> sv.id, protocol |-> sv.protocol,
     issues |-> Issues(sv, m), status |-> Status(Issues(sv, m))]

(* Subvolumes without a CSI volume name are skipped everywhere.  What the  *)
(* code keeps in slices of the others is indexed by their places in the    *)
(* server's list, which are in the same order.                             *)
Named(list) == {i \in DOMAIN list : list[i].id # None}

OfStatus(healths, status) ==
    {i \in DOMAIN healths : healths[i].status = status}

(* The loop of CheckVolumeHealth. *)
Report(list, m) ==
    LET healths == [i \in Named(list) |-> VolumeHealth(list[i], m)]
    IN  [volumes |-> healths,
         problems |-> Restrict(healths,
                        DOMAIN healths \ OfStatus(healths, "Healthy")),
         healthy |-> Cardinality(OfStatus(healths, "Healthy")),
         degraded |-> Cardinality(OfStatus(healths, "Degraded")),
         unhealthy |-> Cardinality(OfStatus(healths, "Unhealthy"))]

(* ExtractVolumes: entries as they are before they are annotated.          *)
Unannotated(volumes) ==
    [i \in DOMAIN volumes |->
       [id |-> volumes[i].id, status |-> "", issue |-> ""]]

Annotated(v, h) ==
    [v EXCEPT !.status = h.status,
              !.issue = IF h.issues = <<>> THEN @ ELSE Head(h.issues)]

(* The places of the entries with an id.  A map filled in order holds the  *)
(* last of them.                                                           *)
With(entries, id) == {i \in DOMAIN entries : entries[i].id = id}

(* AnnotateVolumesWithHealth, with the report of its own check.            *)
AnnotateVolumesWithHealth(volumes, healths) ==
    [i \in DOMAIN volumes |->
       LET same == With(healths, volumes[i].id)
       IN  IF same = {} THEN volumes[i]
           ELSE Annotated(volumes[i], healths[Max(same)])]

(* A mutant: of two subvolumes with one name the first one is taken. *)
AnnotateFromFirst(volumes, list, m) ==
    [i \in DOMAIN volumes |->
       LET same == With(list, volumes[i].id)
       IN  IF same = {} THEN volumes[i]
           ELSE Annotated(volumes[i], VolumeHealth(list[Min(same)], m))]

(* AnnotateHealthFromMaps, from data fetched before.                       *)
AnnotateHealthFromMaps(volumes, list, m) ==
    [i \in DOMAIN volumes |->
       LET same == With(list, volumes[i].id)
       IN  IF same = {} THEN volumes[i]
           ELSE Annotated(volumes[i], VolumeHealth(list[Max(same)], m))]

(* A mutant: every volume with a status is counted as unhealthy. *)
SummaryOfUnannotated(volumes) ==
    LET good == {i \in DOMAIN volumes : volumes[i].status = ""}
    IN  [total |-> Cardinality(DOMAIN volumes), healthy |-> Cardinality(good),
         unhealthy |-> Cardinality(DOMAIN volumes \ good)]

(* CalculateSummary: a volume of unknown health counts as healthy.         *)
CalculateSummary(volumes) ==
    LET good == {i \in DOMAIN volumes : volumes[i].status \in {"", "Healthy"}}
    IN  [total |-> Cardinality(DOMAIN volumes), healthy |-> Cardinality(good),
         unhealthy |-> Cardinality(DOMAIN volumes \ good)]

(***************************************************************************)
(* The check.                                                              *)
(***************************************************************************)

NothingFetched == [s \in Slots |-> "absent"]

Volumes == [id : Ids, status : {"", "Healthy", "Degraded", "Unhealthy"},
            issue : {"", "not found", "disabled"}]

TypeOK ==
    /\ subvols \in BoundedSeq(Subvols, MaxVolumes)
    /\ listed \in BoundedSeq(Volumes, MaxVolumes)
    /\ resource \in [Slots -> States] /\ maps \in [Slots -> States]
    /\ changes \in 0 .. MaxChanges
    /\ step \in 0 .. 6
    /\ DOMAIN report.volumes \subseteq DOMAIN subvols
    /\ \A i \in DOMAIN report.volumes :
         report.volumes[i].status \in {"Healthy", "Degraded", "Unhealthy"}
    /\ failed \subseteq Protocols
    /\ ever \in [Slots -> SUBSET States]

(* The caller's list is of an earlier query, which may have been of one    *)
(* cluster only: it may lack volumes that the check will see, or have some *)
(* that are gone.                                                          *)
Init ==
    /\ subvols = <<>>
    /\ \E volumes \in BoundedSeq([id : Ids], MaxVolumes) :
         listed = Unannotated(volumes)
    /\ resource \in [Slots -> States]
    /\ changes = 0 /\ step = 0
    /\ maps = NothingFetched
    /\ report = Report(<<>>, NothingFetched)
    /\ failed = {}
    /\ ever = [s \in Slots |-> {resource[s]}]

(* A mutant: one list is forgotten. *)
SkipsNFS ==
    /\ step = 0 /\ step' = 2
    /\ subvols' \in BoundedSeq(Subvols, MaxVolumes)
    /\ UNCHANGED <<resource, changes, maps, report, listed, failed, ever>>

(* A query of its own, for the subvolumes of all clusters. *)
ReadSubvolumes ==
    /\ step = 0 /\ step' = 1
    /\ subvols' \in BoundedSeq(Subvols, MaxVolumes)
    /\ UNCHANGED <<resource, changes, maps, report, listed, failed, ever>>

(* Without the subvolumes there is no report, and the volumes stay as they *)
(* are.                                                                    *)
ReadFails ==
    /\ step = 0 /\ step' = 6
    /\ UNCHANGED <<subvols, resource, changes, maps, report, listed, failed,
                   ever>>

(* One of buildHealthResourceMaps' queries: its error is dropped.          *)
ListKind ==
    /\ step \in 1 .. 4 /\ step' = step + 1
    /\ \/ /\ maps' = [s \in Slots |->
                       IF s.kind = Kinds[step] THEN resource[s] ELSE maps[s]]
          /\ UNCHANGED failed
       \/ /\ failed' = failed \cup ({Kinds[step]} \cap Protocols)
          /\ UNCHANGED maps
    /\ UNCHANGED <<subvols, resource, changes, report, listed, ever>>

Finish ==
    /\ step = 5 /\ step' = 6
    /\ report' = Report(subvols, maps)
    /\ listed' = AnnotateVolumesWithHealth(listed, report'.volumes)
    /\ UNCHANGED <<subvols, resource, changes, maps, failed, ever>>

(* Somebody creates, enables, disables or deletes a share or a target.     *)
StorageChanges ==
    /\ step \in 0 .. 5 /\ changes < MaxChanges
    /\ \E s \in Slots, new \in States :
         /\ resource[s] # new
         /\ resource' = [resource EXCEPT ![s] = new]
         /\ ever' = [ever EXCEPT ![s] = @ \cup {new}]
    /\ changes' = changes + 1
    /\ UNCHANGED <<subvols, step, maps, report, listed, failed>>

Reported == step = 6 /\ UNCHANGED vars

Next == \/ ReadSubvolumes \/ ReadFails \/ ListKind \/ Finish
        \/ StorageChanges
        \/ Reported

Spec == Init /\ [][Next]_vars

(***************************************************************************)
(* Properties.                                                             *)
(***************************************************************************)

(* The states the share or target of the subvolume at a place has had.     *)
EverOf(i) == IF KeyOf(subvols[i]) = None THEN {"absent"}
             ELSE ever[SlotOf(subvols[i])]

(* It was missing or disabled at some moment.                              *)
WasMissing(i) == EverOf(i) \cap {"absent", "disabled"} # {}

(* A volume that CheckVolumeHealth reports as a problem had its share or   *)
(* target missing or disabled at some moment during the check, if the      *)
(* query that lists it succeeded: no change between the queries, and no    *)
(* failure of another one, makes a false alarm.                            *)
ProblemsAreReal ==
    \A i \in DOMAIN report.problems :
        report.problems[i].protocol \notin failed => WasMissing(i)

(* A volume reported as healthy had its share or target at some moment     *)
(* during the check, and a share was enabled then; unless its protocol is  *)
(* none of the four, whose volumes are healthy unchecked.                  *)
HealthyWasPresent ==
    \A i \in DOMAIN report.volumes :
      LET h == report.volumes[i]
      IN  (h.status = "Healthy" /\ h.protocol # None) =>
            EverOf(i) \cap (IF h.protocol \in ByPath THEN {"enabled"}
                            ELSE {"enabled", "disabled"}) # {}

(* AnnotateHealthFromMaps, on the data the check fetched, annotates the    *)
(* caller's list as AnnotateVolumesWithHealth does, also where several     *)
(* subvolumes carry one CSI volume name and where the check does not see   *)
(* a volume of the list.                                                   *)
AnnotationsAgree ==
    step = 6 => listed = AnnotateHealthFromMaps(Unannotated(listed),
                                                subvols, maps)

NamesOf(list) == {list[i].id : i \in Named(list)}

DistinctNames(list) ==
    \A i, j \in Named(list) : list[i].id = list[j].id => i = j

(* When no two subvolumes carry one name, the summary of the caller's list *)
(* counts as unhealthy exactly its volumes that are among the report's     *)
(* problems: one that the check does not see counts as healthy.  When the  *)
(* list has every reported volume once, that is what the report counts as  *)
(* degraded or unhealthy.                                                  *)
SummaryMatchesReport ==
    (step = 6 /\ DistinctNames(subvols)) =>
        LET unhealthy == CalculateSummary(listed).unhealthy
        IN  /\ unhealthy = Cardinality(
                 {i \in DOMAIN listed : With(report.problems, listed[i].id) # {}})
            /\ (/\ DistinctNames(listed)
                /\ NamesOf(listed) = NamesOf(report.volumes)) =>
                  unhealthy = report.degraded + report.unhealthy

(***************************************************************************)
(* What a comment of the code says and the code does not do.               *)
(***************************************************************************)

(* health.go:59: CheckVolumeHealth checks the health of the volumes, so a  *)
(* volume is a problem only if its share or target was missing or disabled *)
(* at some moment, also when a listing failed.                             *)
NoFalseAlarm == \A i \in DOMAIN report.problems : WasMissing(i)
=============================================================================
