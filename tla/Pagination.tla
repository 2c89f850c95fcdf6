----------------------------- MODULE Pagination -----------------------------
(***************************************************************************)
(* dashboard/pagination.go: a user pages through a list of volumes,        *)
(* snapshots, clones or unmanaged volumes, all four of which are           *)
(* filtered, sorted and sliced alike.  An item is its place in the list as *)
(* the server sent it, the value of the field sorted by, and whether the   *)
(* search matches it.  The caller either fetches the list anew for every   *)
(* request or keeps the slice it passed in, which the sort permutes; the   *)
(* snapshots that dashboard/data.go lists come filesystem by filesystem,   *)
(* in an order that differs from request to request.                       *)
(***************************************************************************)
EXTENDS Integers, SequencesExt

CONSTANTS
    MaxItems,        \* bound: items in a list
    Keys,            \* values of the field sorted by
    Orders,          \* orders asked for
    RawNumbers,      \* numbers in requests; 0 is what Atoi refuses
    MinPageSize,     \* minPageSize (10 in the code)
    MaxPageSize,     \* maxPageSize (200)
    DefaultPageSize  \* defaultPageSize (50)

ASSUME PaginationAssumption ==
    /\ MaxItems \in Nat \ {0} /\ Keys \subseteq Nat /\ RawNumbers \subseteq Nat
    /\ Orders \subseteq {"asc", "desc"} /\ Orders # {}
    /\ MinPageSize \in Nat \ {0}
    /\ MaxPageSize \in Nat /\ DefaultPageSize \in MinPageSize .. MaxPageSize

VARIABLES
    kept,    \* TRUE: the caller paginates one slice again and again
    border,  \* where the list's second filesystem begins; 0: has only one
    source,  \* the list as the server sends it
    slice,   \* the list in the caller's hands
    request, \* PaginationParams of the last request
    page,    \* the page it returned
    walk     \* history: the pages shown from page 1 to this one

vars == <<kept, border, source, slice, request, page, walk>>

Lists ==
    {[i \in DOMAIN l |-> [place |-> i, key |-> l[i][1], match |-> l[i][2]]] :
        l \in BoundedSeq(Keys \X BOOLEAN, MaxItems)}

Params == [page : Nat \ {0}, pageSize : MinPageSize .. MaxPageSize,
           query : BOOLEAN, sort : BOOLEAN, order : Orders]

(* A mutant: a large page size is taken as it is. *)
ParseUnbounded(number, size, query, sort, order) ==
    [page |-> IF number < 1 THEN 1 ELSE number,
     pageSize |-> IF size < MinPageSize THEN DefaultPageSize ELSE size,
     query |-> query, sort |-> sort, order |-> order]

ParsePaginationParams(number, size, query, sort, order) ==
    [page |-> IF number < 1 THEN 1 ELSE number,
     pageSize |-> IF size < MinPageSize THEN DefaultPageSize
                  ELSE IF size > MaxPageSize THEN MaxPageSize ELSE size,
     query |-> query, sort |-> sort, order |-> order]

Matches(item) == item.match

(* A mutant: equal keys count as smaller. *)
BeforeOrEqual(x, y, order) ==
    IF order = "desc" THEN x.key > y.key ELSE x.key <= y.key

(* The less function: descending negates it, so that equals precede each   *)
(* other.                                                                  *)
Before(x, y, order) ==
    IF order = "desc" THEN ~(x.key < y.key) ELSE x.key < y.key

(* An item moves left past all that it is Before.                          *)
Inserted(done, item, order) ==
    LET stays == {j \in DOMAIN done : ~Before(item, done[j], order)}
    IN  InsertAt(done, Max(stays \cup {0}) + 1, item)

(* sort.SliceStable on the at most 20 items it sorts by insertion: done[n] *)
(* has the first n of them.                                                *)
Sorted(list, order) ==
    LET done[n \in 0 .. Len(list)] ==
          IF n = 0 THEN <<>> ELSE Inserted(done[n - 1], list[n], order)
    IN  done[Len(list)]

(* A mutant: the last, partly filled page is not counted. *)
TotalPagesFloor(total, size) == Max({1, total \div size})

TotalPages(total, size) == Max({1, (total + size - 1) \div size})

(* The loop of the search: found[n] has what matches of the first n items. *)
Found(list) ==
    LET found[n \in 0 .. Len(list)] ==
          IF n = 0 THEN <<>>
          ELSE IF Matches(list[n]) THEN Append(found[n - 1], list[n])
          ELSE found[n - 1]
    IN  found[Len(list)]

Filtered(list, p) == IF p.query THEN Found(list) ELSE list

Arranged(list, p) ==
    IF p.sort THEN Sorted(Filtered(list, p), p.order) ELSE Filtered(list, p)

(* paginationMeta, and the window on the items found.                      *)
PageOf(found, p) ==
    LET total  == Len(found)
        pages  == TotalPages(total, p.pageSize)
        number == Min({p.page, pages})
        start  == Min({(number - 1) * p.pageSize, total})
        end    == Min({start + p.pageSize, total})
    IN  [items |-> SubSeq(found, start + 1, end),
         number |-> number, totalItems |-> total, totalPages |-> pages,
         hasPrev |-> number > 1, hasNext |-> number < pages]

(* A mutant: the page is cut out first and sorted then. *)
PaginateThenSort(list, p) ==
    LET cut == PageOf(Filtered(list, p), p)
    IN  IF p.sort THEN [cut EXCEPT !.items = Sorted(@, p.order)] ELSE cut

(* PaginateVolumes and its three siblings. *)
Paginate(list, p) == PageOf(Arranged(list, p), p)

TypeOK ==
    /\ kept \in BOOLEAN /\ border \in 0 .. MaxItems - 1
    /\ source \in Lists /\ ToSet(slice) = ToSet(source)
    /\ request \in Params
    /\ page.totalItems \in 0 .. Len(source)
    /\ Len(page.items) <= MaxPageSize
    /\ \A k \in DOMAIN walk : ToSet(walk[k]) \subseteq ToSet(source)

(* FindManagedSnapshots ranges over a map of filesystems.                  *)
Supplied ==
    IF kept THEN {slice}
    ELSE {source, SubSeq(source, border + 1, Len(source))
                    \o SubSeq(source, 1, border)}

(* The page a request gets, and what the sort leaves in the slice: with a  *)
(* search it is a copy that is sorted.                                     *)
Show(p) ==
    \E list \in Supplied :
        /\ request' = p
        /\ page' = Paginate(list, p)
        /\ slice' = IF p.sort /\ ~p.query THEN Sorted(list, p.order) ELSE list
        /\ UNCHANGED <<kept, border, source>>

FirstPage == [page |-> 1, pageSize |-> DefaultPageSize, query |-> FALSE,
              sort |-> FALSE, order |-> CHOOSE o \in Orders : TRUE]

Init ==
    /\ kept \in BOOLEAN
    /\ source \in Lists /\ slice = source
    /\ border \in {0} \cup (IF kept THEN {} ELSE 1 .. Len(source) - 1)
    /\ request = FirstPage
    /\ page = Paginate(source, FirstPage)
    /\ walk = <<page.items>>

(* Any page of any view; what is shown from page 1 on is remembered. *)
Open ==
    \E number, size \in RawNumbers, query, sort \in BOOLEAN,
       order \in Orders :
        /\ Show(ParsePaginationParams(number, size, query, sort, order))
        /\ walk' = IF page'.number = 1 THEN <<page'.items>> ELSE <<>>

Turned(by) == [request EXCEPT !.page = page.number + by]

NextPage ==
    /\ page.hasNext
    /\ Show(Turned(1))
    /\ walk' = IF walk = <<>> THEN walk ELSE Append(walk, page'.items)

PrevPage ==
    /\ page.hasPrev
    /\ Show(Turned(-1))
    /\ walk' = IF walk = <<>> THEN walk ELSE Front(walk)

Next == Open \/ NextPage \/ PrevPage

Spec == Init /\ [][Next]_vars

(***************************************************************************)
(* Properties.                                                             *)
(***************************************************************************)

Shown == FlattenSeq(walk)

Wanted == {s \in ToSet(source) : request.query => s.match}

(* The pages are windows on one list if the list has a fixed order, if a   *)
(* sort by different keys gives it one, or if the caller's slice is left   *)
(* as it is or sorted by a stable ascending sort.  In the remaining cases  *)
(* an item may be shown twice and another never: a descending sort of a    *)
(* kept slice reverses equal items at every page, and snapshots of two     *)
(* filesystems change places unless a sort by different keys arranges them.*)
Determined ==
    \/ ~kept /\ border = 0
    \/ request.sort /\ IsInjective([s \in Wanted |-> s.key])
    \/ kept /\ (request.sort => request.query \/ request.order = "asc")

(* Turning pages from the first to the last shows every item the search    *)
(* finds exactly once, in the order asked for, wherever the order of the   *)
(* list is determined; also of a list that each request gets in another    *)
(* order.                                                                  *)
WalkShowsEachOnce ==
    (walk # <<>> /\ ~page.hasNext /\ Determined) =>
        /\ ToSet(Shown) = Wanted
        /\ Len(Shown) = page.totalItems
        /\ \A i, j \in DOMAIN Shown : (request.sort /\ i < j) =>
             IF request.order = "asc" THEN Shown[i].key <= Shown[j].key
                                      ELSE Shown[i].key >= Shown[j].key

(* Whatever number and size a request carries, its page is full unless it  *)
(* is the last one, and is empty only when nothing was found.              *)
PageIsFull ==
    /\ page.hasNext => Len(page.items) = request.pageSize
    /\ page.items = <<>> => page.totalItems = 0
    /\ page.hasNext <=> page.number * request.pageSize < page.totalItems

(* Turning back shows the page that was shown before, wherever the order   *)
(* of the list is determined.                                              *)
TurningBackShowsTheSame ==
    [][(PrevPage /\ Len(walk) > 1 /\ Determined)
           => page'.items = walk[Len(walk) - 1]]_vars
=============================================================================
