---------------------------- MODULE PhotoPaging ----------------------------
(***************************************************************************)
(* The list of photos of HelloKtorfit's greeting screen: PhotoSource loads *)
(* pages of the server's list by number and size, the Paging library asks  *)
(* it for them and presents them, and the screen deletes photos by their   *)
(* row and refreshes. The first load of a generation is three pages long.  *)
(***************************************************************************)
EXTENDS Naturals, FiniteSets, Sequences, SequencesExt

CONSTANTS
  PageSize,
  Photos,   \* photos the server has at first
  Jobs,     \* coroutines of the screen that may be alive at a time
  Presses,  \* bound: how often delete is pressed or the list pulled
  Visits    \* bound: how often the screen is entered

ASSUME PageSizeAssumption == PageSize \in Nat \ {0}
ASSUME BoundsAssumption == Photos \in Nat /\ Presses \in Nat /\ Visits \in Nat \ {0}

VARIABLES
  server,    \* the server's list of photos
  pages,     \* pages presented: [key, data]
  refresh,   \* loadState.refresh: "idle" (NotLoading), "loading", "error"
  key,       \* page number the refresh that is loading asks for, or 0
  wanted,    \* refresh() was called and the library has not begun with it
  stuck,     \* directions in which a load failed: nothing retries it
  jobs,      \* coroutines: [stage, index, photo], with history: seen, the photo in the
             \* row pressed, and moved, that rows may have moved between press and lookup
  spinning,  \* isRefreshing
  crashed,
  visits, presses,
  changed,   \* history: the server's list is not the one this generation began with
  origin     \* history: the page number that generation began with

screen == <<jobs, spinning, crashed, visits, presses>>
paging == <<pages, refresh, key, stuck, origin>>
vars == <<server, changed, paging, wanted, screen>>

Job(stage, index, photo, seen) ==
  [stage |-> stage, index |-> index, photo |-> photo, seen |-> seen, moved |-> FALSE]
Idle == Job("idle", 0, 0, 0)
Rows == FlattenSeq([i \in DOMAIN pages |-> pages[i].data])

Init ==
  /\ server = [i \in 1 .. Photos |-> i]
  /\ pages = << >> /\ refresh = "loading" /\ key = 1 /\ stuck = {}
  /\ wanted = TRUE
  /\ jobs = [j \in Jobs |-> Idle]
  /\ spinning = FALSE /\ crashed = FALSE
  /\ visits = 1 /\ presses = 0
  /\ changed = FALSE /\ origin = 1

-----------------------------------------------------------------------------
(* PhotoSource and the Pager.                                              *)

\* The server's page number index of the given size, as much of it as there is.
GetPhotosPage(index, size) ==
  LET in == {i \in DOMAIN server : (index - 1) * size < i /\ i <= index * size}
  IN  [n \in 1 .. Cardinality(in) |-> server[(index - 1) * size + n]]

\* The next page is asked for under the next number, with a smaller size after the
\* first load; one mutant counts the pages on as if it skipped one.
NextKeySkips(page) == page.key + 2
NextKey(page) == page.key + 1
HasNext(page) == page.data # << >>
HasPrev(page) == page.key > 1

\* The number of the page closest to the last row looked at, whatever that page's size.
RefreshKeys ==
  {1} \union {pages[i].key : i \in {i \in DOMAIN pages : pages[i].data # << >>}}

RefreshBegins ==
  /\ wanted
  /\ wanted' = FALSE
  /\ refresh' = "loading"
  /\ key' \in RefreshKeys
  /\ UNCHANGED <<server, pages, stuck, changed, origin, screen>>

RowsMove == jobs' = [j \in Jobs |-> [jobs[j] EXCEPT !.moved = @ \/ jobs[j].stage = "pressed"]]

\* The first load: the rows presented so far are replaced.
RefreshArrives ==
  /\ refresh = "loading"
  /\ pages' = <<[key |-> key, data |-> GetPhotosPage(key, 3 * PageSize)]>>
  /\ refresh' = "idle" /\ key' = 0
  /\ stuck' = {}
  /\ changed' = FALSE /\ origin' = key
  /\ RowsMove
  /\ UNCHANGED <<server, wanted, spinning, crashed, visits, presses>>

LoadFails ==
  /\ IF refresh = "loading"
     THEN refresh' = "error" /\ key' = 0 /\ UNCHANGED stuck
     ELSE /\ refresh = "idle" /\ pages # << >>
          /\ stuck' \in {stuck \union {d} : d \in {"append", "prepend"}}
          /\ UNCHANGED <<refresh, key>>
  /\ UNCHANGED <<server, pages, wanted, screen, changed, origin>>

AppendPage ==
  /\ refresh = "idle" /\ "append" \notin stuck
  /\ pages # << >> /\ HasNext(Last(pages))
  /\ LET k == NextKey(Last(pages))
     IN  pages' = Append(pages, [key |-> k, data |-> GetPhotosPage(k, PageSize)])
  /\ UNCHANGED <<server, refresh, key, stuck, wanted, screen, changed, origin>>

PrependPage ==
  /\ refresh = "idle" /\ "prepend" \notin stuck
  /\ pages # << >> /\ HasPrev(pages[1])
  /\ LET k == pages[1].key - 1
     IN  pages' = <<[key |-> k, data |-> GetPhotosPage(k, PageSize)]>> \o pages
  /\ RowsMove
  /\ UNCHANGED <<server, refresh, key, stuck, wanted, changed, origin, spinning, crashed, visits, presses>>

-----------------------------------------------------------------------------
(* The screen. Its list is only there while refresh is idle.               *)

Without(list, photos) ==
  LET kept[n \in 0 .. Len(list)] ==
        IF n = 0 THEN << >>
        ELSE IF list[n] \in photos THEN kept[n - 1] ELSE Append(kept[n - 1], list[n])
  IN  kept[Len(list)]

TakeAway(photos) ==
  /\ server' = Without(server, photos)
  /\ changed' = (changed \/ server' # server)

\* Entering the screen again: the coroutines of the last visit are cancelled, which
\* the server may notice too late.
Return ==
  /\ visits < Visits
  /\ visits' = visits + 1
  /\ jobs' = [j \in Jobs |-> Idle] /\ spinning' = FALSE
  /\ \E late \in SUBSET {j \in Jobs : jobs[j].stage = "deleting"} :
       TakeAway({jobs[j].photo : j \in late})
  /\ wanted' = TRUE
  /\ UNCHANGED <<paging, crashed, presses>>

\* The button under the error message.
Retry ==
  /\ refresh = "error"
  /\ wanted' = TRUE
  /\ UNCHANGED <<server, changed, paging, screen>>

Pull(j) ==
  /\ refresh = "idle" /\ jobs[j] = Idle /\ presses < Presses
  /\ presses' = presses + 1
  /\ jobs' = [jobs EXCEPT ![j].stage = "delay"]
  /\ spinning' = TRUE
  /\ UNCHANGED <<server, changed, paging, wanted, crashed, visits>>

\* The handler keeps the row; the coroutine it launches runs later.
PressDelete(j) ==
  /\ refresh = "idle" /\ jobs[j] = Idle /\ presses < Presses
  /\ presses' = presses + 1
  /\ \E i \in DOMAIN Rows :
       jobs' = [jobs EXCEPT ![j] = Job("pressed", i, 0, Rows[i])]
  /\ UNCHANGED <<server, changed, paging, wanted, spinning, crashed, visits>>

\* deleteById(photo = photos[index]!!): the row is looked up now; the mutant counts
\* the header as a row.
DeleteCallsWithHeader(j) ==
  /\ jobs[j].stage = "pressed"
  /\ IF jobs[j].index + 1 \in DOMAIN Rows
     THEN /\ jobs' = [jobs EXCEPT ![j].stage = "deleting", ![j].photo = Rows[jobs[j].index + 1]]
          /\ UNCHANGED crashed
     ELSE crashed' = TRUE /\ UNCHANGED jobs
  /\ UNCHANGED <<server, changed, paging, wanted, spinning, visits, presses>>
DeleteCalls(j) ==
  /\ jobs[j].stage = "pressed"
  /\ IF jobs[j].index \in DOMAIN Rows
     THEN /\ jobs' = [jobs EXCEPT ![j].stage = "deleting", ![j].photo = Rows[jobs[j].index]]
          /\ UNCHANGED crashed
     ELSE crashed' = TRUE /\ UNCHANGED jobs
  /\ UNCHANGED <<server, changed, paging, wanted, spinning, visits, presses>>

DeleteSucceeds(j) ==
  /\ jobs[j].stage = "deleting"
  /\ TakeAway({jobs[j].photo})
  /\ jobs' = [jobs EXCEPT ![j] = Job("delay", 0, 0, 0)]
  /\ spinning' = TRUE
  /\ UNCHANGED <<paging, wanted, crashed, visits, presses>>

\* The server refuses, or its answer is lost after it has deleted the photo.
DeleteFails(j) ==
  /\ jobs[j].stage = "deleting"
  /\ TakeAway({jobs[j].photo}) \/ UNCHANGED <<server, changed>>
  /\ jobs' = [jobs EXCEPT ![j] = Idle]
  /\ UNCHANGED <<paging, wanted, spinning, crashed, visits, presses>>

\* After three seconds.
DelayEnds(j) ==
  /\ jobs[j].stage = "delay"
  /\ wanted' = TRUE
  /\ jobs' = [jobs EXCEPT ![j].stage = "waiting"]
  /\ UNCHANGED <<server, changed, paging, spinning, crashed, visits, presses>>

\* first { it !is Loading }: also before the refresh has begun.
WaitEnds(j) ==
  /\ jobs[j].stage = "waiting" /\ refresh # "loading"
  /\ jobs' = [jobs EXCEPT ![j] = Idle]
  /\ spinning' = FALSE
  /\ UNCHANGED <<server, changed, paging, wanted, crashed, visits, presses>>

Coroutine(j) ==
  \/ Pull(j) \/ PressDelete(j) \/ DeleteCalls(j) \/ DeleteSucceeds(j) \/ DeleteFails(j)
  \/ DelayEnds(j) \/ WaitEnds(j)

Next ==
  /\ ~crashed
  /\ \/ RefreshBegins \/ RefreshArrives \/ LoadFails \/ AppendPage \/ PrependPage
     \/ Return \/ Retry
     \/ \E j \in Jobs : Coroutine(j)

Spec == Init /\ [][Next]_vars

-----------------------------------------------------------------------------
(* Properties.                                                             *)

TypeOK ==
  /\ server \in Seq(1 .. Photos)
  /\ pages \in Seq([key : Nat \ {0}, data : Seq(1 .. Photos)])
  /\ refresh \in {"idle", "loading", "error"}
  /\ key \in Nat /\ origin \in Nat \ {0}
  /\ key = 0 <=> refresh # "loading"
  /\ wanted \in BOOLEAN /\ changed \in BOOLEAN /\ spinning \in BOOLEAN /\ crashed \in BOOLEAN
  /\ stuck \subseteq {"append", "prepend"}
  /\ \A j \in Jobs :
       /\ jobs[j].stage \in {"idle", "pressed", "deleting", "delay", "waiting"}
       /\ jobs[j].stage = "deleting" => jobs[j].photo \in 1 .. Photos
  /\ visits \in 1 .. Visits /\ presses \in 0 .. Presses

\* The photo that is deleted is the one whose row was pressed, whatever other deletes,
\* pulls and appended pages come between, unless a refresh or a page put in front moved
\* the rows before the coroutine looked the row up; and only then can the row be gone,
\* which ends the process.
DeletesThePressed ==
  /\ \A j \in Jobs : jobs[j].stage = "deleting" /\ ~jobs[j].moved => jobs[j].photo = jobs[j].seen
  /\ crashed => \E j \in Jobs : jobs[j].stage = "pressed" /\ jobs[j].moved

\* When the list has been loaded to both ends and no photo was deleted meanwhile, every
\* photo is in it, unless it was refreshed from a page other than the first. Then the
\* photos of that page in the small size are missing, because the page was loaded in
\* the large size; and if the large page was past the end, all photos from there on.
LoadedToBothEnds ==
  /\ refresh = "idle" /\ pages # << >>
  /\ ~HasPrev(pages[1]) /\ ~HasNext(Last(pages))
Missing == ToSet(server) \ ToSet(Rows)
LossExplained ==
  TypeOK /\ (LoadedToBothEnds /\ ~changed =>
    Missing \subseteq
      IF 3 * PageSize * (origin - 1) < Len(server)
      THEN IF origin = 1 THEN {} ELSE ToSet(GetPhotosPage(origin, PageSize))
      ELSE ToSet(SubSeq(server, PageSize * (origin - 1) + 1, Len(server))))
=============================================================================
