------------------------------ MODULE ListPage ------------------------------
(***************************************************************************)
(* A list of the administration front end: its query, the loads it has in  *)
(* flight, the DataTable and the changes made from it.  The rows live in   *)
(* the API, each "on" (active, in the library), "off" (inactive, in the    *)
(* trash) or "gone" (deleted, or not created yet).                         *)
(*                                                                         *)
(* The lists differ in how a new filter brings the page number back to 1:  *)
(* most set both in one handler ("handler"), so that one load starts;      *)
(* app/media/page.tsx resets the number in an effect ("effect"), so that a *)
(* load of the old page number starts first.                               *)
(***************************************************************************)
EXTENDS FiniteSetsExt, Naturals, Ordering, SequencesExt

CONSTANTS
  Rows,      \* the rows there may be, numbers: also the order of the list
  Found,     \* the rows a search finds
  PER_PAGE,
  Actions,   \* bound: the changes made, of "create", "activate", "deactivate",
             \* "delete"
  MaxLoads   \* bound: loads in flight

ASSUME RowsAssumption == Rows \subseteq Nat /\ IsFiniteSet(Rows)
ASSUME FoundAssumption == Found \subseteq Rows
ASSUME PageAssumption == PER_PAGE \in Nat \ {0}
ASSUME ActionsAssumption == Actions \subseteq {"create", "activate", "deactivate", "delete"}
ASSUME LoadsAssumption == MaxLoads \in Nat \ {0}

VARIABLES
  list,       \* which list it is, as what tells the lists apart
  rows,       \* the API's rows: "on", "off" or "gone"
  query,      \* the filter and the page number of the last render
  table,      \* the rows and the total the page shows
  loading,    \* the page's loading flag
  error,      \* the page's error: shown instead of the table
  loads,      \* the loads in flight, oldest first
  change,     \* the change awaited, or NoChange (bound: one at a time)
  doubt       \* history: "shrunk" when a change made some list shorter or the
              \* pager was used while it still counted another query's rows;
              \* "overtaken" when an answer was overtaken or lost, a change came
              \* back to another query than it was sent from, or the table was
              \* edited in place

listVars == <<list, rows, query, table, loading, error, loads, change, doubt>>

Doubt(shrunk, overtaken) ==
  doubt' = IF overtaken THEN "overtaken"
           ELSE IF doubt = "none" /\ shrunk THEN "shrunk" ELSE doubt

NoChange == [action |-> "none"]
Done(q) == [action |-> "done", query |-> q]
-----------------------------------------------------------------------------
(* The lists.  "resets" is the page number's way back to 1, "pager" where  *)
(* the pager is, "filters" what a filter selects by, "bulk" and "single"   *)
(* the changes of several rows or of one that reload the list, "failure"   *)
(* what a failed load shows.  Sorting a column is one more filter, but     *)
(* keeps the page number; as it changes neither the rows that match nor    *)
(* how many there are, it is left out.                                     *)
TalentPage ==
  [resets |-> "handler", pager |-> "table", filters |-> "status",
   bulk |-> {"activate", "deactivate", "delete"}, single |-> {}, failure |-> "error"]

BookingsPage ==
  [resets |-> "handler", pager |-> "table", filters |-> "status",
   bulk |-> {}, single |-> {}, failure |-> "error"]

PaymentsPage ==
  [resets |-> "handler", pager |-> "table", filters |-> "status",
   bulk |-> {}, single |-> {}, failure |-> "error"]

CitiesPage ==
  [resets |-> "handler", pager |-> "table", filters |-> "text",
   bulk |-> {"activate", "deactivate", "delete"}, single |-> {"create"},
   failure |-> "error"]

LocationsPage == CitiesPage
CategoriesPage == CitiesPage
SubCategoriesPage == CitiesPage

MembershipPage ==
  [resets |-> "none", pager |-> "none", filters |-> "none",
   bulk |-> {}, single |-> {"create", "deactivate"}, failure |-> "error"]

MediaLibraryPage ==
  [resets |-> "effect", pager |-> "grid", filters |-> "library",
   bulk |-> {"deactivate"}, single |-> {"create", "activate", "delete"},
   failure |-> "error"]

MediaPickerModal ==
  [resets |-> "none", pager |-> "none", filters |-> "text",
   bulk |-> {}, single |-> {}, failure |-> "empty"]

Lists ==
  {TalentPage, BookingsPage, PaymentsPage, CitiesPage, LocationsPage, CategoriesPage,
   SubCategoriesPage, MembershipPage, MediaLibraryPage, MediaPickerModal}
-----------------------------------------------------------------------------
Filters ==
  CASE list.filters = "none" -> {"all"}
    [] list.filters = "library" -> {"all", "some", "trash"}
    [] OTHER -> {"all", "some"}

Matches(filter, r, status) ==
  CASE filter = "trash" -> status = "off"
    [] filter = "all" -> list.filters = "library" => status = "on"
    [] list.filters = "status" -> status = "on"
    [] OTHER -> r \in Found /\ (list.filters = "library" => status = "on")

Matching(filter, rs) == {r \in Rows : rs[r] # "gone" /\ Matches(filter, r, rs[r])}

PageCount(n) == Max({1, (n + PER_PAGE - 1) \div PER_PAGE})

(* What the API answers to a query when its rows are rs.  The plans come   *)
(* all at once.                                                            *)
Answer(q, rs) ==
  LET all == Ascending(Matching(q.filter, rs))
      from == (q.page - 1) * PER_PAGE + 1
      to == from + PER_PAGE - 1
      cut == IF list = MembershipPage THEN all
             ELSE SubSeq(all, from, Min({to, Len(all)}))
  IN [rows |-> [i \in DOMAIN cut |-> <<cut[i], rs[cut[i]]>>], total |-> Len(all)]

LoadOf(q) == [at |-> "API", query |-> q]
-----------------------------------------------------------------------------
(* load(): the flag is raised and the request sent.                        *)
Load(q) ==
  /\ Len(loads) < MaxLoads
  /\ loads' = Append(loads, LoadOf(q))
  /\ loading' = TRUE
  /\ error' = FALSE

(* DataTable keeps its rows and pager while it loads, and has neither when *)
(* the list is empty; the media page shows a skeleton while it loads, and  *)
(* a pager whenever there are several pages.                               *)
TableShown == ~ error /\ (loading \/ table.rows # <<>>)

PagerShown ==
  CASE list.pager = "table" -> TableShown
    [] list.pager = "grid" -> ~ error /\ ~ loading /\ table.total > PER_PAGE
    [] OTHER -> FALSE

(* Mutant: a new filter keeps the page number. *)
ChangeFilterSamePage(filter) ==
  LET q == [query EXCEPT !.filter = filter] IN
  /\ filter # query.filter
  /\ query' = q
  /\ Load(q)
  /\ UNCHANGED <<list, rows, table, change, doubt>>

(* updateFilter, or the effects of the media page one after the other; its *)
(* trash is entered and left by a handler that resets the number itself.   *)
ChangeFilter(filter) ==
  LET q == [query EXCEPT !.filter = filter, !.page = 1]
      old == [q EXCEPT !.page = query.page]
      late == list.resets = "effect" /\ "trash" \notin {filter, query.filter}
  IN /\ filter # query.filter
     /\ query' = q
     /\ IF late /\ query.page # 1
          THEN /\ Len(loads) + 1 < MaxLoads
               /\ loads' = loads \o <<LoadOf(old), LoadOf(q)>>
               /\ loading' = TRUE
               /\ error' = FALSE
          ELSE Load(q)
     /\ UNCHANGED <<list, rows, table, change, doubt>>

(* The pager's buttons, Previous and Next, disabled at their ends.         *)
ChangePage(page) ==
  LET q == [query EXCEPT !.page = page] IN
  /\ PagerShown
  /\ \/ query.page > 1 /\ page = query.page - 1
     \/ query.page < PageCount(table.total) /\ page = query.page + 1
  /\ query' = q
  /\ Load(q)
  /\ Doubt(loads # <<>>, FALSE)
  /\ UNCHANGED <<list, rows, table, change>>
-----------------------------------------------------------------------------
LoadServed(i) ==
  /\ loads[i].at = "API"
  /\ loads' = [loads EXCEPT ![i] = [at |-> "back", answer |-> Answer(@.query, rows)]]
  /\ UNCHANGED <<list, rows, query, table, loading, error, change, doubt>>

(* Whichever answer comes last is shown: nothing cancels an older load,    *)
(* and an error an older one left is not cleared.                          *)
LoadArrives(i) ==
  /\ loads[i].at = "back"
  /\ table' = loads[i].answer
  /\ loads' = RemoveAt(loads, i)
  /\ loading' = FALSE
  /\ Doubt(FALSE, i # 1)
  /\ UNCHANGED <<list, rows, query, error, change>>

(* Mutant: a failed load leaves the flag up. *)
LoadFailsLoading(i) ==
  /\ loads' = RemoveAt(loads, i)
  /\ error' = TRUE
  /\ UNCHANGED <<list, rows, query, table, loading, change, doubt>>

(* A failed load clears the flag too (finally) and shows the error; the    *)
(* picker shows no images instead.                                         *)
LoadFails(i) ==
  /\ loads' = RemoveAt(loads, i)
  /\ loading' = FALSE
  /\ IF list.failure = "error"
       THEN error' = TRUE /\ UNCHANGED <<table, doubt>>
       ELSE /\ table' = [rows |-> <<>>, total |-> 0]
            /\ Doubt(FALSE, TRUE)
            /\ UNCHANGED error
  /\ UNCHANGED <<list, rows, query, change>>

(* ErrorState's button.                                                    *)
Retry ==
  /\ error
  /\ Load(query)
  /\ UNCHANGED <<list, rows, query, table, change, doubt>>
-----------------------------------------------------------------------------
(* A change is sent from this render: its load() will use this query.  The *)
(* ids of a bulk action are those ticked so far, on whichever page or      *)
(* filter: the selection outlives the rows it was made on (those already   *)
(* gone are left out, the API skips them).                                 *)
Send(action, ids) ==
  /\ change = NoChange
  /\ change' = [action |-> action, ids |-> ids, query |-> query]
  /\ UNCHANGED <<list, rows, query, table, loading, error, loads, doubt>>

BulkSend(action, ids) ==
  /\ action \in list.bulk
  /\ list.pager = "table" => TableShown
  /\ query.filter # "trash"
  /\ \A r \in ids : rows[r] # "gone"
  /\ Send(action, ids)

(* One row's button, or a dialog's save.                                   *)
SingleSend(action, r) ==
  /\ action \in list.single
  /\ IF action = "create" THEN rows[r] = "gone" /\ query.filter # "trash"
     ELSE /\ \E i \in DOMAIN table.rows : table.rows[i][1] = r
          /\ ~ error /\ ~ loading
          /\ list.filters = "library" => query.filter = "trash"
  /\ Send(action, {r})

(* What becomes of a row.  A trashed asset alone is restored or deleted.   *)
After(action, r) ==
  CASE action = "create" -> "on"
    [] rows[r] = "gone" -> "gone"
    [] list.filters = "library" /\ action # "deactivate" /\ rows[r] = "on" -> "on"
    [] action = "delete" -> "gone"
    [] action = "activate" -> "on"
    [] OTHER -> "off"

Served ==
  /\ change.action \in Actions
  /\ rows' = [r \in Rows |-> IF r \in change.ids THEN After(change.action, r) ELSE rows[r]]
  /\ change' = Done(change.query)
  /\ Doubt(\E f \in Filters : Matching(f, rows) \ Matching(f, rows') # {}, FALSE)
  /\ UNCHANGED <<list, query, table, loading, error, loads>>

(* The answer to a change reloads, with the query of its own render.       *)
ChangeArrives ==
  /\ change.action = "done"
  /\ Load(change.query)
  /\ change' = NoChange
  /\ Doubt(FALSE, query # change.query)
  /\ UNCHANGED <<list, rows, query, table>>

(* A change that fails, or whose answer is lost, reloads nothing.          *)
ChangeFails ==
  /\ change # NoChange
  /\ change' = NoChange
  /\ Doubt(FALSE, change.action = "done")
  /\ UNCHANGED <<list, rows, query, table, loading, error, loads>>

(* onDeleted of the media page's detail dialog: the image goes to the      *)
(* trash and leaves the table without a reload; the total stays.           *)
DetailDeleted(r) ==
  LET kept == KeptAt(table.rows, {i \in DOMAIN table.rows : table.rows[i][1] # r}) IN
  /\ list.filters = "library" /\ query.filter # "trash"
  /\ kept # table.rows /\ rows[r] = "on" /\ change = NoChange
  /\ rows' = [rows EXCEPT ![r] = "off"]
  /\ table' = [table EXCEPT !.rows = kept]
  /\ Doubt(TRUE, TRUE)
  /\ UNCHANGED <<list, query, loading, error, loads, change>>
-----------------------------------------------------------------------------
(* The page mounts: the first load of its first query.                     *)
FirstQuery == [filter |-> "all", page |-> 1]

ListInit ==
  /\ list \in Lists
  /\ rows \in [Rows -> {"on", "off", "gone"}]
  /\ query = FirstQuery
  /\ table = [rows |-> <<>>, total |-> 0]
  /\ loading = TRUE
  /\ error = FALSE
  /\ loads = <<LoadOf(FirstQuery)>>
  /\ change = NoChange
  /\ doubt = "none"

(* It is left, with nothing under way, and entered again.                  *)
Remount ==
  /\ loads = <<>> /\ change = NoChange
  /\ query' = FirstQuery
  /\ table' = [rows |-> <<>>, total |-> 0]
  /\ loading' = TRUE
  /\ error' = FALSE
  /\ loads' = <<LoadOf(FirstQuery)>>
  /\ doubt' = "none"
  /\ UNCHANGED <<list, rows, change>>

LoadAnswered ==
  \E i \in DOMAIN loads : LoadServed(i) \/ LoadArrives(i) \/ LoadFails(i)

(* Bound: when answers were overtaken, the page is left alone until they   *)
(* have all come and then entered again.                                   *)
ListNext ==
  \/ /\ doubt # "overtaken"
     /\ \/ \E f \in Filters : ChangeFilter(f)
        \/ \E n \in 1 .. PageCount(Cardinality(Rows)) : ChangePage(n)
        \/ \E a \in Actions :
             \/ \E ids \in SUBSET Rows \ {{}} : BulkSend(a, ids)
             \/ \E r \in Rows : SingleSend(a, r)
        \/ \E r \in Rows : DetailDeleted(r)
  \/ Retry \/ Remount
  \/ Served \/ ChangeArrives \/ ChangeFails
  \/ LoadAnswered
-----------------------------------------------------------------------------
(* The type of the list's state.                                           *)
ListTypeOK ==
  /\ list \in Lists
  /\ rows \in [Rows -> {"on", "off", "gone"}]
  /\ query.filter \in Filters
  /\ query.page \in 1 .. PageCount(Cardinality(Rows))
  /\ \A i \in DOMAIN table.rows : table.rows[i] \in Rows \X {"on", "off"}
  /\ Len(loads) <= MaxLoads
  /\ doubt \in {"none", "shrunk", "overtaken"} /\ {loading, error} \subseteq BOOLEAN

Settled == loads = <<>> /\ change = NoChange /\ ~ error

(* A page with no row to show and no pager to leave by, of a list that has *)
(* rows.                                                                   *)
DeadEnd == table.rows = <<>> /\ table.total > 0 /\ ~ PagerShown

(***************************************************************************)
(* When the answers come back in the order they were asked for, a page     *)
(* that waits for nothing shows the rows of its own query as the API has   *)
(* them, the administrator's own changes included; and no change of filter *)
(* or page number leads to a dead end, only an action that shortens the    *)
(* list or a click on a pager that is out of date.                         *)
(***************************************************************************)
PageShowsItsQuery ==
  Settled /\ doubt # "overtaken" =>
    /\ table = Answer(query, rows)
    /\ doubt = "none" => ~ DeadEnd
=============================================================================
