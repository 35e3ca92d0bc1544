----------------------------- MODULE ConsoleTable -----------------------------
(***************************************************************************)
(* A table page of the web console (web/src/hooks): rows listed by page    *)
(* and by a keyword of a filter form, row operations, two spinners.  The   *)
(* hooks follow one template and differ in a few points; `table` is chosen *)
(* in TableInit among the descriptions below, one per hook.                *)
(*                                                                         *)
(* Calls of one page overlap freely: nothing is disabled while a listing   *)
(* is in flight, answers come in any order, and handlers see the state of  *)
(* the render they were created in.  Rows are reduced to the listing they  *)
(* come from, filters to one keyword that is typed (1) or not (0), the     *)
(* page size, the selection, the columns and the dialogs are left out.     *)
(* Equal GETs in flight share one answer (web/src/helpers/api.js); here    *)
(* each is answered on its own, which includes that case.                  *)
(***************************************************************************)
EXTENDS Naturals

CONSTANTS
  NPages,      \* the pages of rows
  MaxCalls,    \* bound: calls made
  MaxMisses    \* bound: calls that fail or that the server refuses

ASSUME TableAssumption == NPages \in Nat \ {0}

VARIABLES
  table,   \* the description of the page, fixed
  kw,      \* the keyword in the filter form
  query,   \* the keyword the page remembers: filters, query, or searchMode
  page,    \* activePage
  rows,    \* the listing the rows come from
  spin,    \* the spinners that turn
  calls,   \* the calls in flight
  issued,  \* calls made so far, their numbers
  newest,  \* the listing that counts as the latest: requestCounter, requestSeq
  misses,  \* counter of the bound
  last,    \* ghost: the listing asked for last
  upset    \* ghost: what disturbed the page since it was last quiet

tableVars == <<table, kw, query, page, rows, spin, calls, issued, newest, misses,
               last, upset>>

Pages == 1..NPages
NoPage == 0                \* an event object where a page number is expected
Listing(p, k) == [page |-> p, kw |-> k]
Nothing == Listing(0, 0)   \* no rows

-----------------------------------------------------------------------------
(* The pages.  guard: which calls drop an answer that is not the latest.   *)
(* by: where a listing finds its keyword.  ahead: a click moves the pager. *)
(* lands: the answer of a listing sets the pager.  first: a search lists   *)
(* page 1.  resize: what a new page size lists.  refresh: what a refresh   *)
(* lists.  ops: the row operations.  shows: those that turn the spinner.   *)
(* clears: which spinners an answer stops.  catches: calls that stop their *)
(* spinner when they fail too.  empties: a failed listing leaves no rows.  *)

Table == [guard |-> "none", by |-> "form", ahead |-> TRUE, lands |-> TRUE,
          first |-> FALSE, resize |-> "first", refresh |-> "shown", ops |-> {},
          shows |-> {}, clears |-> "own", catches |-> {}, empties |-> FALSE]

Tokens ==
  [Table EXCEPT !.by = "mode", !.ahead = FALSE, !.resize = "effect",
                !.refresh = "plain", !.ops = {"again", "refresh"},
                !.shows = {"again", "refresh"}, !.catches = {"refresh"}]
Users ==
  [Table EXCEPT !.resize = "plain", !.ops = {"captured", "again"},
                !.shows = {"captured", "again"}]
Redemptions ==
  [Table EXCEPT !.first = TRUE, !.resize = "effect",
                !.ops = {"captured", "again", "refresh"},
                !.shows = {"captured", "again", "refresh"},
                !.catches = {"list", "search", "captured", "again"}]
Channels ==
  [Table EXCEPT !.guard = "loads", !.lands = FALSE,
                !.ops = {"captured", "again", "refresh"}, !.shows = {"refresh"},
                !.catches = {"search"}]
Models ==
  [Table EXCEPT !.by = "never", !.first = TRUE, !.ops = {"refresh"},
                !.catches = {"list", "search", "refresh"}, !.empties = TRUE]
Deployments ==
  [Table EXCEPT !.guard = "all", !.by = "query", !.ops = {"refresh"},
                !.clears = "both", !.catches = {"list", "search", "refresh"},
                !.empties = TRUE]
OAuthLogins ==
  [Table EXCEPT !.by = "query", !.clears = "both", !.catches = {"list", "search"}]
MjLogs == [Table EXCEPT !.ahead = FALSE, !.refresh = "first", !.clears = "one"]
TaskLogs == MjLogs
UsageLogs == [Table EXCEPT !.resize = "current", !.refresh = "first", !.clears = "one"]

Tables == {Tokens, Users, Redemptions, Channels, Models, Deployments, OAuthLogins,
           MjLogs, TaskLogs, UsageLogs}

-----------------------------------------------------------------------------
(* Listings.                                                               *)

Captures == {"captured", "again"}   \* operations that put captured rows back
Lists(cs) == {c \in cs : c.kind \in {"list", "search"}}
Kind(k) == IF k = 1 /\ table.clears # "one" THEN "search" ELSE "list"
Own(kind) == IF kind = "search" THEN "searching" ELSE "loading"

\* Mutant: an answer stops only the spinner of its own call.
StopsOwn(kind) == {Own(kind)}

\* The spinners an answer stops.
Stops(kind) == IF table.clears = "both" THEN {"loading", "searching"} ELSE {Own(kind)}

\* GetPageQuery of the server: what is no number is page 1.
Served(p) == IF p = NoPage THEN 1 ELSE p

\* The listings in flight whose answers a new one makes too late.
Outdated(others, kind) ==
  {c \in Lists(others) : \/ table.guard = "all"
                         \/ table.guard = "loads" /\ kind = "list" /\ c.kind = "list"}

\* loadX, searchX and fetchX up to the GET: a listing of page p for keyword k,
\* made while `others` are in flight and the spinners `turning` turn; `also`
\* are the spinners of the handler around it, `after` that an operation waits
\* for it and stops its spinner then.
Ask(others, turning, p, k, also, after) ==
  LET kind == Kind(k)
      pg   == IF kind = "search" /\ table.first THEN 1 ELSE p
      late == Lists(others) \ Outdated(others, kind)
  IN /\ issued' = issued + 1
     /\ newest' = IF table.guard = "all" \/ kind = "list" THEN issued + 1 ELSE newest
     /\ calls' = others \cup {[no |-> issued + 1, kind |-> kind, page |-> pg, kw |-> k,
                               stops |-> Stops(kind) \cup also, also |-> also, after |-> after]}
     /\ spin' = turning \cup {Own(kind)} \cup also
     /\ last' = Listing(Served(pg), k)
     /\ upset' = (IF others = {} THEN {} ELSE upset)
                   \cup (IF late # {} THEN {"race"} ELSE {})
                   \cup (IF \E c \in others : c.kind \in Captures THEN {"op"} ELSE {})
                   \cup (IF pg = NoPage \/ (kind = "list" /\ ~table.lands /\ pg # page')
                         THEN {"unpaged"} ELSE {})

Room == issued < MaxCalls

\* The keyword of a listing that is not asked for by the search button.
Keyword ==
  CASE table.by = "form"  -> kw
    [] table.by = "mode"  -> IF query = 1 THEN kw ELSE 0
    [] table.by = "query" -> query
    [] table.by = "never" -> 0

\* searchTokens with an empty form: the first page, whatever was asked for.
Turned(p) == IF table.by = "mode" /\ query = 1 /\ kw = 0 THEN 1 ELSE p

\* loadTokens leaves searchMode as soon as it is called.
Remembered(k) == IF table.by = "mode" /\ k = 0 THEN 0 ELSE query

\* The filter form.
Type ==
  /\ Room
  /\ kw' = 1 - kw
  /\ UNCHANGED <<table, query, page, rows, spin, calls, issued, newest, misses, last, upset>>

HandlePageChange(p) ==
  /\ Room
  /\ page' = IF table.ahead THEN p ELSE page
  /\ Ask(calls, spin, Turned(p), Keyword, {}, FALSE)
  /\ query' = Remembered(Keyword)
  /\ UNCHANGED <<table, kw, rows, misses>>

\* The search button: the first page for the form's keyword.  Channels keeps
\* its search spinner over the plain listing it falls back to.
Search ==
  /\ Room
  /\ page' = IF table = Deployments THEN 1 ELSE page
  /\ Ask(calls, spin, 1, kw, IF table = Channels THEN {"searching"} ELSE {}, FALSE)
  /\ query' = IF table.by = "query" THEN kw ELSE Remembered(kw)
  /\ UNCHANGED <<table, kw, rows, misses>>

\* What refresh lists, called in a render with page p and remembered query q.
Refreshed(p, q) ==
  CASE table.refresh = "first" -> Listing(1, kw)
    [] table.refresh = "plain" -> Listing(p, 0)
    [] table.refresh = "shown" -> Listing(p, CASE table.by = "form"  -> kw
                                               [] table.by = "query" -> q
                                               [] table.by = "never" -> 0)

Refresh ==
  /\ Room
  /\ LET l == Refreshed(page, query)
     IN /\ page' = IF table = UsageLogs THEN 1 ELSE page
        /\ Ask(calls, spin, l.page, l.kw, {}, FALSE)
        /\ query' = Remembered(l.kw)
  /\ UNCHANGED <<table, kw, rows, misses>>

\* handlePageSizeChange: the first page, or the one that was shown, for users
\* without keyword.
HandlePageSizeChange ==
  /\ Room
  /\ LET k == IF table.resize = "plain" THEN 0 ELSE Keyword
     IN /\ page' = IF table.ahead THEN 1 ELSE page
        /\ Ask(calls, spin, IF table.resize \in {"current", "plain"} THEN page ELSE 1, k, {}, FALSE)
        /\ query' = Remembered(k)
  /\ UNCHANGED <<table, kw, rows, misses>>

\* The effect on [pageSize]: the first page again, without keyword.
ResizeEffect ==
  /\ Room
  /\ table.resize = "effect"
  /\ page' = page
  /\ Ask(calls, spin, 1, 0, {}, FALSE)
  /\ query' = Remembered(0)
  /\ UNCHANGED <<table, kw, rows, misses>>

\* A tab or a switch of channels calls loadChannels itself: with a keyword it
\* searches under both spinners.
LoadChannels ==
  /\ Room
  /\ table = Channels
  /\ page' = 1
  /\ Ask(calls, spin, 1, kw, IF kw = 1 THEN {"loading", "searching"} ELSE {}, FALSE)
  /\ UNCHANGED <<table, kw, query, rows, misses>>

\* The refresh button of channels hands its click event to refresh as the page.
RefreshButton ==
  /\ Room
  /\ table = Channels
  /\ page' = page
  /\ Ask(calls, spin, NoPage, kw, IF kw = 1 THEN {"searching"} ELSE {}, FALSE)
  /\ UNCHANGED <<table, kw, query, rows, misses>>

\* Mutant: late answers are used.
AppliesAlways(c) == TRUE

\* reqId === requestCounter.current, seq === requestSeq.current.
Applies(c) ==
  CASE table.guard = "none"  -> TRUE
    [] table.guard = "loads" -> c.kind = "list" => c.no = newest
    [] table.guard = "all"   -> c.no = newest

Around(c) == IF c.after THEN {"loading"} ELSE {}

\* Mutant: only the answer of a search sets the pager.
ListedBySearch(c) ==
  /\ Applies(c)
  /\ calls' = calls \ {c}
  /\ rows' = Listing(Served(c.page), c.kw)
  /\ page' = IF c.kind = "search" THEN c.page ELSE page
  /\ query' = IF table.by = "mode" /\ c.kind = "search" THEN 1 ELSE query
  /\ spin' = spin \ (c.stops \cup Around(c))
  /\ UNCHANGED <<table, kw, issued, newest, misses, last, upset>>

\* The answer of a listing.
Listed(c) ==
  /\ Applies(c)
  /\ calls' = calls \ {c}
  /\ rows' = Listing(Served(c.page), c.kw)
  /\ page' = IF c.kind = "search" \/ table.lands THEN c.page ELSE page
  /\ query' = IF table.by = "mode" /\ c.kind = "search" THEN 1 ELSE query
  /\ spin' = spin \ (c.stops \cup Around(c))
  /\ UNCHANGED <<table, kw, issued, newest, misses, last, upset>>

\* An answer that is not the latest only ends the handler around it.
Dropped(c) ==
  /\ ~Applies(c)
  /\ calls' = calls \ {c}
  /\ spin' = spin \ (c.also \cup Around(c))
  /\ UNCHANGED <<table, kw, query, page, rows, issued, newest, misses, last, upset>>

\* The server answers success: false.
ListRefused(c) ==
  /\ Applies(c)
  /\ misses < MaxMisses
  /\ misses' = misses + 1
  /\ calls' = calls \ {c}
  /\ rows' = IF table.empties THEN Nothing ELSE rows
  /\ spin' = spin \ (c.stops \cup Around(c))
  /\ upset' = upset \cup {"fault"}
  /\ UNCHANGED <<table, kw, query, page, issued, newest, last>>

\* The call fails: where nobody catches the error the spinner keeps turning;
\* finally stops the search spinner of channels.
ListFails(c) ==
  LET handled == c.kind \in table.catches /\ (table.guard = "all" => Applies(c))
  IN /\ misses < MaxMisses
     /\ misses' = misses + 1
     /\ calls' = calls \ {c}
     /\ rows' = IF table.empties /\ handled THEN Nothing ELSE rows
     /\ spin' = spin \ ((IF handled THEN Stops(c.kind) ELSE {})
                          \cup (c.also \cap {"searching"})
                          \cup (IF "refresh" \in table.catches THEN Around(c) ELSE {}))
     /\ upset' = upset \cup {"fault"}
     /\ UNCHANGED <<table, kw, query, page, issued, newest, last>>

-----------------------------------------------------------------------------
(* Row operations.                                                         *)

OwnSpinner(c) == IF c.kind \in table.shows THEN {"loading"} ELSE {}

\* manageX and the batch operations: the answer is handled with the rows, the
\* page and the query of this render.
Manage(how) ==
  /\ Room
  /\ issued' = issued + 1
  /\ LET c == [no |-> issued + 1, kind |-> how, rows |-> rows, page |-> page, query |-> query]
     IN /\ calls' = calls \cup {c}
        /\ spin' = spin \cup OwnSpinner(c)
  /\ upset' = upset \cup (IF how \in Captures /\ Lists(calls) # {} THEN {"op"} ELSE {})
  /\ UNCHANGED <<table, kw, query, page, rows, newest, misses, last>>

\* The answer puts the captured rows back, one of them changed.
Managed(c) ==
  /\ c.kind = "captured"
  /\ calls' = calls \ {c}
  /\ rows' = c.rows
  /\ spin' = spin \ OwnSpinner(c)
  /\ UNCHANGED <<table, kw, query, page, issued, newest, misses, last, upset>>

\* The refresh that ends an operation: within it ("refresh"), or by its caller
\* once the captured rows are back ("again").
RefreshAfter(c) ==
  LET l == Refreshed(c.page, c.query)
  IN /\ page' = page
     /\ IF c.kind = "again"
          THEN Ask(calls \ {c}, spin \ OwnSpinner(c), l.page, l.kw, {}, FALSE)
          ELSE Ask(calls \ {c}, spin, l.page, l.kw, {}, OwnSpinner(c) # {})
     /\ query' = Remembered(l.kw)

ManagedRefresh(c) ==
  /\ c.kind \in {"again", "refresh"}
  /\ rows' = IF c.kind = "again" THEN c.rows ELSE rows
  /\ RefreshAfter(c)
  /\ UNCHANGED <<table, kw, misses>>

\* The server refuses the operation, or its error is caught: the caller of
\* "again" refreshes all the same.
ManageRefused(c) ==
  /\ misses < MaxMisses
  /\ misses' = misses + 1
  /\ \/ /\ c.kind = "again"
        /\ RefreshAfter(c)
     \/ /\ c.kind # "again"
        /\ calls' = calls \ {c}
        /\ spin' = spin \ OwnSpinner(c)
        /\ UNCHANGED <<query, page, issued, newest, last, upset>>
  /\ UNCHANGED <<table, kw, rows>>

\* The call fails and nobody catches the error.
ManageFails(c) ==
  /\ c.kind \notin table.catches
  /\ misses < MaxMisses
  /\ misses' = misses + 1
  /\ calls' = calls \ {c}
  /\ UNCHANGED <<table, kw, query, page, rows, spin, issued, newest, last, upset>>

-----------------------------------------------------------------------------
\* The page is mounted and asks for its first listing.
TableInit ==
  /\ table \in Tables
  /\ kw = 0 /\ query = 0 /\ page = 1 /\ rows = Nothing
  /\ spin = {"loading"}
  /\ calls = {[no |-> 1, kind |-> "list", page |-> 1, kw |-> 0, after |-> FALSE, also |-> {},
               stops |-> Stops("list")]}
  /\ issued = 1 /\ newest = 1 /\ misses = 0
  /\ last = Listing(1, 0) /\ upset = {}

\* Calls are answered.
Answers ==
  \/ \E c \in Lists(calls) : Listed(c) \/ Dropped(c)
  \/ \E c \in calls \ Lists(calls) : Managed(c) \/ ManagedRefresh(c)

TableNext ==
  \/ Type
  \/ Search
  \/ Refresh
  \/ \E p \in Pages : HandlePageChange(p)
  \/ HandlePageSizeChange
  \/ ResizeEffect
  \/ LoadChannels
  \/ RefreshButton
  \/ \E how \in table.ops : Manage(how)
  \/ \E c \in Lists(calls) : ListRefused(c) \/ ListFails(c)
  \/ \E c \in calls \ Lists(calls) : ManageRefused(c) \/ ManageFails(c)
  \/ Answers

TableSpec == TableInit /\ [][TableNext]_tableVars /\ WF_tableVars(Answers)

-----------------------------------------------------------------------------
(* Properties.                                                             *)

\* When nothing is in flight the rows are those of the listing asked for last:
\* pages that number their listings drop what comes late, on the others this
\* needs listings that do not overlap.  No row operation may overlap either.
FreshRows ==
  (calls = {} /\ upset \subseteq {"unpaged"}) =>
    rows = last /\ (table.by = "mode" => query = last.kw)

\* When nothing is in flight the pager shows the page of the rows, whatever
\* order the answers came in.  Channels, which does not set the pager from an
\* answer, must not mix searches and listings, nor list another page than the
\* pager shows.
PagerAgrees ==
  (calls = {} /\ upset \subseteq (IF table.lands THEN {"race"} ELSE {})) =>
    page = rows.page

\* The spinners stop, after a failed call too where the page catches errors.
Stopped ==
  spin = {} \/ (misses > 0 /\ ~({"list", "search"} \cup table.ops \subseteq table.catches))
=============================================================================
