------------------------------- MODULE WebLists -------------------------------
(***************************************************************************)
(* The lists that are shown page by page (tasks, audit events,             *)
(* conversations, organizations, policy packs, members): the filter, the   *)
(* workspace and the page are the key of a query, whose cached answer      *)
(* decides what can be turned to.  Rows come and go, answers come late,    *)
(* and the workspace is switched under a list.                             *)
(*                                                                         *)
(* A page holds one row, so that page p has a row if there are p + 1.      *)
(***************************************************************************)
EXTENDS Naturals, FiniteSets

CONSTANTS
  Lists,     \* the lists that are followed: names in DOMAIN ListTable
  Filters,   \* what a filter may be set to, NoFilter included
  NoFilter,
  MaxRows,   \* rows of a list
  MaxTurns   \* acts of the user and of others

VARIABLES
  list,      \* the list of this behaviour
  rows,      \* <<workspace, filter>> -> number of rows in the database
  space,     \* the workspace that is selected
  filter,    \* the filter as it is shown
  rested,    \* the filter of the query: another one for a moment if it is debounced
  pageIndex,
  totals,    \* key -> total of its cached answer, or NoAnswer
  reading,   \* the keys that have been asked for
  turned,    \* what the last page was turned to by: [space, filter, total]
  turns      \* how many of MaxTurns have been made

listVars == <<list, rows, space, filter, rested, pageIndex, totals, reading, turned, turns>>

Spaces == {"first", "second"}
NoAnswer == MaxRows + 1

-----------------------------------------------------------------------------
(* The lists.  of: whose rows they are, the "workspace" of the switcher or *)
(* an address that the switcher leaves alone; filter: "none", "at once" or *)
(* "debounced"; bare: an empty page is shown without its pager.            *)

TaskList == [of |-> "workspace", filter |-> "at once", bare |-> TRUE]
AuditList == [of |-> "address", filter |-> "at once", bare |-> TRUE]
ConversationList == [of |-> "workspace", filter |-> "debounced", bare |-> TRUE]
OrganizationList == [of |-> "address", filter |-> "none", bare |-> TRUE]
PackList == [of |-> "address", filter |-> "none", bare |-> TRUE]
MemberList == [of |-> "address", filter |-> "none", bare |-> FALSE]

ListTable == [tasks |-> TaskList, audit |-> AuditList, conversations |-> ConversationList,
              organizations |-> OrganizationList, packs |-> PackList, members |-> MemberList]

L == ListTable[list]

KeyOf(s, f, p) == <<IF L.of = "workspace" THEN s ELSE "first", f, p>>
Key == KeyOf(space, rested, pageIndex)
Total == totals[Key]

PagingInit ==
  /\ list \in Lists
  /\ rows \in [Spaces \X Filters -> 0..MaxRows]
  /\ \A s \in Spaces, f \in Filters : rows[s, f] <= rows[s, NoFilter]
  /\ L.of = "address" => \A f \in Filters : rows["second", f] = 0
  /\ L.filter = "none" => \A s \in Spaces, f \in Filters : rows[s, f] = rows[s, NoFilter]
  /\ space = "first"
  /\ filter = NoFilter /\ rested = NoFilter
  /\ pageIndex = 0
  /\ totals = [k \in Spaces \X Filters \X (0..MaxRows) |-> NoAnswer]
  /\ reading = {<<"first", NoFilter, 0>>}
  /\ turned = [space |-> "first", filter |-> NoFilter, total |-> 0]
  /\ turns = 0

-----------------------------------------------------------------------------
Turn == turns < MaxTurns /\ turns' = turns + 1

(* useQuery of a new key: it is asked for, whatever is cached. *)
Read == reading' = reading \cup {KeyOf(space', rested', pageIndex')}

(* A slip a change of this code could make, for the run to reject: a       *)
(* filter is set on the page that is shown.                                *)
FilterOnly(f) ==
  /\ L.filter # "none" /\ f # filter /\ Turn
  /\ filter' = f
  /\ rested' = IF L.filter = "debounced" THEN rested ELSE f
  /\ UNCHANGED <<list, rows, space, pageIndex, totals, turned>>
  /\ Read

(* setStatus, setAction, setSearch ...; setPageIndex(0) *)
SetFilter(f) ==
  /\ L.filter # "none" /\ f # filter /\ Turn
  /\ filter' = f
  /\ rested' = IF L.filter = "debounced" THEN rested ELSE f
  /\ pageIndex' = 0
  /\ UNCHANGED <<list, rows, space, totals, turned>>
  /\ Read

(* useDebouncedValue: the search becomes that of the query, on the page    *)
(* that is shown by now.                                                   *)
RestFilter ==
  /\ rested # filter
  /\ rested' = filter
  /\ UNCHANGED <<list, rows, space, filter, pageIndex, totals, turned, turns>>
  /\ Read

(* The pager of an answer *)
PagerShown == Total # NoAnswer /\ (L.bare => Total > pageIndex)

PageChange(p) ==
  /\ PagerShown /\ Turn
  /\ \/ p = pageIndex + 1 /\ p < Total
     \/ p + 1 = pageIndex
  /\ pageIndex' = p
  /\ turned' = IF p > pageIndex THEN [space |-> space, filter |-> rested, total |-> Total] ELSE turned
  /\ UNCHANGED <<list, rows, space, filter, rested, totals>>
  /\ Read

(* clearOrganizationScopedQueries: what is cached of the workspace that is *)
(* left is forgotten; the personal one is kept.                            *)
Cleared(s) ==
  IF s = "second" THEN totals
  ELSE [k \in DOMAIN totals |-> IF k[1] = s THEN NoAnswer ELSE totals[k]]

(* switchTo *)
SwitchTo(s) ==
  /\ s # space /\ Turn
  /\ space' = s
  /\ totals' = IF L.of = "workspace" THEN Cleared(space) ELSE totals
  /\ UNCHANGED <<list, rows, filter, rested, pageIndex, turned>>
  /\ Read

(* The backend answers, or does not. *)
Answer(k) ==
  /\ k \in reading
  /\ totals' = [totals EXCEPT ![k] = rows[<<k[1], k[2]>>]]
  /\ reading' = reading \ {k}
  /\ UNCHANGED <<list, rows, space, filter, rested, pageIndex, turned, turns>>

Unanswered(k) ==
  /\ k \in reading
  /\ reading' = reading \ {k}
  /\ UNCHANGED <<list, rows, space, filter, rested, pageIndex, totals, turned, turns>>

(* A row is made or goes, here or elsewhere; the list is asked for again   *)
(* at once if it was here.                                                 *)
RowsChange(s) ==
  /\ Turn
  /\ L.of = "address" => s = "first"
  /\ \E new \in [Filters -> 0..MaxRows] :
       /\ rows' = [at \in DOMAIN rows |-> IF at[1] = s THEN new[at[2]] ELSE rows[at]]
       /\ \A f \in Filters : /\ new[f] <= new[NoFilter] /\ new[f] \in {rows[<<s, f>>], rows[<<s, f>>] - 1, rows[<<s, f>>] + 1}
                             /\ L.filter = "none" => new[f] = new[NoFilter]
  /\ UNCHANGED <<list, space, filter, rested, pageIndex, totals, turned>>
  /\ reading' \in {reading, reading \cup {Key}}

PagingNext ==
  \/ \E f \in Filters : SetFilter(f)
  \/ RestFilter
  \/ \E p \in 0..MaxRows : PageChange(p)
  \/ \E s \in Spaces : SwitchTo(s) \/ RowsChange(s)
  \/ \E k \in reading : Answer(k) \/ Unanswered(k)

-----------------------------------------------------------------------------
(* Properties                                                              *)

(* The type invariant.  A filter rests only where it is debounced, and     *)
(* only what may be turned to is asked for.                                *)
ListsTypeOK ==
  /\ list \in Lists /\ space \in Spaces /\ turns \in 0..MaxTurns
  /\ rows \in [Spaces \X Filters -> 0..MaxRows]
  /\ filter \in Filters /\ rested \in Filters
  /\ rested # filter => L.filter = "debounced"
  /\ pageIndex \in 0..MaxRows
  /\ reading \subseteq Spaces \X Filters \X (0..MaxRows)
  /\ \A k \in DOMAIN totals : totals[k] \in 0..NoAnswer

(* tasks-page.tsx "No tasks", policy-packs-page.tsx "No policy packs" ...: *)
(* a list that has rows is shown as empty only if it has fewer than it had *)
(* when its page was turned to.  Two things the code lets happen: a        *)
(* workspace that is switched keeps the page of the other, and a search    *)
(* that rests after the page was turned is shown from there.               *)
EmptyMeansNone ==
  Total # NoAnswer /\ Total <= pageIndex =>
    \/ Total = 0
    \/ Total < turned.total /\ turned.filter = rested
    \/ L.of = "workspace" /\ turned.space # space
    \/ L.filter = "debounced" /\ turned.filter # rested
=============================================================================
