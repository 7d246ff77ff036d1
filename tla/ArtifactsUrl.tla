---------------------------- MODULE ArtifactsUrl ----------------------------
(***************************************************************************)
(* The list of artifacts and its address: the filters are kept in the      *)
(* component and in the query of the URL, and each is copied to the other  *)
(* a moment later (components/artifacts/artifacts-page.tsx,                *)
(* lib/url/list-query.ts, hooks/use-debounced-value.ts).                   *)
(***************************************************************************)
EXTENDS Naturals, Sequences

CONSTANTS
  Searches,     \* texts of the search field, the empty one included
  NoSearch,
  Pages,        \* pages that may be gone to
  MaxActs       \* acts of the user

VARIABLES
  entries,      \* the entries of the browser's history
  at,           \* the entry that is shown
  local,        \* page, search and type in the component
  debounced,    \* the search that has rested for a while
  frame,        \* <<>> or the query to be copied at the next frame
  nav,          \* <<>> or the navigation on its way: [kind, url]
  overtaken,    \* a navigation was given up for a later one, and the address
                \* has not been copied since
  acts          \* how many of MaxActs have been made

urlVars == <<entries, at, local, debounced, frame, nav, overtaken, acts>>

(* type stands for the filters that are chosen: type, tag, switches, sort. *)
Queries == [page : Pages, search : Searches, type : {"all", "one"}]
Plain == [page |-> 1, search |-> NoSearch, type |-> "all"]

Url == entries[at]

(* useState of the parsed query, and the first frame *)
ListInit ==
  /\ \E first \in {Plain, [Plain EXCEPT !.type = "one"]} :
       entries = <<first>> /\ local = first
  /\ at = 1
  /\ debounced = local.search
  /\ frame = <<local>>
  /\ nav = <<>>
  /\ overtaken = FALSE
  /\ acts = 0

(* updateUrl: what is changed, on top of the address as it is now *)
Replace(url) == <<[kind |-> "replace", url |-> url]>>

(* A slip a change of this code could make, for the run to reject: an      *)
(* address that changes by itself is not copied.                           *)
EffectsOfSearch(url, changed, text, f, n) ==
  /\ frame' = f
  /\ nav' = IF text # url.search THEN Replace([url EXCEPT !.search = text, !.page = 1]) ELSE n

(* The effects of a render whose address is url and whose rested search is *)
(* text: a new address is to be copied, a search that is not in the        *)
(* address is to be put there.                                             *)
Effects(url, changed, text, f, n) ==
  /\ frame' = IF changed THEN <<url>> ELSE f
  /\ nav' = IF text # url.search THEN Replace([url EXCEPT !.search = text, !.page = 1]) ELSE n

-----------------------------------------------------------------------------
Act == acts < MaxActs /\ acts' = acts + 1

(* A navigation that is on its way is given up for the next. *)
Overtake == overtaken' = (overtaken \/ nav # <<>>)

TypeSearch(text) ==
  /\ Act /\ text # local.search
  /\ local' = [local EXCEPT !.search = text]
  /\ UNCHANGED <<entries, at, debounced, frame, nav, overtaken>>

Choose(type) ==
  /\ Act /\ type # local.type
  /\ local' = [local EXCEPT !.type = type, !.page = 1]
  /\ nav' = Replace([Url EXCEPT !.type = type, !.page = 1])
  /\ Overtake
  /\ UNCHANGED <<entries, at, debounced, frame>>

Turn(page) ==
  /\ Act /\ page # local.page
  /\ local' = [local EXCEPT !.page = page]
  /\ nav' = Replace([Url EXCEPT !.page = page])
  /\ Overtake
  /\ UNCHANGED <<entries, at, debounced, frame>>

ClearFilters ==
  /\ Act /\ local # Plain
  /\ local' = Plain
  /\ nav' = Replace(Plain)
  /\ Overtake
  /\ UNCHANGED <<entries, at, debounced, frame>>

(* A link of the sidebar to the list, or the browser's own buttons *)
FollowLink ==
  /\ Act
  /\ nav' = <<[kind |-> "push", url |-> Plain]>>
  /\ Overtake
  /\ UNCHANGED <<entries, at, local, debounced, frame>>

Traverse(to) ==
  /\ Act
  /\ to \in DOMAIN entries \cap {at - 1, at + 1}
  /\ at' = to
  /\ Overtake
  /\ Effects(entries[to], entries[to] # Url, debounced, frame, <<>>)
  /\ UNCHANGED <<entries, local, debounced>>

-----------------------------------------------------------------------------
(* What happens by itself *)

(* A navigation is done. *)
Arrive ==
  /\ nav # <<>>
  /\ LET url == nav[1].url
         before == SubSeq(entries, 1, IF nav[1].kind = "push" THEN at ELSE at - 1)
         after == IF nav[1].kind = "push" THEN <<>> ELSE SubSeq(entries, at + 1, Len(entries))
     IN /\ entries' = before \o <<url>> \o after
        /\ at' = Len(before) + 1
        /\ Effects(url, url # Url, debounced, frame, <<>>)
  /\ UNCHANGED <<local, debounced, overtaken, acts>>

(* requestAnimationFrame *)
CopyAddress ==
  /\ frame # <<>>
  /\ local' = frame[1] /\ frame' = <<>>
  /\ overtaken' = (nav # <<>> /\ overtaken)
  /\ UNCHANGED <<entries, at, debounced, nav, acts>>

(* The search has rested. *)
Rest ==
  /\ debounced # local.search
  /\ debounced' = local.search
  /\ Effects(Url, FALSE, debounced', frame, nav)
  /\ IF debounced' # Url.search THEN Overtake ELSE UNCHANGED overtaken
  /\ UNCHANGED <<entries, at, local, acts>>

ListNext ==
  \/ \E text \in Searches : TypeSearch(text)
  \/ \E type \in {"all", "one"} : Choose(type)
  \/ \E page \in Pages : Turn(page)
  \/ ClearFilters \/ FollowLink
  \/ \E to \in DOMAIN entries : Traverse(to)
  \/ Arrive \/ CopyAddress \/ Rest

-----------------------------------------------------------------------------
(* Properties                                                              *)

Settled == nav = <<>> /\ frame = <<>> /\ debounced = local.search

ListTypeOK ==
  /\ at \in DOMAIN entries
  /\ \A i \in DOMAIN entries : entries[i] \in Queries
  /\ local \in Queries /\ debounced \in Searches
  /\ frame # <<>> => frame[1] \in Queries
  /\ nav # <<>> => nav[1].url \in Queries /\ nav[1].kind \in {"push", "replace"}

(* frontend/README.md "The page synchronizes ... with router.replace":     *)
(* when nothing is on its way, the list shows what its address says,       *)
(* whoever changed it last.  The code does not promise it once a change    *)
(* was made before the one before it had reached the address: the first is *)
(* lost there, and stays in the list until the address changes again.      *)
ListIsAddress == Settled /\ ~overtaken => local = Url
=============================================================================
