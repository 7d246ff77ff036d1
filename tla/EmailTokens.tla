----------------------------- MODULE EmailTokens -----------------------------
(***************************************************************************)
(* The links that are mailed to a user, for a new password, to verify an   *)
(* address or to change it: the requests that make them, the pages that    *)
(* open them, and the transactions of the backend between which a link is  *)
(* replaced, used, expires or is rolled back (auth_service.py,             *)
(* profile_service.py, the *_token_repository.py; components/auth).        *)
(***************************************************************************)
EXTENDS Naturals, Sequences, FiniteSets

CONSTANTS
  Purposes,    \* of {"reset", "verification", "change"}
  Clerks,      \* requests for a link that may overlap
  Handlers,    \* uses of a link that may overlap
  LinkPages,   \* pages of the browser
  MaxLinks,    \* links that are made
  MaxTries     \* links that are opened or tried again

VARIABLES
  purpose,     \* what the links of this behaviour are for
  links,       \* in the order they were drafted: [state, expired, overlapped, opened, applied]
  verified,    \* email_verified_at is set
  taken,       \* the new address is that of another account
  issues,      \* [step, seen, link, overlapped] of each request for a link
  uses,        \* [step, link] of each request that uses one
  pages,       \* [status, link, waits, doubt] of each page
  tries        \* how many of MaxTries have been made

mailVars == <<purpose, links, verified, taken, issues, uses, pages, tries>>

NoLink == 0
NobodyWaits == <<>>
Resting == [step |-> "idle", seen |-> {}, link |-> NoLink, overlapped |-> FALSE]
Unused == {l \in DOMAIN links : links[l].state = "unused"}

MailInit ==
  /\ purpose \in Purposes
  /\ links = <<>>
  /\ verified = FALSE
  /\ taken = FALSE
  /\ issues = [c \in Clerks |-> Resting]
  /\ uses = [h \in Handlers |-> [step |-> "idle", link |-> NoLink]]
  /\ pages = [p \in LinkPages |->
                [status |-> "closed", link |-> NoLink, waits |-> NobodyWaits, doubt |-> FALSE]]
  /\ tries = 0

(* The rows that a transaction has locked: those it has updated, or read   *)
(* FOR UPDATE *)
Locked(l) ==
  \/ \E c \in Clerks : issues[c].step = "drafted" /\ l \in issues[c].seen
  \/ \E h \in Handlers : uses[h].step = "checked" /\ l = uses[h].link

-----------------------------------------------------------------------------
(* forgot_password, send_verification_email, request_email_change          *)

(* A slip a change of this code could make, for the run to reject: what    *)
(* was unused is left alone.                                               *)
ReadNothing(c) ==
  /\ issues[c].step = "idle"
  /\ purpose = "verification" => ~verified
  /\ purpose = "change" => ~taken
  /\ issues' = [issues EXCEPT ![c] = [Resting EXCEPT !.step = "read"]]
  /\ UNCHANGED <<purpose, links, verified, taken, uses, pages, tries>>

(* A user who is verified, or an address that is known, gets no link;      *)
(* otherwise invalidate_unused_for_user selects what it will mark.         *)
ReadUnused(c) ==
  /\ issues[c].step = "idle"
  /\ purpose = "verification" => ~verified
  /\ purpose = "change" => ~taken
  /\ issues' = [issues EXCEPT ![c] = [Resting EXCEPT !.step = "read", !.seen = Unused]]
  /\ UNCHANGED <<purpose, links, verified, taken, uses, pages, tries>>

(* It marks them, creates the token and mails the link, all before the     *)
(* commit; a mail that fails is a rollback.                                *)
Draft(c) ==
  /\ issues[c].step = "read" /\ Len(links) < MaxLinks
  /\ \A l \in issues[c].seen : ~Locked(l)
  /\ links' = Append(links, [state |-> "drafted", expired |-> FALSE, overlapped |-> FALSE,
                             opened |-> 0, applied |-> 0])
  /\ issues' = [issues EXCEPT ![c].step = "drafted", ![c].link = Len(links')]
  /\ UNCHANGED <<purpose, verified, taken, uses, pages, tries>>

CommitIssue(c) ==
  LET others == {d \in Clerks \ {c} : issues[d].step # "idle"}
  IN /\ issues[c].step = "drafted"
     /\ links' = [l \in DOMAIN links |->
                    CASE l = issues[c].link ->
                           [links[l] EXCEPT !.state = "unused",
                                            !.overlapped = issues[c].overlapped \/ others # {}]
                      [] l \in issues[c].seen -> [links[l] EXCEPT !.state = "used"]
                      [] OTHER -> links[l]]
     /\ issues' = [d \in Clerks |-> CASE d = c -> Resting
                                      [] d \in others -> [issues[d] EXCEPT !.overlapped = TRUE]
                                      [] OTHER -> issues[d]]
     /\ UNCHANGED <<purpose, verified, taken, uses, pages, tries>>

RollbackIssue(c) ==
  /\ issues[c].step \in {"read", "drafted"}
  /\ links' = [l \in DOMAIN links |->
                 IF l = issues[c].link THEN [links[l] EXCEPT !.state = "gone"] ELSE links[l]]
  /\ issues' = [issues EXCEPT ![c] = Resting]
  /\ UNCHANGED <<purpose, verified, taken, uses, pages, tries>>

(* The time of a link is over; another account takes the new address.      *)
Expire(l) ==
  /\ ~links[l].expired /\ links[l].state = "unused"
  /\ links' = [links EXCEPT ![l].expired = TRUE]
  /\ UNCHANGED <<purpose, verified, taken, issues, uses, pages, tries>>

TakeAddress ==
  /\ purpose = "change" /\ ~taken
  /\ taken' = TRUE
  /\ UNCHANGED <<purpose, links, verified, issues, uses, pages, tries>>

-----------------------------------------------------------------------------
(* The pages                                                               *)

(* A page sends the token, and waits for its answer. *)
Send(p, l, doubt) ==
  \E h \in Handlers :
    /\ uses[h].step = "idle"
    /\ uses' = [uses EXCEPT ![h] = [step |-> "sent", link |-> l]]
    /\ pages' = [pages EXCEPT ![p] = [status |-> "loading", link |-> l, waits |-> <<h>>, doubt |-> doubt]]

(* The link of a mail is opened, or its page is loaded again.  All but the *)
(* form for a password, which is filled first, send its token at once.     *)
OpenLink(p, l) ==
  /\ pages[p].status \in {"closed", "success", "error"}
  /\ tries < MaxTries /\ tries' = tries + 1
  /\ links' = [links EXCEPT ![l].opened = @ + 1]
  /\ IF purpose = "reset"
     THEN /\ pages' = [pages EXCEPT ![p] = [status |-> "form", link |-> l,
                                            waits |-> NobodyWaits, doubt |-> FALSE]]
          /\ UNCHANGED uses
     ELSE Send(p, l, FALSE)
  /\ UNCHANGED <<purpose, verified, taken, issues>>

(* onSubmit of the form, onRetry of the error *)
TryLink(p) ==
  /\ pages[p].status \in {"form", "error"}
  /\ tries < MaxTries /\ tries' = tries + 1
  /\ Send(p, pages[p].link, pages[p].doubt)
  /\ UNCHANGED <<purpose, links, verified, taken, issues>>

-----------------------------------------------------------------------------
(* reset_password, verify_email, confirm_email_change                      *)

(* A slip: the token is read without FOR UPDATE. *)
CheckUnlocked(h) ==
  /\ uses[h].step = "sent"
  /\ uses' = [uses EXCEPT ![h].step =
                IF uses[h].link \in Unused /\ ~links[uses[h].link].expired /\ ~taken
                THEN "checked" ELSE "refused"]
  /\ UNCHANGED <<purpose, links, verified, taken, issues, pages, tries>>

(* get_by_hash_for_update, the tests, and the changes that are flushed *)
Check(h) ==
  LET l == uses[h].link
  IN /\ uses[h].step = "sent" /\ ~Locked(l)
     /\ uses' = [uses EXCEPT ![h].step =
                   IF l \in Unused /\ ~links[l].expired /\ ~taken THEN "checked" ELSE "refused"]
     /\ UNCHANGED <<purpose, links, verified, taken, issues, pages, tries>>

(* The address of another account breaks its unique index. *)
CommitUse(h) ==
  LET l == uses[h].link
  IN /\ uses[h].step = "checked"
     /\ IF taken
        THEN uses' = [uses EXCEPT ![h].step = "refused"] /\ UNCHANGED <<links, verified>>
        ELSE /\ uses' = [uses EXCEPT ![h].step = "done"]
             /\ links' = [links EXCEPT ![l].state = "used", ![l].applied = @ + 1]
             /\ verified' = (verified \/ purpose = "verification")
     /\ UNCHANGED <<purpose, taken, issues, pages, tries>>

RollbackUse(h) ==
  /\ uses[h].step = "checked"
  /\ uses' = [uses EXCEPT ![h].step = "refused"]
  /\ UNCHANGED <<purpose, links, verified, taken, issues, pages, tries>>

(* A slip: a page calls itself a success once its request is over. *)
AnsweredAnyhow(p) ==
  LET h == Head(pages[p].waits)
  IN /\ pages[p].waits # NobodyWaits
     /\ uses[h].step \in {"done", "refused"}
     /\ pages' = [pages EXCEPT ![p].status = "success", ![p].waits = NobodyWaits]
     /\ uses' = [uses EXCEPT ![h] = [step |-> "idle", link |-> NoLink]]
     /\ UNCHANGED <<purpose, links, verified, taken, issues, tries>>

(* The answer of a handler arrives, or is lost and fails the page at any   *)
(* time; the handler goes on.                                              *)
Answered(p) ==
  LET h == Head(pages[p].waits)
  IN /\ pages[p].waits # NobodyWaits
     /\ uses[h].step \in {"done", "refused"}
     /\ pages' = [pages EXCEPT ![p].status = IF uses[h].step = "done" THEN "success" ELSE "error",
                               ![p].waits = NobodyWaits]
     /\ uses' = [uses EXCEPT ![h] = [step |-> "idle", link |-> NoLink]]
     /\ UNCHANGED <<purpose, links, verified, taken, issues, tries>>

Unanswered(p) ==
  /\ pages[p].waits # NobodyWaits
  /\ pages' = [pages EXCEPT ![p].status = "error", ![p].waits = NobodyWaits, ![p].doubt = TRUE]
  /\ UNCHANGED <<purpose, links, verified, taken, issues, uses, tries>>

(* The answer that nobody waits for *)
Dropped(h) ==
  /\ uses[h].step \in {"done", "refused"}
  /\ \A p \in LinkPages : pages[p].waits # <<h>>
  /\ uses' = [uses EXCEPT ![h] = [step |-> "idle", link |-> NoLink]]
  /\ UNCHANGED <<purpose, links, verified, taken, issues, pages, tries>>

MailNext ==
  \/ \E c \in Clerks : ReadUnused(c) \/ Draft(c) \/ CommitIssue(c) \/ RollbackIssue(c)
  \/ \E l \in DOMAIN links : Expire(l) \/ \E p \in LinkPages : OpenLink(p, l)
  \/ TakeAddress
  \/ \E p \in LinkPages : TryLink(p) \/ Answered(p) \/ Unanswered(p)
  \/ \E h \in Handlers : Check(h) \/ CommitUse(h) \/ RollbackUse(h) \/ Dropped(h)

-----------------------------------------------------------------------------
(* Properties                                                              *)

(* The type invariant.  A link is drafted exactly while the request that   *)
(* makes it is, and a page that waits is loading.                          *)
MailTypeOK ==
  /\ purpose \in Purposes /\ verified \in BOOLEAN /\ tries \in 0..MaxTries
  /\ taken => purpose = "change"
  /\ \A l \in DOMAIN links :
       /\ links[l].state \in {"drafted", "gone", "unused", "used"}
       /\ (links[l].state = "drafted") <=> (\E c \in Clerks : issues[c].step = "drafted" /\ issues[c].link = l)
       /\ links[l].opened \in 0..MaxTries
  /\ \A p \in LinkPages : (pages[p].status = "loading") <=> (pages[p].waits # NobodyWaits)

(* get_by_hash_for_update, used_at and invalidate_unused_for_user: a link  *)
(* works once at most, however often and from wherever it is sent, and     *)
(* only the last one works.  What the code lets happen: requests that      *)
(* overlap do not see one another's link, and each leaves one that works.  *)
LinksWorkOnce ==
  /\ \A l \in DOMAIN links : links[l].applied <= 1
  /\ \A k, l \in Unused : k # l => links[k].overlapped /\ links[l].overlapped

(* What a page says of its link is true: "has been verified" that it was   *)
(* used, "failed" that it was not, unless an answer to this page was lost  *)
(* or the link was opened more than once.  A page that is tried again      *)
(* after a lost answer says that the link failed when it has worked.       *)
PagesTellTheTruth ==
  \A p \in LinkPages :
    LET page == pages[p]
    IN /\ page.status = "success" => links[page.link].applied > 0
       /\ page.status = "error" /\ links[page.link].applied > 0
            => page.doubt \/ links[page.link].opened > 1
=============================================================================
