-------------------------- MODULE EmailTokensProofs --------------------------
(* TLAPS proofs about EmailTokens: for every number of requests, uses,     *)
(* pages and links, a mailed link is applied once, and two links work at   *)
(* the same time only if the requests that made them overlapped.           *)
EXTENDS EmailTokens, SequenceTheorems, TLAPS

MailSpec == MailInit /\ [][MailNext]_mailVars

Link ==
  [state : {"drafted", "gone", "unused", "used"}, expired : BOOLEAN, overlapped : BOOLEAN,
   opened : Nat, applied : Nat]
Issue ==
  [step : {"idle", "read", "drafted"}, seen : SUBSET Nat, link : Nat, overlapped : BOOLEAN]
Use == [step : {"idle", "sent", "checked", "done", "refused"}, link : Nat]
Page ==
  [status : {"closed", "form", "loading", "success", "error"}, link : Nat,
   waits : Seq(Handlers), doubt : BOOLEAN]

Shapes ==
  /\ links \in Seq(Link)
  /\ issues \in [Clerks -> Issue]
  /\ uses \in [Handlers -> Use]
  /\ pages \in [LinkPages -> Page]

(* A draft is that of one request, and no request counts it as unused. *)
Drafts ==
  /\ \A c \in Clerks : issues[c].step = "drafted" =>
       issues[c].link \in DOMAIN links /\ links[issues[c].link].state = "drafted"
  /\ \A c, d \in Clerks :
       issues[c].step = "drafted" /\ issues[d].step = "drafted" /\ issues[c].link = issues[d].link
         => c = d
  /\ \A c \in Clerks :
       issues[c].seen \subseteq {l \in DOMAIN links : links[l].state # "drafted"}
  /\ \A c \in Clerks : issues[c].step # "drafted" => issues[c].link = NoLink

(* The row locks: a link that is being used is unused, used by one request *)
(* and not being replaced.                                                 *)
LocksHold ==
  /\ \A h \in Handlers : uses[h].step = "checked" => uses[h].link \in Unused
  /\ \A g, h \in Handlers :
       uses[g].step = "checked" /\ uses[h].step = "checked" /\ uses[g].link = uses[h].link => g = h
  /\ \A h \in Handlers, c \in Clerks :
       uses[h].step = "checked" /\ issues[c].step = "drafted" => uses[h].link \notin issues[c].seen

(* A link that can still be used was not applied. *)
Applied ==
  \A l \in DOMAIN links :
    links[l].applied <= 1 /\ (links[l].state \in {"drafted", "unused"} => links[l].applied = 0)

(* What a request for a link has not seen was committed beside it. *)
Unseen ==
  \A c \in Clerks : issues[c].step # "idle" =>
    \A l \in Unused \ issues[c].seen : links[l].overlapped /\ issues[c].overlapped

OneWorks == \A k, l \in Unused : k # l => links[k].overlapped /\ links[l].overlapped

MailIInv == Shapes /\ Drafts /\ LocksHold /\ Applied /\ Unseen /\ OneWorks

(* A function on the positions of the links is a sequence of links. *)
LEMMA LinksKept ==
  ASSUME links \in Seq(Link), NEW f \in [DOMAIN links -> Link]
  PROVE  f \in Seq(Link) /\ DOMAIN f = DOMAIN links
<1>1. DOMAIN links = 1..Len(links) /\ Len(links) \in Nat
  BY LenProperties
<1>2. f \in [1..Len(links) -> Link]
  BY <1>1
<1> QED BY <1>1, <1>2, SeqDef

LEMMA Positions0 ==
  ASSUME links \in Seq(Link)
  PROVE  /\ DOMAIN links \subseteq Nat /\ NoLink \notin DOMAIN links
         /\ \A l \in DOMAIN links : links[l] \in Link
BY LenProperties DEF NoLink

LEMMA UsedLink ==
  ASSUME NEW r \in Link, r.applied = 0
  PROVE  LET x == [r EXCEPT !.state = "used", !.applied = @ + 1]
         IN x \in Link /\ x.state = "used" /\ x.applied = 1 /\ x.opened = r.opened
<1> DEFINE s == [r EXCEPT !.state = "used"]
           v == r.applied + 1
           x == [s EXCEPT !.applied = v]
<1>1. s \in Link /\ s.state = "used" /\ s.opened = r.opened
  BY DEF Link
<1>2. v \in Nat /\ v = 1
  OBVIOUS
<1> HIDE DEF s, v
<1>3. x \in Link /\ x.state = "used" /\ x.applied = 1 /\ x.opened = r.opened
  BY <1>1, <1>2 DEF Link
<1> QED BY <1>3 DEF s, v

LEMMA MailIInit == MailInit => MailIInv
<1> SUFFICES ASSUME MailInit PROVE MailIInv
  OBVIOUS
<1> USE DEF MailInit, Resting, NoLink, NobodyWaits
<1>1. links \in Seq(Link) /\ DOMAIN links = {}
  BY EmptySeq
<1>2. Shapes
  <2>1. issues \in [Clerks -> Issue]
    BY DEF Issue
  <2>2. uses \in [Handlers -> Use]
    BY DEF Use
  <2>3. <<>> \in Seq(Handlers)
    BY EmptySeq
  <2>4. [status |-> "closed", link |-> 0, waits |-> <<>>, doubt |-> FALSE] \in Page
    BY <2>3 DEF Page
  <2>5. pages \in [LinkPages -> Page]
    BY <2>4
  <2> QED BY <1>1, <2>1, <2>2, <2>5 DEF Shapes
<1>3. Drafts /\ LocksHold /\ Applied /\ Unseen /\ OneWorks
  BY <1>1 DEF Drafts, LocksHold, Applied, Unseen, OneWorks, Unused
<1> QED BY <1>2, <1>3 DEF MailIInv

(* A step of the uses and the pages that begins no use. *)
LEMMA UseStep ==
  ASSUME MailIInv, Shapes', UNCHANGED <<links, issues>>,
         \A h \in Handlers : uses'[h].step = "checked" => uses'[h] = uses[h]
  PROVE  MailIInv'
<1> USE DEF MailIInv
<1>1. Drafts' /\ Applied' /\ Unseen' /\ OneWorks'
  BY DEF Drafts, Applied, Unseen, OneWorks, Unused
<1>2. LocksHold'
  BY DEF LocksHold, Unused
<1> QED BY <1>1, <1>2

LEMMA MailIStep == MailIInv /\ [MailNext]_mailVars => MailIInv'
<1> SUFFICES ASSUME MailIInv, [MailNext]_mailVars PROVE MailIInv'
  OBVIOUS
<1>t. Shapes
  BY DEF MailIInv
<1>d. /\ DOMAIN links \subseteq Nat /\ NoLink \notin DOMAIN links
      /\ \A l \in DOMAIN links : links[l] \in Link
  BY <1>t, Positions0 DEF Shapes
<1>r. \A h \in Handlers, x \in Use : [uses EXCEPT ![h] = x] \in [Handlers -> Use]
  BY <1>t DEF Shapes
<1>i. [step |-> "idle", link |-> NoLink] \in Use
  BY DEF Use, NoLink
<1>1. ASSUME NEW c \in Clerks, ReadUnused(c) PROVE MailIInv'
  <2> DEFINE x == [Resting EXCEPT !.step = "read", !.seen = Unused]
  <2>1. /\ x \in Issue /\ x.step = "read" /\ x.seen = Unused /\ x.link = NoLink
    BY <1>d DEF Issue, Resting, Unused, NoLink
  <2>2. issues' = [issues EXCEPT ![c] = x] /\ UNCHANGED <<links, uses, pages>>
    BY <1>1 DEF ReadUnused
  <2> HIDE DEF x
  <2>3. Shapes'
    BY <1>t, <2>1, <2>2 DEF Shapes
  <2>4. Drafts'
    BY <1>t, <2>1, <2>2 DEF MailIInv, Shapes, Drafts, Unused
  <2>5. LocksHold' /\ Applied' /\ Unseen' /\ OneWorks'
    BY <1>t, <2>1, <2>2 DEF MailIInv, Shapes, LocksHold, Applied, Unseen, OneWorks, Unused
  <2> QED BY <2>3, <2>4, <2>5 DEF MailIInv
<1>2. ASSUME NEW c \in Clerks, Draft(c) PROVE MailIInv'
  <2> DEFINE new == [state |-> "drafted", expired |-> FALSE, overlapped |-> FALSE,
                     opened |-> 0, applied |-> 0]
             n == Len(links) + 1
             x == [issues[c] EXCEPT !.step = "drafted", !.link = n]
  <2>1. new \in Link /\ new.state = "drafted" /\ new.applied = 0
    BY DEF Link
  <2>2. links' = Append(links, new) /\ issues[c].step = "read" /\ UNCHANGED <<uses, pages>>
        /\ \A l \in issues[c].seen : ~Locked(l)
    BY <1>2 DEF Draft
  <2> HIDE DEF new
  <2>3. /\ links' \in Seq(Link) /\ n \in Nat /\ n \notin DOMAIN links /\ Len(links') = n
        /\ DOMAIN links' = DOMAIN links \cup {n}
        /\ links'[n] = new /\ \A l \in DOMAIN links : links'[l] = links[l]
    BY <1>t, <2>1, <2>2, AppendProperties, LenProperties DEF Shapes
  <2>4. /\ x \in Issue /\ x.step = "drafted" /\ x.link = n
        /\ x.seen = issues[c].seen /\ x.overlapped = issues[c].overlapped
    BY <1>t, <2>3 DEF Shapes, Issue
  <2>5. issues' = [issues EXCEPT ![c] = x]
    BY <1>2, <1>t, <2>3 DEF Draft, Shapes
  <2> HIDE DEF n, x
  <2>6. Shapes'
    BY <1>t, <2>2, <2>3, <2>4, <2>5 DEF Shapes
  <2>7. Drafts'
    BY <1>t, <2>1, <2>3, <2>4, <2>5 DEF MailIInv, Shapes, Drafts
  <2>8. Unused' = Unused
    BY <2>1, <2>3 DEF Unused
  <2>9. \A h \in Handlers : uses[h].step = "checked" => uses[h].link \notin issues[c].seen
    BY <2>2 DEF Locked
  <2>10. LocksHold'
    BY <1>t, <2>2, <2>4, <2>5, <2>8, <2>9 DEF MailIInv, Shapes, LocksHold
  <2>11. Applied'
    BY <2>1, <2>3 DEF MailIInv, Applied
  <2>12. Unseen' /\ OneWorks'
    BY <1>t, <2>2, <2>3, <2>4, <2>5, <2>8 DEF MailIInv, Shapes, Unseen, OneWorks, Unused
  <2> QED BY <2>6, <2>7, <2>10, <2>11, <2>12 DEF MailIInv
<1>3. ASSUME NEW c \in Clerks, CommitIssue(c) PROVE MailIInv'
  <2> DEFINE others == {d \in Clerks \ {c} : issues[d].step # "idle"}
             n == issues[c].link
             seen == issues[c].seen
             beside == issues[c].overlapped \/ others # {}
             fresh(l) == [links[l] EXCEPT !.state = "unused", !.overlapped = beside]
             marked(l) == [links[l] EXCEPT !.state = "used"]
             new(l) == CASE l = n -> fresh(l) [] l \in seen -> marked(l) [] OTHER -> links[l]
  <2>1. /\ issues[c].step = "drafted" /\ UNCHANGED <<uses, pages>>
        /\ links' = [l \in DOMAIN links |-> new(l)]
        /\ issues' = [d \in Clerks |-> CASE d = c -> Resting
                                         [] d \in others -> [issues[d] EXCEPT !.overlapped = TRUE]
                                         [] OTHER -> issues[d]]
    BY <1>3 DEF CommitIssue
  <2>2. n \in DOMAIN links /\ links[n].state = "drafted" /\ n \notin seen
    BY <2>1 DEF MailIInv, Drafts
  <2>3. \A l \in DOMAIN links :
          /\ l = n => /\ new(l) \in Link /\ new(l).state = "unused"
                      /\ new(l).overlapped = beside /\ new(l).applied = links[l].applied
          /\ l # n /\ l \in seen =>
               /\ new(l) \in Link /\ new(l).state = "used"
               /\ new(l).overlapped = links[l].overlapped /\ new(l).applied = links[l].applied
          /\ l # n /\ l \notin seen => new(l) = links[l]
    <3>1. issues[c].overlapped \in BOOLEAN /\ beside \in BOOLEAN
      BY <1>t DEF Shapes, Issue
    <3> HIDE DEF beside
    <3>2. \A l \in DOMAIN links :
            /\ fresh(l) \in Link /\ fresh(l).state = "unused"
            /\ fresh(l).overlapped = beside /\ fresh(l).applied = links[l].applied
      BY <1>d, <3>1 DEF Link
    <3>3. \A l \in DOMAIN links :
            /\ marked(l) \in Link /\ marked(l).state = "used"
            /\ marked(l).overlapped = links[l].overlapped /\ marked(l).applied = links[l].applied
      BY <1>d DEF Link
    <3> HIDE DEF fresh, marked, n, seen
    <3> QED BY <2>2, <3>2, <3>3
  <2> HIDE DEF new, fresh, marked
  <2>4. links' \in Seq(Link) /\ DOMAIN links' = DOMAIN links
        /\ \A l \in DOMAIN links : links'[l] = new(l)
    <3>1. \A l \in DOMAIN links : new(l) \in Link
      BY <1>d, <2>3
    <3>2. links' \in [DOMAIN links -> Link]
      BY <2>1, <3>1
    <3> QED BY <1>t, <2>1, <3>2, LinksKept DEF Shapes
  <2>5. /\ Resting \in Issue /\ Resting.step = "idle" /\ Resting.seen = {} /\ Resting.link = NoLink
    BY DEF Resting, Issue, NoLink
  <2>6. \A d \in Clerks \ {c} :
          /\ issues'[d] \in Issue /\ issues'[d].step = issues[d].step
          /\ issues'[d].seen = issues[d].seen /\ issues'[d].link = issues[d].link
          /\ issues[d].step # "idle" => issues'[d].overlapped
    BY <1>t, <2>1 DEF Shapes, Issue
  <2>7. issues'[c] = Resting /\ DOMAIN issues' = Clerks
    BY <2>1
  <2>8. Shapes'
    <3>1. issues' \in [Clerks -> Issue]
      BY <2>1, <2>5, <2>6, <2>7
    <3> QED BY <1>t, <2>1, <2>4, <3>1 DEF Shapes
  <2> HIDE DEF others, n, seen, beside
  <2>9. Drafts'
    <3>1. \A d \in Clerks \ {c} : issues[d].step = "drafted" => issues[d].link # n /\ issues[d].link \notin seen
      BY <2>1 DEF MailIInv, Drafts, n, seen
    <3>2. \A d \in Clerks : \A l \in issues[d].seen : l \in DOMAIN links /\ links'[l].state # "drafted"
      BY <2>3, <2>4 DEF MailIInv, Drafts
    <3> QED BY <2>3, <2>4, <2>5, <2>6, <2>7, <3>1, <3>2 DEF MailIInv, Drafts
  <2>10. Unused' = {n} \cup (Unused \ seen)
    BY <2>2, <2>3, <2>4 DEF Unused
  <2>11. LocksHold'
    <3>1. \A h \in Handlers : uses[h].step = "checked" => uses[h].link \notin seen
      BY <2>1 DEF MailIInv, LocksHold, seen
    <3> QED BY <2>1, <2>5, <2>6, <2>7, <2>10, <3>1 DEF MailIInv, LocksHold
  <2>12. Applied'
    BY <2>2, <2>3, <2>4 DEF MailIInv, Applied
  <2>13. links'[n].overlapped = beside /\ \A l \in Unused \ seen : links'[l] = links[l]
    BY <2>2, <2>3, <2>4 DEF Unused
  <2>14. \A l \in Unused \ seen : links[l].overlapped /\ beside
    BY <2>1 DEF MailIInv, Unseen, beside, seen
  <2>15. OneWorks'
    BY <2>10, <2>13, <2>14 DEF MailIInv, OneWorks
  <2>16. Unseen'
    <3> SUFFICES ASSUME NEW d \in Clerks, issues'[d].step # "idle",
                        NEW l \in Unused' \ issues'[d].seen
                 PROVE  links'[l].overlapped /\ issues'[d].overlapped
      BY DEF Unseen
    <3>1. d # c /\ issues[d].step # "idle" /\ issues'[d].overlapped
      BY <2>5, <2>6, <2>7
    <3>2. beside
      BY <3>1 DEF beside, others
    <3> QED BY <2>10, <2>13, <2>14, <3>1, <3>2
  <2> QED BY <2>8, <2>9, <2>11, <2>12, <2>15, <2>16 DEF MailIInv
<1>4. ASSUME NEW c \in Clerks, RollbackIssue(c) PROVE MailIInv'
  <2> DEFINE n == issues[c].link
             new(l) == IF l = n THEN [links[l] EXCEPT !.state = "gone"] ELSE links[l]
  <2>1. /\ issues[c].step \in {"read", "drafted"} /\ UNCHANGED <<uses, pages>>
        /\ links' = [l \in DOMAIN links |-> new(l)]
        /\ issues' = [issues EXCEPT ![c] = Resting]
    BY <1>4 DEF RollbackIssue
  <2>2. n \in DOMAIN links => issues[c].step = "drafted" /\ links[n].state = "drafted"
    BY <1>d DEF MailIInv, Drafts
  <2>3. \A l \in DOMAIN links :
          /\ l = n => /\ new(l) \in Link /\ new(l).state = "gone"
                      /\ new(l).applied = links[l].applied
          /\ l # n => new(l) = links[l]
    BY <1>d DEF Link
  <2> HIDE DEF new
  <2>4. links' \in Seq(Link) /\ DOMAIN links' = DOMAIN links
        /\ \A l \in DOMAIN links : links'[l] = new(l)
    <3>1. links' \in [DOMAIN links -> Link]
      BY <1>d, <2>1, <2>3
    <3> QED BY <1>t, <2>1, <3>1, LinksKept DEF Shapes
  <2>5. Resting \in Issue /\ Resting.step = "idle" /\ Resting.seen = {} /\ Resting.link = NoLink
    BY DEF Resting, Issue, NoLink
  <2>6. Shapes'
    BY <1>t, <2>1, <2>4, <2>5 DEF Shapes
  <2> HIDE DEF n
  <2>7. Drafts'
    <3>1. \A d \in Clerks \ {c} : issues[d].step = "drafted" => issues[d].link # n
      BY <2>2 DEF MailIInv, Drafts, n
    <3>2. \A d \in Clerks : \A l \in issues[d].seen : l \in DOMAIN links /\ links'[l].state # "drafted"
      BY <2>3, <2>4 DEF MailIInv, Drafts
    <3>3. \A d \in Clerks \ {c} : issues'[d] = issues[d]
      BY <1>t, <2>1 DEF Shapes
    <3>4. issues'[c] = Resting
      BY <1>t, <2>1 DEF Shapes
    <3> QED BY <2>3, <2>4, <2>5, <3>1, <3>2, <3>3, <3>4 DEF MailIInv, Drafts
  <2>8. Unused' = Unused /\ \A l \in Unused : links'[l] = links[l]
    BY <2>2, <2>3, <2>4 DEF Unused
  <2>9. LocksHold' /\ Unseen' /\ OneWorks'
    <3>1. \A d \in Clerks : issues'[d] = IF d = c THEN Resting ELSE issues[d]
      BY <1>t, <2>1 DEF Shapes
    <3>2. LocksHold'
      BY <2>1, <2>5, <2>8, <3>1 DEF MailIInv, LocksHold
    <3>3. Unseen'
      BY <2>5, <2>8, <3>1 DEF MailIInv, Unseen
    <3>4. OneWorks'
      BY <2>8 DEF MailIInv, OneWorks
    <3> QED BY <3>2, <3>3, <3>4
  <2>10. Applied'
    BY <2>3, <2>4 DEF MailIInv, Applied
  <2> QED BY <2>6, <2>7, <2>9, <2>10 DEF MailIInv
(* Steps that write a column of one link which decides nothing here *)
<1>k. ASSUME NEW l \in DOMAIN links, NEW x \in Link, links' = [links EXCEPT ![l] = x],
             x.state = links[l].state, x.overlapped = links[l].overlapped,
             x.applied = links[l].applied, Shapes', UNCHANGED issues,
             \A h \in Handlers : uses'[h].step = "checked" => uses'[h] = uses[h]
      PROVE  MailIInv'
  <2>1. /\ DOMAIN links' = DOMAIN links
        /\ \A m \in DOMAIN links :
             /\ links'[m].state = links[m].state /\ links'[m].overlapped = links[m].overlapped
             /\ links'[m].applied = links[m].applied
    BY <1>k
  <2>2. Unused' = Unused
    BY <2>1 DEF Unused
  <2>3. Drafts' /\ Applied'
    BY <1>k, <2>1 DEF MailIInv, Drafts, Applied
  <2>4. LocksHold'
    BY <1>k, <2>2 DEF MailIInv, LocksHold
  <2>5. Unseen' /\ OneWorks'
    BY <1>k, <2>1, <2>2 DEF MailIInv, Unseen, OneWorks, Unused
  <2> QED BY <1>k, <2>3, <2>4, <2>5 DEF MailIInv
<1>5. ASSUME NEW l \in DOMAIN links, Expire(l) PROVE MailIInv'
  <2> DEFINE x == [links[l] EXCEPT !.expired = TRUE]
  <2>1. /\ x \in Link /\ x.state = links[l].state /\ x.overlapped = links[l].overlapped
        /\ x.applied = links[l].applied
    BY <1>d DEF Link
  <2>2. links' = [links EXCEPT ![l] = x] /\ UNCHANGED <<issues, uses, pages>>
    BY <1>5 DEF Expire
  <2> HIDE DEF x
  <2>3. Shapes'
    BY <1>t, <2>1, <2>2, LinksKept DEF Shapes
  <2> QED BY <1>k, <2>1, <2>2, <2>3
<1>s. ASSUME NEW p \in LinkPages, NEW l \in Nat, NEW doubt \in BOOLEAN, Send(p, l, doubt)
      PROVE  /\ uses' \in [Handlers -> Use]
             /\ \A h \in Handlers : uses'[h].step = "checked" => uses'[h] = uses[h]
             /\ pages' \in [LinkPages -> Page]
  <2>1. PICK h \in Handlers :
          /\ uses' = [uses EXCEPT ![h] = [step |-> "sent", link |-> l]]
          /\ pages' = [pages EXCEPT ![p] = [status |-> "loading", link |-> l,
                                            waits |-> <<h>>, doubt |-> doubt]]
    BY <1>s DEF Send
  <2>2. [step |-> "sent", link |-> l] \in Use
    BY DEF Use
  <2>3. <<h>> \in Seq(Handlers)
    OBVIOUS
  <2>4. [status |-> "loading", link |-> l, waits |-> <<h>>, doubt |-> doubt] \in Page
    BY <2>3 DEF Page
  <2>5. pages' \in [LinkPages -> Page]
    BY <1>t, <2>1, <2>4 DEF Shapes
  <2>6. uses' \in [Handlers -> Use]
    BY <1>r, <2>1, <2>2
  <2>7. \A g \in Handlers : uses'[g].step = "checked" => uses'[g] = uses[g]
    BY <1>t, <2>1 DEF Shapes
  <2> QED BY <2>5, <2>6, <2>7
<1>6. ASSUME NEW l \in DOMAIN links, NEW p \in LinkPages, OpenLink(p, l) PROVE MailIInv'
  <2> DEFINE x == [links[l] EXCEPT !.opened = @ + 1]
  <2>1. /\ x \in Link /\ x.state = links[l].state /\ x.overlapped = links[l].overlapped
        /\ x.applied = links[l].applied
    BY <1>d DEF Link
  <2>2. links' = [links EXCEPT ![l] = x] /\ UNCHANGED issues
    BY <1>6, <1>t DEF OpenLink, Shapes
  <2> HIDE DEF x
  <2>3. links' \in Seq(Link)
    BY <1>t, <2>1, <2>2, LinksKept DEF Shapes
  <2>4. CASE purpose = "reset"
    <3>1. pages' = [pages EXCEPT ![p] = [status |-> "form", link |-> l,
                                         waits |-> NobodyWaits, doubt |-> FALSE]]
          /\ uses' = uses
      BY <1>6, <2>4 DEF OpenLink
    <3>2. NobodyWaits \in Seq(Handlers)
      BY EmptySeq DEF NobodyWaits
    <3>3. Shapes'
      <4>1. [status |-> "form", link |-> l, waits |-> NobodyWaits, doubt |-> FALSE] \in Page
        BY <1>d, <3>2 DEF Page
      <4>2. pages' \in [LinkPages -> Page]
        BY <1>t, <3>1, <4>1 DEF Shapes
      <4> QED BY <1>t, <2>2, <2>3, <3>1, <4>2 DEF Shapes
    <3> QED BY <1>k, <2>1, <2>2, <3>1, <3>3
  <2>5. CASE purpose # "reset"
    <3>1. Send(p, l, FALSE) /\ l \in Nat
      BY <1>6, <1>d, <2>5 DEF OpenLink
    <3>2. /\ uses' \in [Handlers -> Use]
          /\ \A h \in Handlers : uses'[h].step = "checked" => uses'[h] = uses[h]
          /\ pages' \in [LinkPages -> Page]
      BY <1>s, <3>1
    <3>3. Shapes'
      BY <1>t, <2>2, <2>3, <3>2 DEF Shapes
    <3> QED BY <1>k, <2>1, <2>2, <3>2, <3>3
  <2> QED BY <2>4, <2>5
<1>7. ASSUME NEW p \in LinkPages, TryLink(p) PROVE MailIInv'
  <2>1. pages[p].link \in Nat /\ pages[p].doubt \in BOOLEAN
        /\ Send(p, pages[p].link, pages[p].doubt) /\ UNCHANGED <<links, issues>>
    BY <1>7, <1>t DEF TryLink, Shapes, Page
  <2>2. /\ uses' \in [Handlers -> Use]
        /\ \A h \in Handlers : uses'[h].step = "checked" => uses'[h] = uses[h]
        /\ pages' \in [LinkPages -> Page]
    BY <1>s, <2>1
  <2>3. Shapes'
    BY <1>t, <2>1, <2>2 DEF Shapes
  <2> QED BY <2>1, <2>2, <2>3, UseStep
<1>8. ASSUME NEW p \in LinkPages, Answered(p) \/ Unanswered(p) PROVE MailIInv'
  <2>1. NobodyWaits \in Seq(Handlers)
    BY EmptySeq DEF NobodyWaits
  <2>2. pages' \in [LinkPages -> Page]
    BY <1>8, <1>t, <2>1 DEF Answered, Unanswered, Shapes, Page
  <2>3. /\ uses' \in [Handlers -> Use] /\ UNCHANGED <<links, issues>>
        /\ \A h \in Handlers : uses'[h].step = "checked" => uses'[h] = uses[h]
    BY <1>8, <1>t, <1>i DEF Answered, Unanswered, Shapes
  <2>4. Shapes'
    BY <1>t, <2>2, <2>3 DEF Shapes
  <2> QED BY <2>3, <2>4, UseStep
<1>9. ASSUME NEW h \in Handlers, Check(h) PROVE MailIInv'
  <2> DEFINE l == uses[h].link
             s == IF l \in Unused /\ ~links[l].expired /\ ~taken THEN "checked" ELSE "refused"
             x == [uses[h] EXCEPT !.step = s]
  <2>1. s \in {"checked", "refused"} /\ (s = "checked" => l \in Unused)
    OBVIOUS
  <2>2. uses' = [uses EXCEPT ![h].step = s] /\ ~Locked(l) /\ UNCHANGED <<links, issues, pages>>
    BY <1>9 DEF Check
  <2> HIDE DEF s
  <2>3. x \in Use /\ x.step = s /\ x.link = l
    BY <1>t, <2>1 DEF Shapes, Use
  <2>4. uses' = [uses EXCEPT ![h] = x]
    BY <1>t, <2>2 DEF Shapes
  <2> HIDE DEF x, l
  <2>5. Shapes'
    BY <1>t, <1>r, <2>2, <2>3, <2>4 DEF Shapes
  <2>6. Drafts' /\ Applied' /\ Unseen' /\ OneWorks'
    BY <2>2 DEF MailIInv, Drafts, Applied, Unseen, OneWorks, Unused
  <2>7. \A g \in Handlers : uses[g].step = "checked" => uses[g].link # l
    BY <2>2 DEF Locked
  <2>8. \A c \in Clerks : issues[c].step = "drafted" => l \notin issues[c].seen
    BY <2>2 DEF Locked
  <2>9. LocksHold'
    <3>1. /\ Unused' = Unused
          /\ \A g \in Handlers : uses'[g] = IF g = h THEN x ELSE uses[g]
      BY <1>t, <2>2, <2>4 DEF Shapes, Unused
    <3>2. \A g \in Handlers : uses'[g].step = "checked" => uses'[g].link \in Unused
      BY <2>1, <2>3, <3>1 DEF MailIInv, LocksHold
    <3>3. \A g \in Handlers, k \in Handlers :
            uses'[g].step = "checked" /\ uses'[k].step = "checked" /\ uses'[g].link = uses'[k].link
              => g = k
      BY <2>3, <2>7, <3>1 DEF MailIInv, LocksHold
    <3>4. \A g \in Handlers, c \in Clerks :
            uses'[g].step = "checked" /\ issues[c].step = "drafted" => uses'[g].link \notin issues[c].seen
      BY <2>3, <2>8, <3>1 DEF MailIInv, LocksHold
    <3> QED BY <2>2, <3>1, <3>2, <3>3, <3>4 DEF LocksHold
  <2> QED BY <2>5, <2>6, <2>9 DEF MailIInv
<1>10. ASSUME NEW h \in Handlers, CommitUse(h) PROVE MailIInv'
  <2>e. \A s \in {"refused", "done"} :
          [uses[h] EXCEPT !.step = s] \in Use /\ [uses[h] EXCEPT !.step = s].step = s
    BY <1>t DEF Shapes, Use
  <2>1. CASE taken
    <3>1. uses' = [uses EXCEPT ![h] = [uses[h] EXCEPT !.step = "refused"]]
          /\ UNCHANGED <<links, issues, pages>>
      BY <1>10, <1>t, <2>1 DEF CommitUse, Shapes
    <3>2. Shapes' /\ \A g \in Handlers : uses'[g].step = "checked" => uses'[g] = uses[g]
      BY <1>t, <1>r, <2>e, <3>1 DEF Shapes
    <3> QED BY <3>1, <3>2, UseStep
  <2>2. CASE ~taken
    <3> DEFINE l == uses[h].link
               x == [links[l] EXCEPT !.state = "used", !.applied = @ + 1]
    <3>1. /\ uses' = [uses EXCEPT ![h] = [uses[h] EXCEPT !.step = "done"]]
          /\ links' = [links EXCEPT ![l] = x] /\ UNCHANGED <<issues, pages>>
          /\ uses[h].step = "checked"
      BY <1>10, <1>t, <2>2 DEF CommitUse, Shapes
    <3>2. l \in DOMAIN links /\ links[l].state = "unused" /\ links[l].applied = 0
      BY <3>1 DEF MailIInv, LocksHold, Unused, Applied
    <3>3. x \in Link /\ x.state = "used" /\ x.applied = 1
      <4>1. links[l] \in Link /\ links[l].applied = 0
        BY <1>d, <3>2
      <4> QED BY <4>1, UsedLink
    <3> HIDE DEF x
    <3>4. links' \in Seq(Link) /\ DOMAIN links' = DOMAIN links
          /\ links'[l] = x /\ \A m \in DOMAIN links : m # l => links'[m] = links[m]
      <4>1. links' \in [DOMAIN links -> Link]
        BY <1>t, <1>d, <3>1, <3>2, <3>3, LenProperties DEF Shapes
      <4>2. links' \in Seq(Link) /\ DOMAIN links' = DOMAIN links
        BY <1>t, <4>1, LinksKept DEF Shapes
      <4> QED BY <3>1, <3>2, <4>2
    <3>5. Shapes'
      BY <1>t, <1>r, <2>e, <3>1, <3>4 DEF Shapes
    <3>6. \A g \in Handlers : uses'[g].step = "checked" =>
            uses'[g] = uses[g] /\ g # h /\ uses[g].link # l
      BY <1>t, <2>e, <3>1 DEF MailIInv, LocksHold, Shapes
    <3> HIDE DEF l
    <3>7. Unused' = Unused \ {l}
      BY <3>3, <3>4 DEF Unused
    <3>8. Drafts' /\ Applied'
      BY <3>1, <3>2, <3>3, <3>4 DEF MailIInv, Drafts, Applied
    <3>9. LocksHold'
      BY <3>1, <3>6, <3>7 DEF MailIInv, LocksHold
    <3>10. Unseen' /\ OneWorks'
      BY <3>1, <3>4, <3>7 DEF MailIInv, Unseen, OneWorks, Unused
    <3> QED BY <3>5, <3>8, <3>9, <3>10 DEF MailIInv
  <2> QED BY <2>1, <2>2
<1>11. ASSUME NEW h \in Handlers, RollbackUse(h) \/ Dropped(h) PROVE MailIInv'
  <2>1. [uses[h] EXCEPT !.step = "refused"] \in Use
        /\ [uses[h] EXCEPT !.step = "refused"].step = "refused"
    BY <1>t DEF Shapes, Use
  <2>2. PICK x \in Use : x.step # "checked" /\ uses' = [uses EXCEPT ![h] = x]
    BY <1>11, <1>t, <1>i, <2>1 DEF RollbackUse, Dropped, Shapes
  <2>3. Shapes' /\ UNCHANGED <<links, issues>>
        /\ \A g \in Handlers : uses'[g].step = "checked" => uses'[g] = uses[g]
    BY <1>11, <1>t, <2>2 DEF RollbackUse, Dropped, Shapes
  <2> QED BY <2>3, UseStep
<1>12. CASE TakeAddress \/ UNCHANGED mailVars
  <2>1. Shapes' /\ UNCHANGED <<links, issues, uses>>
    BY <1>12, <1>t DEF TakeAddress, mailVars, Shapes
  <2> QED BY <2>1, UseStep
<1> QED
  BY <1>1, <1>2, <1>3, <1>4, <1>5, <1>6, <1>7, <1>8, <1>9, <1>10, <1>11, <1>12 DEF MailNext

-----------------------------------------------------------------------------
(* What the pages say of their links *)

(* A page waits for a use of its own link, and no other page for the same. *)
Waiting ==
  /\ \A p \in LinkPages :
       /\ (pages[p].status = "loading") <=> (pages[p].waits # NobodyWaits)
       /\ pages[p].waits # NobodyWaits =>
            \E h \in Handlers : /\ pages[p].waits = <<h>> /\ uses[h].step # "idle"
                                /\ uses[h].link = pages[p].link
       /\ IF pages[p].status = "closed" THEN pages[p].link = NoLink ELSE pages[p].link \in DOMAIN links
  /\ \A p, q \in LinkPages : pages[p].waits # NobodyWaits /\ pages[p].waits = pages[q].waits => p = q
  /\ \A h \in Handlers : uses[h].step # "idle" => uses[h].link \in DOMAIN links

(* What was opened once has one page, which waits for what it has sent     *)
(* unless an answer was lost. *)
OpenedOnce ==
  /\ \A l \in DOMAIN links : links[l].opened = 0 => links[l].applied = 0
  /\ \A h \in Handlers : uses[h].step # "idle" => links[uses[h].link].opened > 0
  /\ \A p \in LinkPages : pages[p].status # "closed" => links[pages[p].link].opened > 0
  /\ \A p, q \in LinkPages :
       pages[p].status # "closed" /\ pages[p].link = pages[q].link /\ p # q => links[pages[p].link].opened > 1
  /\ \A p \in LinkPages, h \in Handlers :
       uses[h].step # "idle" /\ uses[h].link = pages[p].link =>
         \/ pages[p].doubt \/ pages[p].waits = <<h>> \/ links[pages[p].link].opened > 1

(* What is done was applied; a page says so, or is about to be told. *)
Told ==
  /\ \A h \in Handlers : uses[h].step = "done" => links[uses[h].link].applied > 0
  /\ \A p \in LinkPages : pages[p].status = "success" => links[pages[p].link].applied > 0
  /\ \A p \in LinkPages : pages[p].status # "closed" /\ links[pages[p].link].applied > 0 =>
       \/ pages[p].doubt \/ links[pages[p].link].opened > 1 \/ pages[p].status = "success"
       \/ \E h \in Handlers : pages[p].waits = <<h>> /\ uses[h].step = "done"

(* A draft has its request, and what is opened is counted. *)
Counted ==
  /\ purpose \in Purposes /\ verified \in BOOLEAN /\ tries \in 0..MaxTries
  /\ taken => purpose = "change"
  /\ \A l \in DOMAIN links :
       /\ links[l].opened <= tries
       /\ links[l].state = "drafted" => \E c \in Clerks : issues[c].step = "drafted" /\ issues[c].link = l

PagesInv == Waiting /\ OpenedOnce /\ Told

(* What a page waits for is one use. *)
LEMMA OneWaits ==
  ASSUME NEW g, NEW h
  PROVE  <<h>> # NobodyWaits /\ Head(<<h>>) = h /\ (<<g>> = <<h>> => g = h)
BY DEF NobodyWaits

(* No page is open at first, and no step breaks what pages say. *)
LEMMA PagesInvInit == MailInit => PagesInv
<1> SUFFICES ASSUME MailInit PROVE PagesInv
  OBVIOUS
<1>1. /\ DOMAIN links = {}
      /\ \A h \in Handlers : uses[h].step = "idle"
      /\ \A p \in LinkPages : pages[p].status = "closed" /\ pages[p].link = NoLink /\ pages[p].waits = NobodyWaits
  BY DEF MailInit
<1> QED BY <1>1 DEF PagesInv, Waiting, OpenedOnce, Told

(* Links are added, or change but in what the pages know of them. *)
LEMMA LinksAside ==
  ASSUME MailIInv, MailIInv', PagesInv, UNCHANGED <<uses, pages>>, DOMAIN links \subseteq DOMAIN links',
         \A l \in DOMAIN links : links'[l].opened = links[l].opened /\ links'[l].applied = links[l].applied,
         \A l \in DOMAIN links' \ DOMAIN links : links'[l].opened = 0 /\ links'[l].applied = 0
  PROVE  PagesInv'
<1>1. Waiting'
  BY DEF PagesInv, Waiting
<1>2. /\ \A h \in Handlers : uses[h].step # "idle" => uses[h].link \in DOMAIN links
      /\ \A p \in LinkPages : pages[p].status # "closed" => pages[p].link \in DOMAIN links
  BY DEF PagesInv, Waiting
<1>4. \A p \in LinkPages, h \in Handlers :
        uses[h].step # "idle" /\ uses[h].link = pages[p].link => pages[p].link \in DOMAIN links
  BY <1>2
<1>5. OpenedOnce'
  BY <1>2, <1>4 DEF PagesInv, OpenedOnce
<1>6. Told'
  BY <1>2 DEF PagesInv, Told
<1> QED BY <1>1, <1>5, <1>6 DEF PagesInv

(* A use takes a step, other than from its page, and answers nobody. *)
LEMMA UseAside ==
  ASSUME MailIInv, PagesInv, UNCHANGED <<links, pages>>,
         NEW g \in Handlers, NEW x \in Use, uses' = [uses EXCEPT ![g] = x],
         \/ x.step # "idle" /\ x.step # "done" /\ uses[g].step \notin {"idle", "done"} /\ x.link = uses[g].link
         \/ x.step = "idle" /\ \A p \in LinkPages : pages[p].waits # <<g>>
  PROVE  PagesInv'
<1>1. \A h \in Handlers : uses'[h] = IF h = g THEN x ELSE uses[h]
  BY DEF MailIInv, Shapes
<1>2. Waiting'
  BY <1>1 DEF PagesInv, Waiting
<1>3. OpenedOnce'
  BY <1>1 DEF PagesInv, OpenedOnce
<1>4. Told'
  BY <1>1, OneWaits DEF PagesInv, Told
<1> QED BY <1>2, <1>3, <1>4 DEF PagesInv

(* A link is opened: its page is new, and has sent its token or not. *)
LEMMA PageOpens ==
  ASSUME MailIInv, PagesInv, NEW p \in LinkPages, NEW l \in DOMAIN links, NEW y \in Page,
         DOMAIN links' = DOMAIN links,
         \A m \in DOMAIN links : /\ links'[m].applied = links[m].applied
                                 /\ links'[m].opened = IF m = l THEN links[m].opened + 1 ELSE links[m].opened,
         pages' = [pages EXCEPT ![p] = y], y.link = l,
         \/ y.status = "form" /\ y.waits = NobodyWaits /\ uses' = uses
         \/ /\ y.status = "loading"
            /\ \E h \in Handlers : /\ uses[h].step = "idle" /\ y.waits = <<h>>
                                   /\ uses' = [uses EXCEPT ![h] = [step |-> "sent", link |-> l]]
  PROVE  PagesInv'
<1>1. \A q \in LinkPages : pages'[q] = IF q = p THEN y ELSE pages[q]
  BY DEF MailIInv, Shapes
<1>2. NoLink \notin DOMAIN links /\ \A m \in DOMAIN links : links[m].opened \in Nat
  BY Positions0 DEF MailIInv, Shapes, Link
<1>3. \A q \in LinkPages : pages[q].link = l => links[l].opened > 0
  BY <1>2 DEF PagesInv, Waiting, OpenedOnce
<1>4. \A h \in Handlers : uses[h].step # "idle" => uses[h].link \in DOMAIN links
  BY DEF PagesInv, Waiting
<1>5. CASE y.status = "form" /\ y.waits = NobodyWaits /\ uses' = uses
  <2>1. Waiting'
    BY <1>1, <1>5 DEF PagesInv, Waiting
  <2>2. OpenedOnce'
    <3>1. \A q \in LinkPages : pages[q].status # "closed" => pages[q].link \in DOMAIN links
      BY DEF PagesInv, Waiting
    <3> QED BY <1>1, <1>2, <1>3, <1>4, <1>5, <3>1 DEF PagesInv, OpenedOnce
  <2>3. Told'
    <3>1. \A q \in LinkPages : pages[q].status # "closed" => pages[q].link \in DOMAIN links
      BY DEF PagesInv, Waiting
    <3> QED BY <1>1, <1>2, <1>4, <1>5, <3>1 DEF PagesInv, OpenedOnce, Told
  <2> QED BY <2>1, <2>2, <2>3 DEF PagesInv
<1>6. ASSUME NEW h \in Handlers, y.status = "loading", uses[h].step = "idle", y.waits = <<h>>,
             uses' = [uses EXCEPT ![h] = [step |-> "sent", link |-> l]]
      PROVE  PagesInv'
  <2>1. \A g \in Handlers : uses'[g] = IF g = h THEN [step |-> "sent", link |-> l] ELSE uses[g]
    BY <1>6 DEF MailIInv, Shapes
  <2>2. \A q \in LinkPages : pages[q].status # "closed" => pages[q].link \in DOMAIN links
    BY DEF PagesInv, Waiting
  <2>3. Waiting'
    <3>1. /\ uses'[h].step # "idle" /\ uses'[h].link = l
          /\ \A g \in Handlers : g # h => uses'[g] = uses[g]
      BY <2>1
    <3>2. pages'[p] = y /\ \A q \in LinkPages : q # p => pages'[q] = pages[q]
      BY <1>1
    <3>3. ASSUME NEW q \in LinkPages PROVE pages[q].waits # <<h>>
      <4> SUFFICES ASSUME pages[q].waits = <<h>> PROVE FALSE
        OBVIOUS
      <4>1. pages[q].waits # NobodyWaits
        BY OneWaits
      <4>2. PICK g \in Handlers : pages[q].waits = <<g>> /\ uses[g].step # "idle"
        BY <4>1 DEF PagesInv, Waiting
      <4>3. g = h
        BY <4>2, OneWaits
      <4> QED BY <4>2, <4>3, <1>6
    <3>4. <<h>> # NobodyWaits /\ l \in DOMAIN links'
      BY OneWaits
    <3>5. y.status = "loading" /\ y.waits = <<h>> /\ y.link = l /\ DOMAIN links' = DOMAIN links
      BY <1>6
    <3>6. ASSUME NEW q \in LinkPages
          PROVE  /\ (pages'[q].status = "loading") <=> (pages'[q].waits # NobodyWaits)
                 /\ pages'[q].waits # NobodyWaits =>
                      \E g \in Handlers : /\ pages'[q].waits = <<g>> /\ uses'[g].step # "idle"
                                          /\ uses'[g].link = pages'[q].link
                 /\ IF pages'[q].status = "closed" THEN pages'[q].link = NoLink
                    ELSE pages'[q].link \in DOMAIN links'
      <4>1. CASE q = p
        <5>1. pages'[q] = y /\ y.status = "loading" /\ y.link \in DOMAIN links'
          BY <4>1, <3>2, <3>4, <3>5
        <5>2. y.waits # NobodyWaits
          BY <3>4, <3>5
        <5>3. \E g \in Handlers : y.waits = <<g>> /\ uses'[g].step # "idle" /\ uses'[g].link = y.link
          BY <3>1, <3>5
        <5> QED BY <5>1, <5>2, <5>3
      <4>2. CASE q # p
        <5>1. pages'[q] = pages[q] /\ DOMAIN links' = DOMAIN links
          BY <4>2, <3>2, <3>5
        <5>2. pages[q].waits # NobodyWaits =>
                \E g \in Handlers : pages[q].waits = <<g>> /\ uses'[g].step # "idle" /\ uses'[g].link = pages[q].link
          BY <3>1, <1>6 DEF PagesInv, Waiting
        <5> QED BY <5>1, <5>2 DEF PagesInv, Waiting
      <4> QED BY <4>1, <4>2
    <3>7. \A q, r \in LinkPages : pages'[q].waits # NobodyWaits /\ pages'[q].waits = pages'[r].waits => q = r
      BY <3>2, <3>3, <3>4, <3>5 DEF PagesInv, Waiting
    <3>8. \A g \in Handlers : uses'[g].step # "idle" => uses'[g].link \in DOMAIN links'
      BY <3>1, <3>4, <3>5 DEF PagesInv, Waiting
    <3> QED BY <3>6, <3>7, <3>8 DEF Waiting
  <2>4. OpenedOnce'
    BY <1>1, <1>2, <1>3, <1>4, <1>6, <2>1, <2>2 DEF PagesInv, OpenedOnce
  <2>5. Told'
    BY SMTT(30), <1>1, <1>2, <1>4, <1>6, <2>1, <2>2 DEF PagesInv, OpenedOnce, Told
  <2> QED BY <2>3, <2>4, <2>5 DEF PagesInv
<1> QED BY <1>5, <1>6

(* The link of a page is sent again. *)
LEMMA PageTries ==
  ASSUME MailIInv, PagesInv, NEW p \in LinkPages, NEW h \in Handlers, TryLink(p),
         uses[h].step = "idle",
         uses' = [uses EXCEPT ![h] = [step |-> "sent", link |-> pages[p].link]],
         pages' = [pages EXCEPT ![p] = [status |-> "loading", link |-> pages[p].link, waits |-> <<h>>,
                                        doubt |-> pages[p].doubt]]
  PROVE  PagesInv'
<1>1. \A q \in LinkPages : pages'[q] = IF q = p THEN [status |-> "loading", link |-> pages[p].link, waits |-> <<h>>,
                                                      doubt |-> pages[p].doubt] ELSE pages[q]
  BY DEF MailIInv, Shapes
<1>2. \A g \in Handlers : uses'[g] = IF g = h THEN [step |-> "sent", link |-> pages[p].link] ELSE uses[g]
  BY DEF MailIInv, Shapes
<1>3. links' = links /\ pages[p].status \in {"form", "error"}
  BY DEF TryLink
<1>4. pages[p].link \in DOMAIN links /\ pages[p].waits = NobodyWaits
  BY <1>3 DEF PagesInv, Waiting
<1>5. NoLink \notin DOMAIN links
  BY Positions0 DEF MailIInv, Shapes
<1>6. Waiting'
  BY <1>1, <1>2, <1>3, <1>4, OneWaits DEF PagesInv, Waiting
<1>7. OpenedOnce'
  BY <1>1, <1>2, <1>3, <1>4, OneWaits DEF PagesInv, OpenedOnce
<1>8. Told'
  BY <1>1, <1>2, <1>3, <1>4, OneWaits DEF PagesInv, Told
<1> QED BY <1>6, <1>7, <1>8 DEF PagesInv

(* The answer arrives. *)
LEMMA PageAnswered ==
  ASSUME MailIInv, PagesInv, NEW p \in LinkPages, Answered(p)
  PROVE  PagesInv'
<1>1. pages[p].waits # NobodyWaits
  BY DEF Answered
<1>2. PICK h \in Handlers : pages[p].waits = <<h>> /\ uses[h].step # "idle" /\ uses[h].link = pages[p].link
  BY <1>1 DEF PagesInv, Waiting
<1>3. /\ uses[h].step \in {"done", "refused"} /\ links' = links
      /\ pages' = [pages EXCEPT ![p].status = IF uses[h].step = "done" THEN "success" ELSE "error",
                                ![p].waits = NobodyWaits]
      /\ uses' = [uses EXCEPT ![h] = [step |-> "idle", link |-> NoLink]]
  BY <1>2, OneWaits DEF Answered
<1>4. links' = links /\ uses[h].step \in {"done", "refused"}
  BY <1>3
<1>5. \A q \in LinkPages : q # p => pages'[q] = pages[q]
  BY <1>3 DEF MailIInv, Shapes
<1>6. /\ pages'[p].status = IF uses[h].step = "done" THEN "success" ELSE "error"
      /\ pages'[p].waits = NobodyWaits /\ pages'[p].link = pages[p].link /\ pages'[p].doubt = pages[p].doubt
  BY <1>3 DEF MailIInv, Shapes, Page
<1>7. /\ \A g \in Handlers : g # h => uses'[g] = uses[g]
      /\ uses'[h].step = "idle"
  BY <1>3 DEF MailIInv, Shapes
<1>8. \A q \in LinkPages : q # p => pages[q].waits # <<h>>
  BY <1>1, <1>2 DEF PagesInv, Waiting
<1>9. pages[p].status = "loading" /\ pages[p].link \in DOMAIN links
  BY <1>1, <1>2 DEF PagesInv, Waiting
<1>10. Waiting'
  BY <1>4, <1>5, <1>6, <1>7, <1>8, <1>9, OneWaits DEF PagesInv, Waiting
<1>11. OpenedOnce'
  BY <1>2, <1>4, <1>5, <1>6, <1>7, <1>8, <1>9, OneWaits DEF PagesInv, OpenedOnce
<1>12. Told'
  <2>1. uses[h].step = "done" => links[pages[p].link].applied > 0
    BY <1>2 DEF PagesInv, Told
  <2>2. links[pages[p].link].applied > 0 =>
          pages[p].doubt \/ links[pages[p].link].opened > 1 \/ uses[h].step = "done"
    BY <1>2, <1>9, OneWaits DEF PagesInv, Told
  <2> QED BY <2>1, <2>2, <1>4, <1>5, <1>6, <1>7, <1>8, <1>9 DEF PagesInv, Told
<1> QED BY <1>10, <1>11, <1>12 DEF PagesInv

(* The answer is lost: the page fails, and is in doubt. *)
LEMMA PageUnanswered ==
  ASSUME MailIInv, PagesInv, NEW p \in LinkPages, Unanswered(p)
  PROVE  PagesInv'
<1>1. pages' = [pages EXCEPT ![p].status = "error", ![p].waits = NobodyWaits, ![p].doubt = TRUE]
  BY DEF Unanswered
<1>2. \A q \in LinkPages : q # p => pages'[q] = pages[q]
  BY <1>1 DEF MailIInv, Shapes
<1>3. /\ pages'[p].status = "error" /\ pages'[p].waits = NobodyWaits
      /\ pages'[p].link = pages[p].link /\ pages'[p].doubt = TRUE
  BY <1>1 DEF MailIInv, Shapes, Page
<1>4. pages[p].waits # NobodyWaits /\ links' = links /\ uses' = uses
  BY DEF Unanswered
<1>5. pages[p].status = "loading" /\ pages[p].link \in DOMAIN links
  BY <1>4 DEF PagesInv, Waiting
<1>6. Waiting'
  BY <1>2, <1>3, <1>4, <1>5 DEF PagesInv, Waiting
<1>7. OpenedOnce'
  BY <1>2, <1>3, <1>4, <1>5 DEF PagesInv, OpenedOnce
<1>8. Told'
  BY <1>2, <1>3, <1>4, <1>5 DEF PagesInv, Told
<1> QED BY <1>6, <1>7, <1>8 DEF PagesInv

(* A use is committed. *)
LEMMA UseDone ==
  ASSUME MailIInv, PagesInv, NEW h \in Handlers, CommitUse(h), ~taken
  PROVE  PagesInv'
<1> DEFINE l == uses[h].link
<1>1. /\ uses[h].step = "checked" /\ pages' = pages
      /\ uses' = [uses EXCEPT ![h].step = "done"]
      /\ links' = [links EXCEPT ![l].state = "used", ![l].applied = @ + 1]
  BY DEF CommitUse
<1>2. /\ \A g \in Handlers \ {h} : uses'[g] = uses[g]
      /\ uses'[h].step = "done" /\ uses'[h].link = l
  BY <1>1 DEF MailIInv, Shapes, Use
<1>3. l \in DOMAIN links /\ links[l] \in Link /\ links[l].applied = 0
  BY <1>1, Positions0 DEF MailIInv, LocksHold, Unused, Applied, Shapes
<1>4. /\ DOMAIN links' = DOMAIN links
      /\ \A m \in DOMAIN links : m # l => links'[m] = links[m]
      /\ links'[l].applied = 1 /\ links'[l].opened = links[l].opened
  <2> DEFINE x == [links[l] EXCEPT !.state = "used", !.applied = @ + 1]
  <2>1. x.applied = 1 /\ x.opened = links[l].opened
    BY <1>3, UsedLink
  <2>2. links' = [links EXCEPT ![l] = x]
    BY <1>1
  <2> HIDE DEF x
  <2> QED BY <1>3, <2>1, <2>2
<1> HIDE DEF l
<1>5. Waiting'
  BY <1>1, <1>2, <1>4 DEF PagesInv, Waiting, l
<1>6. links[l].opened > 0
  BY <1>1 DEF PagesInv, OpenedOnce, l
<1>7. /\ \A q \in LinkPages : pages[q].status # "closed" => pages[q].link \in DOMAIN links
      /\ \A g \in Handlers : uses[g].step # "idle" => uses[g].link \in DOMAIN links
  BY DEF PagesInv, Waiting
<1>8. OpenedOnce'
  <2>1. \A m \in DOMAIN links : links'[m].opened = links[m].opened
    BY <1>4
  <2>2. \A m \in DOMAIN links : links[m].opened = 0 => links'[m].applied = 0
    BY SMTT(30), <1>3, <1>4, <1>6 DEF PagesInv, OpenedOnce, MailIInv, Shapes, Link
  <2>3. \A g \in Handlers : /\ uses'[g].link = uses[g].link
                            /\ uses'[g].step # "idle" <=> uses[g].step # "idle"
    BY <1>1, <1>2 DEF l
  <2> QED BY <1>1, <1>4, <1>7, <2>1, <2>2, <2>3 DEF PagesInv, OpenedOnce
<1>9. Told'
  <2>1. \A m \in DOMAIN links : links[m].applied > 0 => links'[m].applied > 0
    BY <1>4
  <2>2. \A g \in Handlers : uses'[g].step = "done" => links'[uses'[g].link].applied > 0
    BY <1>2, <1>3, <1>4, <1>7, <2>1 DEF PagesInv, Told
  <2>3. \A q \in LinkPages : pages[q].status = "success" => links'[pages[q].link].applied > 0
    BY <1>7, <2>1 DEF PagesInv, Told
  <2>4. ASSUME NEW q \in LinkPages, pages[q].status # "closed", links'[pages[q].link].applied > 0
        PROVE  \/ pages[q].doubt \/ links'[pages[q].link].opened > 1 \/ pages[q].status = "success"
               \/ \E g \in Handlers : pages[q].waits = <<g>> /\ uses'[g].step = "done"
    <3>1. CASE pages[q].link = l
      <4>1. pages[q].doubt \/ pages[q].waits = <<h>> \/ links[l].opened > 1
        BY <3>1, <1>1 DEF PagesInv, OpenedOnce, l
      <4> QED BY <4>1, <3>1, <1>2, <1>4
    <3>2. CASE pages[q].link # l
      <4>1. links'[pages[q].link] = links[pages[q].link]
        BY <3>2, <2>4, <1>4, <1>7
      <4>2. \/ pages[q].doubt \/ links[pages[q].link].opened > 1 \/ pages[q].status = "success"
            \/ \E g \in Handlers : pages[q].waits = <<g>> /\ uses[g].step = "done"
        BY <4>1, <2>4 DEF PagesInv, Told
      <4> QED BY <4>1, <4>2, <1>1, <1>2
    <3> QED BY <3>1, <3>2
  <2> QED BY <1>1, <2>2, <2>3, <2>4 DEF Told
<1> QED BY <1>5, <1>8, <1>9 DEF PagesInv

LEMMA PagesInvStep == MailIInv /\ MailIInv' /\ PagesInv /\ [MailNext]_mailVars => PagesInv'
<1> SUFFICES ASSUME MailIInv, MailIInv', PagesInv, [MailNext]_mailVars PROVE PagesInv'
  OBVIOUS
<1>t. Shapes /\ \A l \in DOMAIN links : links[l] \in Link
  BY Positions0 DEF MailIInv, Shapes
<1>1. ASSUME NEW c \in Clerks, ReadUnused(c) PROVE PagesInv'
  BY <1>1, LinksAside DEF ReadUnused
<1>2. ASSUME NEW c \in Clerks, Draft(c) PROVE PagesInv'
  <2> DEFINE new == [state |-> "drafted", expired |-> FALSE, overlapped |-> FALSE,
                     opened |-> 0, applied |-> 0]
  <2>1. new \in Link /\ new.opened = 0 /\ new.applied = 0
    BY DEF Link
  <2>2. links' = Append(links, new) /\ UNCHANGED <<uses, pages>>
    BY <1>2 DEF Draft
  <2> HIDE DEF new
  <2>3. /\ DOMAIN links' = DOMAIN links \cup {Len(links) + 1}
        /\ links'[Len(links) + 1] = new /\ \A l \in DOMAIN links : links'[l] = links[l]
    BY <1>t, <2>1, <2>2, AppendProperties, LenProperties DEF Shapes
  <2> QED BY <2>1, <2>2, <2>3, LinksAside
<1>3. ASSUME NEW c \in Clerks, CommitIssue(c) \/ RollbackIssue(c) PROVE PagesInv'
  <2> DEFINE others == {d \in Clerks \ {c} : issues[d].step # "idle"}
             beside == issues[c].overlapped \/ others # {}
             fresh(l) == [links[l] EXCEPT !.state = "unused", !.overlapped = beside]
             marked(l) == [links[l] EXCEPT !.state = "used"]
             gone(l) == [links[l] EXCEPT !.state = "gone"]
  <2>1. ASSUME NEW l \in DOMAIN links
        PROVE  /\ fresh(l).opened = links[l].opened /\ fresh(l).applied = links[l].applied
               /\ marked(l).opened = links[l].opened /\ marked(l).applied = links[l].applied
               /\ gone(l).opened = links[l].opened /\ gone(l).applied = links[l].applied
    BY <1>t DEF Link
  <2>2. UNCHANGED <<uses, pages>> /\ DOMAIN links' = DOMAIN links
    BY <1>3 DEF CommitIssue, RollbackIssue
  <2>3. \A l \in DOMAIN links : links'[l] \in {fresh(l), marked(l), gone(l), links[l]}
    BY <1>3 DEF CommitIssue, RollbackIssue
  <2> HIDE DEF fresh, marked, gone
  <2>4. \A l \in DOMAIN links : links'[l].opened = links[l].opened /\ links'[l].applied = links[l].applied
    BY <2>1, <2>3
  <2> QED BY <2>2, <2>4, LinksAside
<1>4. ASSUME NEW l \in DOMAIN links, Expire(l) PROVE PagesInv'
  <2>1. \A m \in DOMAIN links : links'[m].opened = links[m].opened /\ links'[m].applied = links[m].applied
    BY <1>4, <1>t DEF Expire, Link
  <2>2. UNCHANGED <<uses, pages>> /\ DOMAIN links' = DOMAIN links
    BY <1>4 DEF Expire
  <2> QED BY <2>1, <2>2, LinksAside
<1>5. ASSUME NEW l \in DOMAIN links, NEW p \in LinkPages, OpenLink(p, l) PROVE PagesInv'
  <2>1. links' = [links EXCEPT ![l].opened = @ + 1]
    BY <1>5 DEF OpenLink
  <2>2. /\ DOMAIN links' = DOMAIN links
        /\ \A m \in DOMAIN links : /\ links'[m].applied = links[m].applied
                                   /\ links'[m].opened = IF m = l THEN links[m].opened + 1 ELSE links[m].opened
    BY <1>t, <2>1 DEF Link
  <2>l. l \in Nat
    BY Positions0, <1>t DEF Shapes
  <2>3. CASE purpose = "reset"
    <3> DEFINE y == [status |-> "form", link |-> l, waits |-> NobodyWaits, doubt |-> FALSE]
    <3>1. pages' = [pages EXCEPT ![p] = y] /\ uses' = uses
      BY <1>5, <2>3 DEF OpenLink
    <3>2. NobodyWaits \in Seq(Handlers)
      BY EmptySeq DEF NobodyWaits
    <3>3. y \in Page /\ y.link = l /\ y.status = "form" /\ y.waits = NobodyWaits
      BY <2>l, <3>2 DEF Page
    <3> HIDE DEF y
    <3> QED BY <2>2, <3>1, <3>3, PageOpens
  <2>4. CASE purpose # "reset"
    <3>1. PICK h \in Handlers :
            /\ uses[h].step = "idle"
            /\ uses' = [uses EXCEPT ![h] = [step |-> "sent", link |-> l]]
            /\ pages' = [pages EXCEPT ![p] = [status |-> "loading", link |-> l, waits |-> <<h>>, doubt |-> FALSE]]
      BY <1>5, <2>4 DEF OpenLink, Send
    <3> DEFINE y == [status |-> "loading", link |-> l, waits |-> <<h>>, doubt |-> FALSE]
    <3>2. <<h>> \in Seq(Handlers)
      OBVIOUS
    <3>3. y \in Page /\ y.link = l /\ y.status = "loading" /\ y.waits = <<h>>
      BY <2>l, <3>2 DEF Page
    <3>4. pages' = [pages EXCEPT ![p] = y]
      BY <3>1
    <3> HIDE DEF y
    <3> QED BY <2>2, <3>1, <3>3, <3>4, PageOpens
  <2> QED BY <2>3, <2>4
<1>6. ASSUME NEW p \in LinkPages, TryLink(p) PROVE PagesInv'
  <2>1. PICK h \in Handlers :
          /\ uses[h].step = "idle"
          /\ uses' = [uses EXCEPT ![h] = [step |-> "sent", link |-> pages[p].link]]
          /\ pages' = [pages EXCEPT ![p] = [status |-> "loading", link |-> pages[p].link, waits |-> <<h>>,
                                            doubt |-> pages[p].doubt]]
    BY <1>6 DEF TryLink, Send
  <2> QED BY <1>6, <2>1, PageTries
<1>7. ASSUME NEW p \in LinkPages, Answered(p) \/ Unanswered(p) PROVE PagesInv'
  BY <1>7, PageAnswered, PageUnanswered
<1>u. ASSUME NEW h \in Handlers, NEW s \in {"checked", "refused"}, uses[h].step \in {"sent", "checked"},
             uses' = [uses EXCEPT ![h].step = s], UNCHANGED <<links, pages>>
      PROVE  PagesInv'
  <2> DEFINE x == [uses[h] EXCEPT !.step = s]
  <2>1. x \in Use /\ x.step = s /\ x.link = uses[h].link
    BY <1>t DEF Shapes, Use
  <2>2. uses' = [uses EXCEPT ![h] = x]
    BY <1>u
  <2> HIDE DEF x
  <2> QED BY <1>u, <2>1, <2>2, UseAside
<1>8. ASSUME NEW h \in Handlers, Check(h) PROVE PagesInv'
  BY <1>8, <1>u DEF Check
<1>9. ASSUME NEW h \in Handlers, CommitUse(h) PROVE PagesInv'
  <2>1. CASE taken
    BY <1>9, <2>1, <1>u DEF CommitUse
  <2> QED BY <1>9, <2>1, UseDone
<1>10. ASSUME NEW h \in Handlers, RollbackUse(h) PROVE PagesInv'
  BY <1>10, <1>u DEF RollbackUse
<1>11. ASSUME NEW h \in Handlers, Dropped(h) PROVE PagesInv'
  <2> DEFINE x == [step |-> "idle", link |-> NoLink]
  <2>1. x \in Use /\ x.step = "idle"
    BY DEF Use, NoLink
  <2>2. /\ uses' = [uses EXCEPT ![h] = x] /\ UNCHANGED <<links, pages>>
        /\ \A p \in LinkPages : pages[p].waits # <<h>>
    BY <1>11 DEF Dropped
  <2> HIDE DEF x
  <2> QED BY <2>1, <2>2, UseAside
<1>12. CASE TakeAddress \/ UNCHANGED mailVars
  BY <1>12, LinksAside DEF TakeAddress, mailVars
<1> QED
  BY <1>1, <1>2, <1>3, <1>4, <1>5, <1>6, <1>7, <1>8, <1>9, <1>10, <1>11, <1>12 DEF MailNext

(* The types that MailIInv leaves out *)
LEMMA CountedInit == ASSUME MaxTries \in Nat PROVE MailInit => Counted
<1> SUFFICES ASSUME MailInit PROVE Counted
  OBVIOUS
<1>1. links = <<>> /\ verified = FALSE /\ taken = FALSE /\ tries = 0 /\ 0 \in 0..MaxTries
  BY DEF MailInit
<1>2. purpose \in Purposes
  BY DEF MailInit
<1>3. DOMAIN links = {}
  BY <1>1
<1> QED BY <1>1, <1>2, <1>3 DEF Counted

LEMMA CountedStep ==
  ASSUME MaxTries \in Nat
  PROVE  MailIInv /\ Counted /\ [MailNext]_mailVars => Counted'
<1> SUFFICES ASSUME MailIInv, Counted, [MailNext]_mailVars PROVE Counted'
  OBVIOUS
<1>t. Shapes /\ \A l \in DOMAIN links : links[l] \in Link
  BY Positions0 DEF MailIInv, Shapes
<1>k. ASSUME UNCHANGED <<purpose, verified, taken, tries>>,
             \A l \in DOMAIN links' : /\ links'[l].opened <= tries
                                      /\ links'[l].state = "drafted" =>
                                           \E c \in Clerks : issues'[c].step = "drafted" /\ issues'[c].link = l
      PROVE  Counted'
  BY <1>k DEF Counted
<1>l. ASSUME UNCHANGED <<links, issues>>, purpose' = purpose, verified' \in BOOLEAN,
             taken' => purpose = "change", tries' = tries
      PROVE  Counted'
  BY <1>l DEF Counted
<1>1. ASSUME NEW c \in Clerks, ReadUnused(c) PROVE Counted'
  <2>1. \A d \in Clerks : issues[d].step = "drafted" => issues'[d] = issues[d]
    BY <1>1, <1>t DEF ReadUnused, Shapes
  <2>2. UNCHANGED <<purpose, links, verified, taken, tries>>
    BY <1>1 DEF ReadUnused
  <2> QED BY <2>1, <2>2, <1>k DEF Counted
<1>2. ASSUME NEW c \in Clerks, Draft(c) PROVE Counted'
  <2> DEFINE new == [state |-> "drafted", expired |-> FALSE, overlapped |-> FALSE,
                     opened |-> 0, applied |-> 0]
  <2>1. new \in Link /\ new.opened = 0
    BY DEF Link
  <2>2. /\ links' = Append(links, new) /\ issues[c].step = "read"
        /\ issues' = [issues EXCEPT ![c].step = "drafted", ![c].link = Len(links')]
        /\ UNCHANGED <<purpose, verified, taken, tries>>
    BY <1>2 DEF Draft
  <2> HIDE DEF new
  <2>3. /\ DOMAIN links' = DOMAIN links \cup {Len(links) + 1} /\ Len(links') = Len(links) + 1
        /\ links'[Len(links) + 1] = new /\ \A l \in DOMAIN links : links'[l] = links[l]
    BY <1>t, <2>1, <2>2, AppendProperties, LenProperties DEF Shapes
  <2>4. issues'[c].step = "drafted" /\ issues'[c].link = Len(links) + 1
    BY <2>2, <2>3, <1>t DEF Shapes, Issue
  <2>5. \A d \in Clerks : d # c => issues'[d] = issues[d]
    BY <2>2, <1>t DEF Shapes
  <2>6. \A l \in DOMAIN links : /\ links[l].opened <= tries
                                /\ links[l].state = "drafted" =>
                                     \E d \in Clerks : issues[d].step = "drafted" /\ issues[d].link = l
    BY DEF Counted
  <2>7. tries >= 0
    BY DEF Counted
  <2>8. ASSUME NEW l \in DOMAIN links
        PROVE  /\ links'[l].opened <= tries
               /\ links'[l].state = "drafted" =>
                    \E d \in Clerks : issues'[d].step = "drafted" /\ issues'[d].link = l
    <3>1. ASSUME NEW d \in Clerks, issues[d].step = "drafted" PROVE issues'[d] = issues[d]
      BY <3>1, <2>2, <2>5
    <3> QED BY <2>3, <2>6, <3>1
  <2>9. /\ links'[Len(links) + 1].opened <= tries
        /\ \E d \in Clerks : issues'[d].step = "drafted" /\ issues'[d].link = Len(links) + 1
    BY <2>1, <2>3, <2>4, <2>7
  <2>10. ASSUME NEW l \in DOMAIN links'
         PROVE  /\ links'[l].opened <= tries
                /\ links'[l].state = "drafted" =>
                     \E d \in Clerks : issues'[d].step = "drafted" /\ issues'[d].link = l
    BY <2>3, <2>8, <2>9
  <2> QED BY <2>2, <2>10, <1>k
<1>3. ASSUME NEW c \in Clerks, CommitIssue(c) PROVE Counted'
  <2> DEFINE others == {d \in Clerks \ {c} : issues[d].step # "idle"}
             n == issues[c].link
             beside == issues[c].overlapped \/ others # {}
             fresh(l) == [links[l] EXCEPT !.state = "unused", !.overlapped = beside]
             marked(l) == [links[l] EXCEPT !.state = "used"]
  <2>1. /\ issues[c].step = "drafted" /\ UNCHANGED <<purpose, verified, taken, tries>>
        /\ links' = [l \in DOMAIN links |-> CASE l = n -> fresh(l)
                                              [] l \in issues[c].seen -> marked(l)
                                              [] OTHER -> links[l]]
        /\ issues' = [d \in Clerks |-> CASE d = c -> Resting
                                         [] d \in others -> [issues[d] EXCEPT !.overlapped = TRUE]
                                         [] OTHER -> issues[d]]
    BY <1>3 DEF CommitIssue
  <2>2. \A l \in DOMAIN links :
          /\ fresh(l).opened = links[l].opened /\ fresh(l).state = "unused"
          /\ marked(l).opened = links[l].opened /\ marked(l).state = "used"
    BY <1>t DEF Link
  <2> HIDE DEF fresh, marked
  <2>3. /\ DOMAIN links' = DOMAIN links
        /\ \A l \in DOMAIN links : /\ links'[l].opened = links[l].opened
                                   /\ links'[l].state = "drafted" => l # n /\ links'[l] = links[l]
    BY <2>1, <2>2
  <2>4. \A d \in Clerks : d # c => issues'[d].step = issues[d].step /\ issues'[d].link = issues[d].link
    BY <2>1, <1>t DEF Shapes, Issue
  <2> HIDE DEF n
  <2>5. \A l \in DOMAIN links' : links'[l].state = "drafted" =>
          \E d \in Clerks : issues'[d].step = "drafted" /\ issues'[d].link = l
    BY <2>3, <2>4 DEF Counted, n
  <2>6. \A l \in DOMAIN links' : links'[l].opened <= tries
    BY <2>3 DEF Counted
  <2> QED BY <2>1, <2>5, <2>6, <1>k
<1>4. ASSUME NEW c \in Clerks, RollbackIssue(c) PROVE Counted'
  <2>1. /\ UNCHANGED <<purpose, verified, taken, tries>>
        /\ links' = [l \in DOMAIN links |->
                       IF l = issues[c].link THEN [links[l] EXCEPT !.state = "gone"] ELSE links[l]]
        /\ issues' = [issues EXCEPT ![c] = Resting]
    BY <1>4 DEF RollbackIssue
  <2>2. /\ DOMAIN links' = DOMAIN links
        /\ \A l \in DOMAIN links : /\ links'[l].opened = links[l].opened
                                   /\ links'[l].state = "drafted" => l # issues[c].link /\ links'[l] = links[l]
    BY <2>1, <1>t DEF Link
  <2>3. \A d \in Clerks : d # c => issues'[d] = issues[d]
    BY <2>1, <1>t DEF Shapes
  <2> QED BY <2>1, <2>2, <2>3, <1>k DEF Counted
<1>5. ASSUME NEW l \in DOMAIN links, Expire(l) PROVE Counted'
  <2>1. \A m \in DOMAIN links : links'[m].opened = links[m].opened /\ links'[m].state = links[m].state
    BY <1>5, <1>t DEF Expire, Link
  <2>2. DOMAIN links' = DOMAIN links /\ UNCHANGED <<purpose, verified, taken, tries, issues>>
    BY <1>5 DEF Expire
  <2> QED BY <2>1, <2>2, <1>k DEF Counted
<1>6. ASSUME NEW l \in DOMAIN links, NEW p \in LinkPages, OpenLink(p, l) PROVE Counted'
  <2>1. /\ links' = [links EXCEPT ![l].opened = @ + 1] /\ tries < MaxTries /\ tries' = tries + 1
        /\ UNCHANGED <<purpose, verified, taken, issues>>
    BY <1>6 DEF OpenLink
  <2>2. /\ DOMAIN links' = DOMAIN links
        /\ \A m \in DOMAIN links : links'[m].opened <= tries + 1 /\ links'[m].state = links[m].state
    BY <2>1, <1>t DEF Link, Counted
  <2> QED BY <2>1, <2>2 DEF Counted
<1>7. ASSUME NEW p \in LinkPages, TryLink(p) PROVE Counted'
  <2>1. tries < MaxTries /\ tries' = tries + 1 /\ UNCHANGED <<purpose, links, verified, taken, issues>>
    BY <1>7 DEF TryLink
  <2>2. \A m \in DOMAIN links : links[m].opened <= tries + 1
    BY <1>t DEF Link, Counted
  <2> QED BY <2>1, <2>2 DEF Counted
<1>8. ASSUME NEW p \in LinkPages, Answered(p) \/ Unanswered(p) PROVE Counted'
  BY <1>8, <1>l DEF Answered, Unanswered, Counted
<1>9. ASSUME NEW h \in Handlers, Check(h) \/ RollbackUse(h) \/ Dropped(h) PROVE Counted'
  BY <1>9, <1>l DEF Check, RollbackUse, Dropped, Counted
<1>10. ASSUME NEW h \in Handlers, CommitUse(h) PROVE Counted'
  <2>1. CASE taken
    BY <1>10, <2>1, <1>l DEF CommitUse, Counted
  <2>2. CASE ~taken
    <3> DEFINE n == uses[h].link
               x == [links[n] EXCEPT !.state = "used", !.applied = @ + 1]
    <3>1. /\ links' = [links EXCEPT ![n] = x] /\ verified' = (verified \/ purpose = "verification")
          /\ UNCHANGED <<purpose, taken, issues, tries>> /\ uses[h].step = "checked"
      BY <1>10, <2>2 DEF CommitUse
    <3>2. n \in DOMAIN links /\ links[n] \in Link /\ links[n].applied = 0
      BY <3>1, <1>t DEF MailIInv, LocksHold, Unused, Applied
    <3>3. x.state = "used" /\ x.opened = links[n].opened
      BY <3>2, UsedLink
    <3> HIDE DEF x
    <3>4. /\ DOMAIN links' = DOMAIN links
          /\ \A m \in DOMAIN links : /\ links'[m].opened = links[m].opened
                                     /\ links'[m].state = "drafted" => links[m].state = "drafted"
      BY <3>1, <3>2, <3>3
    <3> QED BY <3>1, <3>4 DEF Counted
  <2> QED BY <2>1, <2>2
<1>11. CASE TakeAddress
  BY <1>11, <1>l DEF TakeAddress, Counted
<1>12. CASE UNCHANGED mailVars
  BY <1>12, <1>l DEF mailVars, Counted
<1> QED
  BY <1>1, <1>2, <1>3, <1>4, <1>5, <1>6, <1>7, <1>8, <1>9, <1>10, <1>11, <1>12 DEF MailNext

(* A page that says a link has worked, or not, is right. *)
LEMMA PagesTrue == MailIInv /\ PagesInv => PagesTellTheTruth
<1> SUFFICES ASSUME MailIInv, PagesInv PROVE PagesTellTheTruth
  OBVIOUS
<1>1. ASSUME NEW p \in LinkPages, pages[p].status = "success"
      PROVE  links[pages[p].link].applied > 0
  BY <1>1 DEF PagesInv, Told
<1>2. ASSUME NEW p \in LinkPages, pages[p].status = "error", links[pages[p].link].applied > 0
      PROVE  pages[p].doubt \/ links[pages[p].link].opened > 1
  <2>1. \/ pages[p].doubt \/ links[pages[p].link].opened > 1
        \/ \E h \in Handlers : pages[p].waits = <<h>>
    BY <1>2 DEF PagesInv, Told
  <2>2. pages[p].waits = NobodyWaits
    BY <1>2 DEF PagesInv, Waiting
  <2> QED BY <2>1, <2>2, OneWaits
<1> QED BY <1>1, <1>2 DEF PagesTellTheTruth

(* The invariants say what the runs check. *)
LEMMA MailFacts ==
  ASSUME MaxTries \in Nat
  PROVE  MailIInv /\ PagesInv /\ Counted => LinksWorkOnce /\ PagesTellTheTruth /\ MailTypeOK
<1> SUFFICES ASSUME MailIInv, PagesInv, Counted PROVE LinksWorkOnce /\ PagesTellTheTruth /\ MailTypeOK
  OBVIOUS
<1>1. LinksWorkOnce
  BY DEF MailIInv, Applied, OneWorks, LinksWorkOnce
<1>2. PagesTellTheTruth
  BY PagesTrue
<1>3. MailTypeOK
  <2>1. ASSUME NEW l \in DOMAIN links
        PROVE  /\ links[l].state \in {"drafted", "gone", "unused", "used"}
               /\ (links[l].state = "drafted") <=> (\E c \in Clerks : issues[c].step = "drafted" /\ issues[c].link = l)
               /\ links[l].opened \in 0..MaxTries
    <3>1. links[l].state \in {"drafted", "gone", "unused", "used"} /\ links[l].opened \in Nat
      BY Positions0 DEF MailIInv, Shapes, Link
    <3>2. links[l].opened <= tries /\ tries \in 0..MaxTries
      BY DEF Counted
    <3>3. links[l].state = "drafted" => \E c \in Clerks : issues[c].step = "drafted" /\ issues[c].link = l
      BY DEF Counted
    <3>4. (\E c \in Clerks : issues[c].step = "drafted" /\ issues[c].link = l) => links[l].state = "drafted"
      BY DEF MailIInv, Drafts
    <3>5. links[l].opened \in 0..MaxTries
      BY <3>1, <3>2
    <3> QED BY <3>1, <3>3, <3>4, <3>5
  <2>2. \A p \in LinkPages : (pages[p].status = "loading") <=> (pages[p].waits # NobodyWaits)
    BY DEF PagesInv, Waiting
  <2> QED BY <2>1, <2>2 DEF Counted, MailTypeOK
<1> QED BY <1>1, <1>2, <1>3

-----------------------------------------------------------------------------
(* A mailed link is applied once at most, from wherever and however often  *)
(* it is sent, and two links work together only if requests for them have  *)
(* overlapped.                                                             *)
THEOREM MailedLinksWorkOnce == MailSpec => []LinksWorkOnce
<1>1. MailIInv => LinksWorkOnce
  BY DEF MailIInv, Applied, OneWorks, LinksWorkOnce
<1> QED BY MailIInit, MailIStep, <1>1, PTL DEF MailSpec

(* A page says that its link worked only after the link was applied, and   *)
(* that it failed although it was applied only if an answer was lost or    *)
(* the link was opened again (verify-email-client.tsx, the mutation that   *)
(* runs once, and its onError).                                            *)
THEOREM PagesAreTrue == MailSpec => []PagesTellTheTruth
<1>1. MailIInv /\ PagesInv => PagesTellTheTruth
  BY PagesTrue
<1>2. MailIInv /\ PagesInv /\ [MailNext]_mailVars => MailIInv' /\ PagesInv'
  BY MailIStep, PagesInvStep
<1> QED BY MailIInit, PagesInvInit, <1>1, <1>2, PTL DEF MailSpec

(* The type of all that the requests and pages keep; a link is in draft    *)
(* exactly while a request that has not committed made it.                 *)
THEOREM MailTypeCorrect == ASSUME MaxTries \in Nat PROVE MailSpec => []MailTypeOK
<1>1. MailIInv /\ PagesInv /\ Counted => MailTypeOK
  BY MailFacts
<1>2. MailInit => MailIInv /\ PagesInv /\ Counted
  BY MailIInit, PagesInvInit, CountedInit
<1>3. /\ MailIInv /\ PagesInv /\ Counted /\ [MailNext]_mailVars
      => MailIInv' /\ PagesInv' /\ Counted'
  BY MailIStep, PagesInvStep, CountedStep
<1> QED BY <1>1, <1>2, <1>3, PTL DEF MailSpec
=============================================================================
