----------------------------- MODULE MCWorkspace -----------------------------
(* Small instances of Organizations and Invitations for TLC: users, requests *)
(* and handlers are interchangeable.  A behaviour is about the membership    *)
(* requests alone, all users and requests taking part, or about invitations  *)
(* with one membership request at a time among two users.                    *)
EXTENDS Invitations, TLC

VARIABLES
  overlapped,   \* history: two membership requests have been in flight together
  cast          \* the users of this behaviour

workspaceVars == <<allVars, overlapped, cast>>

WorkspaceSymmetry ==
  Permutations(Users) \cup Permutations(Requests) \cup Permutations(Handlers)

MembersOnly == cast = Users
Pairs == {S \in SUBSET Users : Cardinality(S) = 2}

Overlap == \E q, r \in Requests : q # r /\ req[q] # Idle /\ req[r] # Idle

(* Two owners whose overlapping requests removed and demoted each other    *)
(* leave one admin and no owner (run orgs_last_owner_race reaches it).     *)
OrphanedInit ==
  /\ NoInvitations
  /\ org = "active"
  /\ \E u \in cast : member = [v \in Users |-> IF v = u THEN 2 ELSE None]
  /\ role = [w \in Rows |-> IF w = 2 THEN "admin" ELSE "viewer"]
  /\ nextRow = 3
  /\ req = [r \in Requests |-> Idle]

WorkspaceInit ==
  /\ cast \in Pairs \cup {Users}
  /\ \/ InvInit /\ overlapped = FALSE
     \/ ~MembersOnly /\ OrphanedInit /\ overlapped = TRUE

(* The users that requests in flight are about to make members or invite *)
Named == {req[r].target : r \in {q \in Requests : req[q].pc = "adding"}}
           \cup {hnd[h].user : h \in {k \in Handlers : hnd[k].pc = "inserting"}}

Fits ==
  /\ ~Overlap
  /\ Named \subseteq cast
  /\ \A u \in Users \ cast : member[u] = None

WorkspaceNext ==
  /\ UNCHANGED cast
  /\ \/ MembersOnly /\ OrgNext /\ UNCHANGED invVars
     \/ ~MembersOnly /\ Next /\ Fits'
  /\ overlapped' = (overlapped \/ Overlap')

WorkspaceSpec == WorkspaceInit /\ [][WorkspaceNext]_workspaceVars

(* Owner protection (organization_service.py update_member, remove_member) *)
(* holds as long as no two membership requests have overlapped.            *)
OwnerRemainsAlone == overlapped \/ OwnerRemains
=============================================================================
