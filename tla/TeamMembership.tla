---------------------------- MODULE TeamMembership ----------------------------
(***************************************************************************)
(* The members of a team, its invitations and its closing (apps/teams),    *)
(* with the closing of accounts (apps/users).  Requests check first and    *)
(* write later, without a lock; only the closing of the team locks its row. *)
(***************************************************************************)
EXTENDS Naturals, FiniteSets

CONSTANTS
    User, Founder,  \* Founder created the team
    Invite,
    TeamRequest,    \* requests under way at once
    MaxJoins        \* bound on memberships

ASSUME TeamAssumption == Founder \in User /\ MaxJoins \in Nat \ {0}

VARIABLES
    member,      \* Membership: a role and the row's id, 0 when there is none
    joins,       \* ids given so far
    account,     \* CustomUser: none, open or closed
    invite,      \* Invitation
    teamOpen,    \* Team.status = "active"
    teamRequest  \* what each request does, what it read, and whether it was overtaken

teamVars == <<member, joins, account, invite, teamOpen, teamRequest>>

\* manager, operator and viewer may not manage the team.
Role == {"owner", "admin", "member"}
Managing == {"owner", "admin"}
NoMember == [role |-> "member", id |-> 0]
NoInvite == [state |-> "none", email |-> Founder, role |-> "member"]
Idle == [op |-> "idle", actor |-> Founder, target |-> Founder, row |-> NoMember, inv |-> "none", overtaken |-> FALSE]

TeamTypeOK ==
    /\ member \in [User -> [role : Role, id : 0 .. MaxJoins]] /\ joins \in 0 .. MaxJoins
    /\ account \in [User -> {"none", "open", "closed"}]
    /\ invite \in [Invite -> [state : {"none", "pending", "accepted"}, email : User, role : Role]]
    /\ teamOpen \in BOOLEAN

TeamInit ==
    /\ member = [u \in User |-> IF u = Founder THEN [role |-> "owner", id |-> 1] ELSE NoMember]
    /\ joins = 1
    /\ account = [u \in User |-> IF u = Founder THEN "open" ELSE "none"]
    /\ invite = [i \in Invite |-> NoInvite]
    /\ teamOpen = TRUE
    /\ teamRequest = [q \in TeamRequest |-> Idle]

-----------------------------------------------------------------------------
Managers == {u \in User : member[u].id # 0 /\ member[u].role \in Managing}
Owners == {u \in User : member[u].id # 0 /\ member[u].role = "owner"}
IsMember(u) == teamOpen /\ member[u].id # 0
CanManage(u) == teamOpen /\ u \in Managers
SignedIn(u) == account[u] = "open"

Begins(q, op, actor, target, row, inv) ==
    /\ teamRequest[q].op = "idle"
    /\ teamRequest' = [teamRequest EXCEPT ![q] = [op |-> op, actor |-> actor, target |-> target, row |-> row, inv |-> inv, overtaken |-> FALSE]]

\* q is answered; what the others have read is out of date when q wrote.
Ends(q, wrote) ==
    teamRequest' = [r \in TeamRequest |-> IF r = q THEN Idle
                                      ELSE IF wrote /\ teamRequest[r].op # "idle" THEN [teamRequest[r] EXCEPT !.overtaken = TRUE]
                                      ELSE teamRequest[r]]
Doing(q, op) == teamRequest[q].op = op

(* team_membership_details: one's own phone number, or another's role; the  *)
(* row is saved whole, and inserted again when it was deleted.             *)
AsPosted(row, self, role) == [row EXCEPT !.role = role]   \* mutated form
EditedRow(row, self, role) == IF self THEN row ELSE [row EXCEPT !.role = role]

ReadsMember(q) ==
    \E actor, target \in User, role \in Role :
        /\ SignedIn(actor) /\ IsMember(actor) /\ member[target].id # 0
        /\ actor # target => CanManage(actor)
        /\ Begins(q, "edit", actor, target, EditedRow(member[target], actor = target, role), "none")
        /\ UNCHANGED <<member, joins, account, invite, teamOpen>>

SavesMember(q) ==
    LET target == teamRequest[q].target IN
    /\ Doing(q, "edit")
    /\ IF member[target].id \in {0, teamRequest[q].row.id}
       THEN member' = [member EXCEPT ![target] = teamRequest[q].row] /\ Ends(q, TRUE)
       ELSE UNCHANGED member /\ Ends(q, FALSE)        \* unique (team, user)
    /\ UNCHANGED <<joins, account, invite, teamOpen>>

(* remove_team_membership: oneself or another, but not the only             *)
(* administrator.                                                          *)
OnlyMember(target) == Cardinality({u \in User : member[u].id # 0}) = 1   \* mutated form
OnlyManager(target) == member[target].role \in Managing /\ Cardinality(Managers) = 1

ChecksRemoval(q) ==
    \E actor, target \in User :
        /\ SignedIn(actor) /\ IsMember(actor) /\ member[target].id # 0
        /\ actor # target => CanManage(actor)
        /\ ~OnlyManager(target)
        /\ Begins(q, "remove", actor, target, member[target], "none")
        /\ UNCHANGED <<member, joins, account, invite, teamOpen>>

Removes(q) ==
    LET target == teamRequest[q].target IN
    /\ Doing(q, "remove")
    /\ member' = IF member[target].id = teamRequest[q].row.id THEN [member EXCEPT ![target] = NoMember] ELSE member
    /\ Ends(q, TRUE)
    /\ UNCHANGED <<joins, account, invite, teamOpen>>

-----------------------------------------------------------------------------
(* InvitationForm and InvitationViewSet.perform_create.                     *)
ChecksInvitation(q) ==
    \E actor, email \in User, i \in Invite, role \in Role :
        /\ SignedIn(actor) /\ CanManage(actor)
        /\ invite[i].state = "none"
        /\ \A j \in Invite : ~(invite[j].state = "pending" /\ invite[j].email = email)
        /\ Begins(q, "invite", actor, email, [role |-> role, id |-> 0], i)
        /\ UNCHANGED <<member, joins, account, invite, teamOpen>>

Invites(q) ==
    /\ Doing(q, "invite") /\ invite[teamRequest[q].inv].state = "none"
    /\ invite' = [invite EXCEPT ![teamRequest[q].inv] =
                    [state |-> "pending", email |-> teamRequest[q].target, role |-> teamRequest[q].row.role]]
    /\ Ends(q, TRUE)
    /\ UNCHANGED <<member, joins, account, teamOpen>>

CancelsInvitation ==
    \E u \in User, i \in Invite :
        /\ SignedIn(u) /\ CanManage(u) /\ invite[i].state # "none"
        /\ invite' = [invite EXCEPT ![i] = NoInvite]
        /\ UNCHANGED <<member, joins, account, teamOpen, teamRequest>>

\* accept_invitation's answer, by whoever has the link.
ChecksAcceptance(q) ==
    \E u \in User, i \in Invite :
        /\ SignedIn(u) /\ teamOpen /\ ~IsMember(u) /\ invite[i].state = "pending"
        /\ Begins(q, "join", u, u, [role |-> invite[i].role, id |-> 0], i)
        /\ UNCHANGED <<member, joins, account, invite, teamOpen>>

(* Signing up: the form checks the invitation it names; the signal takes    *)
(* the one the session remembers from an earlier visit, whatever became of  *)
(* it since.                                                               *)
SignsUp(q) ==
    \E u \in User :
        /\ account[u] = "none"
        /\ account' = [account EXCEPT ![u] = "open"]
        /\ \/ \E i \in Invite : /\ invite[i].state # "none"
                              /\ Begins(q, "join", u, u, [role |-> invite[i].role, id |-> 0], i)
           \/ UNCHANGED teamRequest       \* a team of their own, or an open invitation
        /\ UNCHANGED <<member, joins, invite, teamOpen>>

(* process_invitation: the member, unless they are one, ...                 *)
Joins(q) ==
    LET u == teamRequest[q].actor IN
    /\ Doing(q, "join") /\ joins < MaxJoins
    /\ IF member[u].id = 0
       THEN /\ joins' = joins + 1
            /\ member' = [member EXCEPT ![u] = [role |-> teamRequest[q].row.role, id |-> joins + 1]]
       ELSE UNCHANGED <<joins, member>>
    /\ teamRequest' = [teamRequest EXCEPT ![q].op = "joined"]
    /\ UNCHANGED <<account, invite, teamOpen>>

\* ... then the invitation, saved whole and inserted again when it was cancelled.
UsesInvitation(q) ==
    /\ Doing(q, "joined")
    /\ invite' = [invite EXCEPT ![teamRequest[q].inv] = [@ EXCEPT !.state = "accepted", !.role = teamRequest[q].row.role]]
    /\ Ends(q, TRUE)
    /\ UNCHANGED <<member, joins, account, teamOpen>>

-----------------------------------------------------------------------------
(* close_team: an owner, unless a subscription is active; then, under the row's lock *)
(* and once, the closing with every pending invitation.                    *)
ChecksClosing(q) ==
    \E u \in User :
        /\ SignedIn(u) /\ teamOpen /\ u \in Owners
        /\ Begins(q, "closeTeam", u, u, member[u], "none")
        /\ UNCHANGED <<member, joins, account, invite, teamOpen>>

ClosesTeam(q) ==
    /\ Doing(q, "closeTeam")
    /\ teamOpen' = FALSE
    /\ invite' = [i \in Invite |-> IF teamOpen /\ invite[i].state = "pending"
                                   THEN [invite[i] EXCEPT !.state = "accepted"] ELSE invite[i]]
    /\ Ends(q, TRUE)
    /\ UNCHANGED <<member, joins, account>>

(* close_user_account: not the sole owner of an open team; the memberships  *)
(* stay, and count as owners later.                                        *)
ChecksAccount(q) ==
    \E u \in User :
        /\ SignedIn(u) /\ ~(teamOpen /\ Owners = {u})
        /\ Begins(q, "closeAccount", u, u, member[u], "none")
        /\ UNCHANGED <<member, joins, account, invite, teamOpen>>

ClosesAccount(q) ==
    /\ Doing(q, "closeAccount")
    /\ account' = [account EXCEPT ![teamRequest[q].actor] = "closed"]
    /\ Ends(q, TRUE)
    /\ UNCHANGED <<member, joins, invite, teamOpen>>

TeamNext ==
    \/ \E q \in TeamRequest :
         \/ ReadsMember(q) \/ SavesMember(q) \/ ChecksRemoval(q) \/ Removes(q)
         \/ ChecksInvitation(q) \/ Invites(q) \/ ChecksAcceptance(q) \/ SignsUp(q) \/ Joins(q) \/ UsesInvitation(q)
         \/ ChecksClosing(q) \/ ClosesTeam(q) \/ ChecksAccount(q) \/ ClosesAccount(q)
    \/ CancelsInvitation

TeamSpec == TeamInit /\ [][TeamNext]_teamVars

-----------------------------------------------------------------------------
(* "You cannot remove the only administrator from a team.": members, roles  *)
(* and invitations change in any order, and the last administrator is lost, *)
(* or a role changed by its own holder, only by a request that another     *)
(* request's write overtook between its check and its own write.           *)
OnlyRacesOrphanTeams ==
    [][\A q \in TeamRequest : teamRequest[q].op \in {"edit", "remove"} /\ teamRequest'[q].op = "idle" /\ ~teamRequest[q].overtaken
         => /\ Managers # {} => Managers' # {}
            /\ teamRequest[q].actor = teamRequest[q].target /\ teamRequest[q].op = "edit" => member' = member]_teamVars

(* "Transfer ownership or close these teams before closing your account":   *)
(* an open team has an owner whose account is open.                        *)
(* The code does not keep this: README.md, "Known divergences".            *)
OpenTeamsHaveOpenOwners == teamOpen => \E u \in Owners : account[u] = "open"
=============================================================================
