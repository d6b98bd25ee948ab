--------------------------- MODULE GroupMembership ---------------------------
(***************************************************************************)
(* Joining a group by request or by invitation (GroupMembershipRequest).   *)
(* Accepting shares the group at VIEW on behalf of an owner, through the   *)
(* same share_group_with_user as everything in GroupSharing, so that every *)
(* step here is a step of GroupSharing or leaves the group alone.          *)
(***************************************************************************)
EXTENDS GroupSharing

CONSTANT MaxRequests   \* how many membership requests a behaviour may hold

ASSUME MaxRequestsAssumption == MaxRequests \in Nat

VARIABLES
    autoApprove,   \* GroupAccess.auto_approve
    requests       \* the GroupMembershipRequest objects, oldest first

mvars == <<vars, autoApprove, requests>>

(* invitee is NoUser in a user's own request to join. *)
MembershipRequest ==
    [from : User, invitee : User \cup {NoUser}, redeemed : BOOLEAN]

MembershipTypeOK ==
    /\ autoApprove \in BOOLEAN
    /\ requests \in Seq(MembershipRequest)

IsInvitation(r) == r.invitee # NoUser

Joiner(r) == IF IsInvitation(r) THEN r.invitee ELSE r.from

-----------------------------------------------------------------------------
(* The two duplicate checks.  The first also matches invitations a has sent. *)
HasPendingRequest(a) ==
    \E i \in DOMAIN requests : requests[i].from = a /\ ~requests[i].redeemed

(* Mutant: looks for the sender of the invitation in place of its target. *)
HasSentRequest(u) ==
    \E i \in DOMAIN requests : requests[i].from = u /\ ~requests[i].redeemed

HasPendingInvitation(u) ==
    \E i \in DOMAIN requests : requests[i].invitee = u /\ ~requests[i].redeemed

NewRequest(a, u, redeemed) ==
    /\ Len(requests) < MaxRequests
    /\ requests' = Append(requests, [from |-> a, invitee |-> u, redeemed |-> redeemed])
    /\ UNCHANGED autoApprove

MayAskToJoin(a) ==
    /\ stage = "live"
    /\ isActive[a] /\ active
    /\ a \notin Members
    /\ ~HasPendingRequest(a)

RequestToJoin(a) ==
    /\ MayAskToJoin(a)
    /\ ~autoApprove
    /\ NewRequest(a, NoUser, FALSE)
    /\ UNCHANGED vars

(* Approved on the spot by the owner of longest standing (any, here). *)
JoinAutoApproved(a) ==
    /\ MayAskToJoin(a)
    /\ autoApprove
    /\ \E o \in Owners : ShareGroupWithUser(o, a, VIEW)
    /\ NewRequest(a, NoUser, TRUE)

(* With no active owner to approve it the view fails, after the request was *)
(* created.                                                                 *)
JoinWithoutApprover(a) ==
    /\ MayAskToJoin(a)
    /\ autoApprove
    /\ Owners = {}
    /\ NewRequest(a, NoUser, FALSE)
    /\ UNCHANGED vars

InviteUser(a, u) ==
    /\ stage = "live"
    /\ isActive[a] /\ isActive[u] /\ active
    /\ u \notin Members
    /\ OwnsGroup(a) \/ a \in Superuser
    /\ ~HasPendingInvitation(u)
    /\ NewRequest(a, u, FALSE)
    /\ UNCHANGED vars

-----------------------------------------------------------------------------
(* Acting on a request: on whose behalf is membership granted?  NoUser when  *)
(* the request is only marked as redeemed.                                   *)
GrantorsFor(a, r, accept) ==
    IF IsInvitation(r)
      THEN IF r.invitee = a THEN {r.from}
           ELSE IF OwnsGroup(a) \/ a \in Superuser THEN {NoUser}
           ELSE {}
      ELSE IF OwnsGroup(a) \/ a \in Superuser THEN {a}
           ELSE IF a = r.from /\ ~accept THEN {NoUser}
           ELSE {}

(* Mutant: membership is granted past the sharing rules. *)
ActUnchecked(a, i, accept) ==
    /\ stage = "live"
    /\ isActive[a] /\ isActive[Joiner(requests[i])] /\ active
    /\ \E g \in GrantorsFor(a, requests[i], accept) \ {NoUser} :
         Grant(Joiner(requests[i]), VIEW, g)
    /\ requests' = [requests EXCEPT ![i].redeemed = TRUE]
    /\ UNCHANGED <<flags, autoApprove>>

(* Whether the request was redeemed before is not asked. *)
ActOnRequest(a, i, accept) ==
    /\ stage = "live"
    /\ isActive[a] /\ isActive[Joiner(requests[i])] /\ active
    /\ \E g \in GrantorsFor(a, requests[i], accept) :
         IF accept /\ g # NoUser
           THEN ShareGroupWithUser(g, Joiner(requests[i]), VIEW)
           ELSE UNCHANGED vars
    /\ requests' = [requests EXCEPT ![i].redeemed = TRUE]
    /\ UNCHANGED autoApprove

SetAutoApprove(a, value) ==
    /\ stage = "live"
    /\ CanChangeGroupFlags(a)
    /\ autoApprove' = value
    /\ UNCHANGED <<vars, requests>>

(* What GroupSharing does; deleting the group takes its requests with it. *)
SharingStep ==
    /\ Next
    /\ requests' = IF stage' = "deleted" THEN <<>> ELSE requests
    /\ UNCHANGED autoApprove

MembershipInit ==
    /\ Init
    /\ autoApprove \in BOOLEAN
    /\ requests = <<>>

(* a makes a request or an invitation, or acts on one. *)
RequestStep(a) ==
    \/ RequestToJoin(a)
    \/ JoinAutoApproved(a)
    \/ JoinWithoutApprover(a)
    \/ \E u \in User : InviteUser(a, u)
    \/ \E i \in DOMAIN requests, accept \in BOOLEAN : ActOnRequest(a, i, accept)

MembershipNext ==
    \/ \E a \in User : RequestStep(a) \/ \E value \in BOOLEAN : SetAutoApprove(a, value)
    \/ SharingStep

MembershipSpec == MembershipInit /\ [][MembershipNext]_mvars

-----------------------------------------------------------------------------
(* Requests and invitations move roles only as group sharing allows: the     *)
(* rules about owners, authority and undo hold of groups that people join.   *)
ImplementsGroupSharing == Spec

(* Nobody waits twice: at most one pending request by a user, and one        *)
(* pending invitation to a user, through cancelling, accepting, leaving and  *)
(* asking again.                                                             *)
OnePending ==
    \A i, j \in DOMAIN requests :
        (i # j /\ ~requests[i].redeemed /\ ~requests[j].redeemed) =>
            /\ IsInvitation(requests[i]) \/ IsInvitation(requests[j])
                 \/ requests[i].from # requests[j].from
            /\ IsInvitation(requests[i]) => requests[i].invitee # requests[j].invitee

(* Whenever a request or an invitation is made or acted on, for the first    *)
(* time or again, a role that moves becomes VIEW, and the grantor is somebody *)
(* in the group until then, or an administrator: an invitation from someone   *)
(* who has left gives nothing, however often it is accepted.                 *)
JoinsAtView ==
    [][\A a, u \in User :
         (RequestStep(a) /\ row'[u] # row[u]) =>
            /\ row'[u].privilege = VIEW
            /\ row'[u].grantor \in Superuser \/ row[row'[u].grantor].privilege <= VIEW]_mvars
=============================================================================
