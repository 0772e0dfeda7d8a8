--------------------------- MODULE CommentGrants ---------------------------
(***************************************************************************)
(* Saved permissions to comment: the host resolves the target of a waiting *)
(* request at GitHub, looks at it and saves a permission for its guest     *)
(* (src/src/web.rs, src/src/github.rs, src/src/review.rs, src/src/state.rs)*)
(*                                                                         *)
(* One guest, approved and at its address as long as it is registered.     *)
(* The subject of all comments is one GitHub node; what it is - its        *)
(* repository, kind, number and URL - can change while the broker runs,    *)
(* for instance when an issue is transferred.                              *)
(***************************************************************************)
EXTENDS ClineEscrow

CONSTANTS
  Requests,    \* requests of the guest, each served once
  GithubHost,  \* api.github.com
  Targets,     \* identities the node can have
  MaxGrants,   \* permissions of one guest (32)
  MaxStamp,    \* bound on the epochs, revisions and permissions drawn
  MaxLooks     \* bound on the resolutions of one request

ASSUME GrantAssumption ==
  /\ GithubHost \in Hosts
  /\ {MaxGrants, MaxStamp, MaxLooks} \subseteq Nat
  /\ None \notin Targets /\ IsFiniteSet(Requests)
  /\ \A names \in SUBSET Names : names # None
  /\ "page" \notin Requests

VARIABLES
  guest,     \* the guest's record and kill flag, or None
  node,      \* GitHub: what the node is
  review,    \* request -> its waiting review, or None
  ui,        \* the handler of the host's page, or None
  stamp,     \* the next fresh UUID
  early,     \* task -> the sessions it read before they changed, or None
  withdrawn  \* history: the permissions no longer in force, and the removals

grantVars == <<guest, node, review, ui, stamp, withdrawn>>

Fresh == [epoch |-> stamp, revision |-> stamp, grants |-> {}, access |-> "basic",
          killed |-> FALSE]

Draw == stamp < MaxStamp /\ stamp' = stamp + 1

-----------------------------------------------------------------------------
(* Credentials *)

Tasks == Requests \cup {"page"}

SessionsFor(t) == IF early[t] = None THEN Sessions ELSE early[t]

\* Any of the tasks may be between the two reads of real_value when a session
\* comes or goes; it goes on with the sessions there were.
ReadEarly(tasks) ==
  \E some \in SUBSET {t \in tasks : early[t] = None /\ Sessions' # Sessions} :
    early' = [t \in Tasks |-> IF t \in some THEN Sessions ELSE early[t]]

\* The next step of a task ends its call of real_value.
ReadsDone(tasks) == early' = [t \in Tasks |-> IF t \in tasks THEN None ELSE early[t]]

\* Credential::from_entry: what the digest of a binding covers.
Credential(n, loaded) ==
  IF entries[n] # None /\ GithubHost \in entries[n].hosts /\ secrets.key[n] # None
  THEN [entry |-> n, fake |-> entries[n].fake, real |-> RealValue(n, loaded)]
  ELSE None

Current(binding, loaded) == Credential(binding.entry, loaded) = binding

-----------------------------------------------------------------------------
(* Policy of the guest: each change is one update_policy *)

\* A changed authority cancels the guest's waiting reviews.
CancelReviews == review' = [r \in Requests |-> None]

AddGuest ==
  /\ guest = None
  /\ Draw
  /\ guest' = Fresh
  /\ UNCHANGED <<node, review, ui, withdrawn>>

RemoveGuest ==
  /\ guest # None
  /\ guest' = None
  /\ withdrawn' = withdrawn \cup {g.id : g \in guest.grants}
  /\ CancelReviews
  /\ UNCHANGED <<node, ui, stamp>>

SetKilled(killed) ==
  /\ guest # None
  /\ guest.killed # killed
  /\ Draw
  /\ guest' = [guest EXCEPT !.killed = killed, !.epoch = stamp]
  /\ CancelReviews
  /\ UNCHANGED <<node, ui, withdrawn>>

\* Not a change of authority: no epoch is drawn.
SetClineAccess(access) ==
  /\ guest # None
  /\ guest.access # access
  /\ guest' = [guest EXCEPT !.access = access]
  /\ UNCHANGED <<node, review, ui, stamp, withdrawn>>

RevokeCommentPermission(g) ==
  /\ guest # None
  /\ g \in guest.grants
  /\ Draw
  /\ guest' = [guest EXCEPT !.grants = @ \ {g}, !.revision = stamp]
  /\ withdrawn' = withdrawn \cup {g.id}
  /\ UNCHANGED <<node, review, ui>>

-----------------------------------------------------------------------------
(* GitHub *)

Transfer(t) ==
  /\ t # node
  /\ node' = t
  /\ UNCHANGED <<guest, review, ui, stamp, withdrawn>>

-----------------------------------------------------------------------------
(* resolve_github_target *)

\* The guest's revision is read before the lookup.
ResolveStart(r) ==
  /\ ui = None
  /\ review[r] # None
  /\ review[r].binding # None
  /\ review[r].resolution < MaxLooks
  /\ guest # None
  /\ Current(review[r].binding, SessionsFor("page"))
  /\ ui' = [pc |-> "resolving", request |-> r, binding |-> review[r].binding,
            revision |-> guest.revision, withdrawn |-> withdrawn]
  /\ UNCHANGED <<guest, node, review, stamp, withdrawn>>

UiDone == ui' = None

\* Mutant of Resolved: the revision is the one in force after the lookup.
ResolvedLate(r, target) ==
  [review[r] EXCEPT !.target = target, !.resolution = @ + 1,
                    !.revision = IF guest = None THEN @ ELSE guest.revision,
                    !.seen = ui.withdrawn]

\* set_resolved.
Resolved(r, target) ==
  [review[r] EXCEPT !.target = target, !.resolution = @ + 1, !.revision = ui.revision,
                    !.seen = ui.withdrawn]

ResolveEnd ==
  /\ ui # None
  /\ ui.pc = "resolving"
  /\ IF Current(ui.binding, SessionsFor("page")) /\ review[ui.request] # None
       THEN review' = [review EXCEPT ![ui.request] = Resolved(ui.request, node)]
       ELSE UNCHANGED review
  /\ UiDone
  /\ UNCHANGED <<guest, node, stamp, withdrawn>>

-----------------------------------------------------------------------------
(* grant_comment_permission *)

GrantStart(r) ==
  /\ ui = None
  /\ review[r] # None
  /\ review[r].resolution > 0
  /\ Current(review[r].binding, SessionsFor("page"))
  /\ ui' = [pc |-> "granting", request |-> r, binding |-> review[r].binding,
            resolution |-> review[r].resolution, target |-> review[r].target]
  /\ UNCHANGED <<guest, node, review, stamp, withdrawn>>

\* add_comment_permission: the guest's authority and its permissions are those
\* the host's review began with.
Grantable(context) ==
  /\ guest # None
  /\ ~guest.killed
  /\ guest.epoch = context.epoch
  /\ guest.revision = context.revision
  /\ Cardinality(guest.grants) < MaxGrants

\* The node is looked up again; what the host saw must still be true.  The new
\* permission replaces one for the same node, whatever the node then was.
GrantEnd ==
  /\ ui # None
  /\ ui.pc = "granting"
  /\ LET context == review[ui.request]
     IN IF /\ node = ui.target
           /\ Current(ui.binding, SessionsFor("page"))
           /\ context # None
           /\ context.resolution = ui.resolution
           /\ Grantable(context)
        THEN /\ Draw
             /\ guest' = [guest EXCEPT
                  !.revision = stamp,
                  !.grants = {g \in @ : g.binding # context.binding}
                    \cup {[id |-> stamp, target |-> node, binding |-> context.binding,
                           seen |-> context.seen]}]
        ELSE UNCHANGED <<guest, stamp>>
  /\ UiDone
  /\ UNCHANGED <<node, review, withdrawn>>

\* The lookup fails, or the page is closed.
UiFails ==
  /\ ui # None
  /\ UiDone
  /\ UNCHANGED <<guest, node, review, stamp, withdrawn>>

-----------------------------------------------------------------------------
(* A request that may use a permission *)

\* comment_permissions.
PermissionsFor(binding) ==
  IF guest = None THEN {} ELSE {g \in guest.grants : g.binding = binding}

\* Mutant of AdmitComment: the permissions read before the lookup suffice.
AdmitCommentUnlisted(epoch, g, target) ==
  guest # None /\ ~guest.killed /\ guest.epoch = epoch /\ g.target = target

\* admit_comment, atomic with every change of policy.
AdmitComment(epoch, g, target) ==
  /\ guest # None
  /\ ~guest.killed
  /\ guest.epoch = epoch
  /\ g \in guest.grants
  /\ g.target = target

GrantInit ==
  /\ stamp = 2
  /\ guest = [epoch |-> 1, revision |-> 1, grants |-> {}, access |-> "basic", killed |-> FALSE]
  /\ node \in Targets
  /\ review = [r \in Requests |-> None]
  /\ ui = None
  /\ early = [t \in Tasks |-> None]
  /\ withdrawn = {}

\* Coming back is not counted as an act.
ReturnStep == AddGuest \/ SetKilled(FALSE)

PolicyStep ==
  \/ RemoveGuest \/ SetKilled(TRUE)
  \/ \E access \in {"basic", "full"} : SetClineAccess(access)
  \/ guest # None /\ \E g \in guest.grants : RevokeCommentPermission(g)

PageStep ==
  \/ \E r \in Requests : ResolveStart(r) \/ GrantStart(r)
  \/ ResolveEnd \/ GrantEnd \/ UiFails

\* The page has a target to resolve or to grant, or is at it.
PageTasks == IF ui # None \/ \E r \in Requests : review[r] # None THEN {"page"} ELSE {}

GrantStep ==
  \/ Act /\ (PolicyStep \/ \E t \in Targets : Transfer(t)) /\ UNCHANGED early
  \/ ReturnStep /\ UNCHANGED <<acts, early>>
  \/ PageStep /\ ReadsDone({"page"}) /\ UNCHANGED acts

-----------------------------------------------------------------------------
(* Properties *)

(***************************************************************************)
(* A permission is saved only from a look at the target that began after   *)
(* the last withdrawal of a permission of that guest: a grant from a page  *)
(* opened before cannot revive what was revoked (add_comment_permission,   *)
(* resolve_github_target).                                                 *)
(***************************************************************************)
GrantsAreFresh ==
  [][\A g \in IF guest' = None THEN {} ELSE guest'.grants :
       (guest = None \/ g \notin guest.grants) => g.seen = withdrawn]_<<guest, withdrawn>>
=============================================================================
