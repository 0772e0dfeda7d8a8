---------------------------- MODULE ProxyRequest ----------------------------
(***************************************************************************)
(* A guest's HTTP request in the proxy (handle_from_peer_traced in         *)
(* src/src/proxy.rs): the gates, the wait for a review or the use of a     *)
(* saved permission, the substitution of the real credential, and the      *)
(* accounting of what is under way to an upstream.                         *)
(*                                                                         *)
(* The handler awaits only in await_review.  Between two awaits other      *)
(* threads still run, so the gate and the substitution are two steps, and  *)
(* real_value reads the session and the value apart (CommentGrants).       *)
(* The queue itself is ReviewQueue; the pure decisions are RequestPolicy.  *)
(***************************************************************************)
EXTENDS CommentGrants

CONSTANTS
  Calls  \* the hosts requests are for, each with what is asked of it

VARIABLES
  request,  \* request -> its handler
  active,   \* host -> ACTIVE_BY_HOST; ACTIVE_UPSTREAM is the sum
  moved     \* history: requests since whose gate the entry they present changed

proxyVars == <<request, active, moved>>
vars == <<escrowVars, grantVars, early, proxyVars>>

\* What a request asks for: API keys of Cline, something basic access covers,
\* another operation, or an addComment.
Ops == {"keys", "read", "write", "comment"}

ASSUME CallAssumption == Calls \subseteq Hosts \X Ops

Idle == [pc |-> "idle"]
Done == [pc |-> "done"]

Unstarted == [owners |-> {}, finished |-> TRUE]

In(pcs) == {r \in Requests : request[r].pc \in pcs}
Go(r, pc) == request' = [request EXCEPT ![r].pc = pc]
End(r) == request' = [request EXCEPT ![r] = Done]

\* The policed host asks for a review of what is not a read.
RequiresReview(host, op) == host = GithubHost /\ op # "read"

\* cline_verdict; API keys are never available, and basic access is a list.
ClineAllows(host, op, access) ==
  \/ host # ClineHost /\ ~IsClineCredentialHost(host)
  \/ op # "keys" /\ (access = "full" \/ op = "read")

\* The entry whose fake the request presents, if it still exists.
Matched(fake) == {n \in Names : entries[n] # None /\ entries[n].fake = fake}

Presented(fake) == CHOOSE n \in Matched(fake) : TRUE

\* substitute: leave the request alone, replace the header, or block.
Substitution(host, fake) ==
  IF Matched(fake) = {} THEN "none"
  ELSE LET n == Presented(fake)
       IN IF host \in entries[n].hosts /\ secrets.key[n] # None THEN "replace" ELSE "block"

-----------------------------------------------------------------------------
(* The gates *)

\* A request arrives with the fake of an entry or with none.
Gate(r, host, op, fake) ==
  /\ request[r] = Idle
  /\ LET refused == guest = None \/ guest.killed
         allowed == ~refused /\ ClineAllows(host, op, guest.access)
         pc == IF RequiresReview(host, op) THEN "review" ELSE "substitute"
     IN IF ~allowed THEN End(r)
        ELSE request' = [request EXCEPT ![r] =
               [pc |-> pc, host |-> host, op |-> op, fake |-> fake, epoch |-> None,
                access |-> guest.access, binding |-> None, grants |-> {}, used |-> None,
                value |-> None, account |-> FALSE, life |-> Unstarted]]
  /\ UNCHANGED active

-----------------------------------------------------------------------------
(* await_review *)

\* The guest's epoch is read; a credential that cannot be used ends it here.
CaptureEpoch(r) ==
  /\ request[r].pc = "review"
  /\ LET ok == /\ guest # None
               /\ ~guest.killed
               /\ Substitution(request[r].host, request[r].fake) # "block"
     IN IF ok THEN request' = [request EXCEPT ![r].pc = "collect", ![r].epoch = guest.epoch]
        ELSE End(r)
  /\ UNCHANGED <<grantVars, active>>

\* enqueue_review, which takes only a request whose guest is still entitled.
Enqueued(r, binding) ==
  IF guest = None \/ guest.killed \/ guest.epoch # request[r].epoch THEN None
  ELSE [binding |-> binding, epoch |-> request[r].epoch, revision |-> guest.revision,
        target |-> None, resolution |-> 0, seen |-> {}]

Enqueue(r, binding) ==
  /\ review' = [review EXCEPT ![r] = Enqueued(r, binding)]
  /\ IF Enqueued(r, binding) = None THEN End(r)
     ELSE request' = [request EXCEPT ![r].pc = "waiting", ![r].grants = {}, ![r].binding = None]
  /\ UNCHANGED <<guest, node, ui, stamp, withdrawn, active>>

\* comment_credential.
CommentCredential(r) ==
  IF request[r].op # "comment" \/ Matched(request[r].fake) = {} THEN None
  ELSE Credential(Presented(request[r].fake), SessionsFor(r))

\* The body is in.  A comment for which there are permissions looks up its
\* target; any other request is queued, a comment with its context.
Collected(r) ==
  /\ request[r].pc = "collect"
  /\ LET binding == CommentCredential(r)
         grants == IF binding = None THEN {} ELSE PermissionsFor(binding)
     IN IF grants # {}
        THEN /\ request' = [request EXCEPT ![r].pc = "lookup", ![r].binding = binding,
                                           ![r].grants = grants]
             /\ UNCHANGED <<grantVars, active>>
        ELSE Enqueue(r, binding)

\* The lookup of the target; the request is rebuilt with the credential it was
\* made with, and admitted under the permission, or queued after all.
LookedUp(r, found) ==
  /\ request[r].pc = "lookup"
  /\ LET q == request[r]
         using == {g \in q.grants : g.target = node}
         current == Current(q.binding, SessionsFor(r))
     IN \/ /\ found
           /\ current
           /\ \E g \in using :
                /\ AdmitComment(q.epoch, g, node)
                /\ request' = [request EXCEPT ![r].pc = "substitute", ![r].used = g,
                                 ![r].value = q.binding.real, ![r].fake = None]
           /\ UNCHANGED <<grantVars, active>>
        \/ /\ ~found \/ ~current \/ \A g \in using : ~AdmitComment(q.epoch, g, node)
           /\ Enqueue(r, q.binding)

\* The host decides, or the review expires or was cancelled.
Decided(r, approved) ==
  /\ request[r].pc = "waiting"
  /\ approved => review[r] # None
  /\ review' = [review EXCEPT ![r] = None]
  /\ IF approved THEN Go(r, "admit") ELSE End(r)
  /\ UNCHANGED <<guest, node, ui, stamp, withdrawn, active>>

\* admit_review.
AdmitReview(r) ==
  /\ request[r].pc = "admit"
  /\ IF guest # None /\ ~guest.killed /\ guest.epoch = request[r].epoch
     THEN Go(r, "substitute") ELSE End(r)
  /\ UNCHANGED <<grantVars, active>>

-----------------------------------------------------------------------------
(* Substitution and the upstream *)

\* The lifecycle is counted when it starts.  It is owned by the handler and,
\* while the body is not sent, by the body.
Started(body) == [owners |-> {"handler"} \cup IF body THEN {"body"} ELSE {}, finished |-> FALSE]

Substitute(r, body) ==
  /\ request[r].pc = "substitute"
  /\ LET q == request[r]
         how == Substitution(q.host, q.fake)
         n == Presented(q.fake)
     IN IF how = "block" THEN End(r) /\ UNCHANGED active
        ELSE /\ request' = [request EXCEPT
                  ![r].pc = "forwarded", ![r].fake = None, ![r].epoch = None,
                  ![r].binding = None, ![r].grants = {},
                  ![r].value = IF how = "replace" THEN RealValue(n, SessionsFor(r)) ELSE @,
                  ![r].account = IF how = "replace" THEN IsClineAccount(n) ELSE FALSE,
                  ![r].life = Started(body)]
             /\ active' = [active EXCEPT ![q.host] = @ + 1]
  /\ UNCHANGED grantVars

\* Mutant of Finish: every path that ends a lifecycle counts it down.
FinishAgain(r, owners, ends) ==
  /\ IF owners = {} THEN End(r)
     ELSE request' = [request EXCEPT ![r].life = [owners |-> owners, finished |-> ends]]
  /\ active' = IF ends \/ owners = {}
               THEN [active EXCEPT ![request[r].host] = IF @ = 0 THEN 0 ELSE @ - 1] ELSE active

\* UpstreamLifecycle::finish and its drop with the last owner: counted once.
Finish(r, owners, ends) ==
  LET life == request[r].life
      now == life.finished \/ ends \/ owners = {}
  IN /\ IF owners = {} THEN End(r)
        ELSE request' = [request EXCEPT ![r].life = [owners |-> owners, finished |-> now]]
     /\ active' = IF now /\ ~life.finished
                  THEN [active EXCEPT ![request[r].host] = IF @ = 0 THEN 0 ELSE @ - 1]
                  ELSE active

Owners(r) == IF request[r].pc = "forwarded" THEN request[r].life.owners ELSE {}

\* The request's body is sent, or dropped.
BodySent(r) ==
  /\ "body" \in Owners(r)
  /\ Finish(r, Owners(r) \ {"body"}, FALSE)
  /\ UNCHANGED grantVars

\* handle_response: the response takes the lifecycle over from the handler.
HandleResponse(r) ==
  /\ "handler" \in Owners(r)
  /\ Finish(r, (Owners(r) \ {"handler"}) \cup {"response"}, FALSE)
  /\ UNCHANGED grantVars

\* handle_error ends it; the handler of a closed connection is just dropped.
HandlerEnds(r, error) ==
  /\ "handler" \in Owners(r)
  /\ Finish(r, Owners(r) \ {"handler"}, error)
  /\ UNCHANGED grantVars

\* The last frame of the response, an error in it, or its drop ends it; the
\* body object may live on until it is dropped.
ResponseEnds(r, dropped) ==
  /\ "response" \in Owners(r)
  /\ Finish(r, IF dropped THEN Owners(r) \ {"response"} ELSE Owners(r), TRUE)
  /\ UNCHANGED grantVars

\* The connection of a request that was not forwarded is closed; the guards
\* of await_review take its review back.
HandlerDropped(r) ==
  /\ request[r].pc \in {"review", "collect", "lookup", "waiting", "admit", "substitute"}
  /\ review' = [review EXCEPT ![r] = None]
  /\ End(r)
  /\ UNCHANGED <<guest, node, ui, stamp, withdrawn, active>>

-----------------------------------------------------------------------------
(* The specification *)

\* A start loads the guest with a new epoch and revision; handlers and
\* counters begin anew.
Restart ==
  /\ RestartSettings
  /\ Draw
  /\ guest' = IF guest = None THEN None
              ELSE [guest EXCEPT !.epoch = stamp, !.revision = stamp]
  /\ CancelReviews
  /\ UiDone
  /\ ReadsDone(Tasks)
  /\ request' = [r \in Requests |-> IF request[r] = Idle THEN Idle ELSE Done]
  /\ active' = [h \in Hosts |-> 0]
  /\ UNCHANGED <<node, withdrawn>>

Init ==
  /\ EscrowInit
  /\ GrantInit
  /\ request = [r \in Requests |-> Idle]
  /\ active = [h \in Hosts |-> 0]
  /\ moved = {}

ReviewStep(r) ==
  \/ CaptureEpoch(r) \/ Collected(r) \/ AdmitReview(r) \/ HandlerDropped(r)
  \/ \E b \in BOOLEAN : LookedUp(r, b) \/ Decided(r, b)

UpstreamStep(r) ==
  \/ BodySent(r) \/ HandleResponse(r)
  \/ \E b \in BOOLEAN : Substitute(r, b) \/ HandlerEnds(r, b) \/ ResponseEnds(r, b)

Fakes == {None} \cup {entries[n].fake : n \in {m \in Names : entries[m] # None}}

HandlerStep(r) ==
  \/ /\ \E call \in Calls, fake \in Fakes : Gate(r, call[1], call[2], fake)
     /\ UNCHANGED grantVars
  \/ ReviewStep(r)
  \/ UpstreamStep(r)

\* An entry with this fake, or whether it has a session, changes.
Touched(fake) ==
  \E n \in Names :
    /\ \E e \in {entries[n], entries'[n]} : e # None /\ e.fake = fake
    /\ entries'[n] # entries[n] \/ (n \in Sessions) # (n \in Sessions)'

RecordMoves ==
  moved' = {r \in Requests :
              /\ request'[r] \notin {Idle, Done}
              /\ \/ r \in moved
                 \/ request[r] \notin {Idle, Done} /\ Touched(request[r].fake)}

\* The requests that have a value to ask for, and the page.
Reading == In({"collect", "lookup", "substitute"}) \cup PageTasks

SettingsStep == EditStep \/ LoginStep \/ RefreshStep

Next ==
  /\ \/ SettingsStep /\ ReadEarly(Reading) /\ UNCHANGED <<grantVars, request, active>>
     \/ GrantStep /\ UNCHANGED <<settingsVars, request, active>>
     \/ \E r \in Requests : HandlerStep(r) /\ ReadsDone({r}) /\ UNCHANGED escrowVars
     \/ Restart
  /\ RecordMoves

Spec == Init /\ [][Next]_vars

-----------------------------------------------------------------------------
(* Properties *)

(***************************************************************************)
(* What leaves, or what a saved permission lets through, carries the       *)
(* prefix of an OAuth token exactly when it is one, whatever was set,      *)
(* signed in, refreshed, removed or half written before - unless a session *)
(* came or went between the two reads of real_value (set_secret,           *)
(* set_cline_session, remove_entry, store_cline_session, real_value).      *)
(***************************************************************************)
PrefixTellsTheTruth ==
  [][\A r \in Requests :
       ( /\ request'[r] \notin {Idle, Done}
         /\ request'[r].value # None
         /\ request[r].value = None
         /\ early[r] = None ) =>
         (request'[r].value.oauth <=> request'[r].value.value \in Logins)]_vars

(***************************************************************************)
(* The gate "governs every host the broker's Cline account would be        *)
(* substituted toward": the account's value leaves only with a request     *)
(* that the guest's access covers, unless the entry the request presents   *)
(* was edited, or its session came or went, while the request was in the   *)
(* proxy (cline_verdict, is_cline_credential_host, substitute).            *)
(***************************************************************************)
AccountIsGated ==
  \A r \in In({"forwarded"}) \ moved :
    request[r].account => /\ request[r].op # "keys"
                          /\ request[r].access = "full" \/ request[r].op = "read"

(***************************************************************************)
(* A comment that no one looks at is admitted only under a permission that *)
(* is in force, for what the node is when GitHub is asked, and with the    *)
(* very credential the permission was given for, whatever was revoked,     *)
(* transferred or rotated during the lookup (await_review, admit_comment). *)
(***************************************************************************)
CommentsAreGranted ==
  [][\A r \in Requests :
       ( /\ request'[r] \notin {Idle, Done}
         /\ request'[r].used # None
         /\ request[r].used = None ) =>
         LET g == request'[r].used
         IN g.id \notin withdrawn /\ g.target = node /\ g.binding.real = request'[r].value]_vars

(***************************************************************************)
(* The counters of requests under way are exact: whichever of the handler, *)
(* the bodies and their errors and drops ends a request, it is counted     *)
(* down once (UpstreamLifecycle::finish, host_active).                     *)
(***************************************************************************)
ActiveIsExact ==
  \A h \in Hosts :
    active[h] = Cardinality({r \in In({"forwarded"}) :
                               request[r].host = h /\ ~request[r].life.finished})
=============================================================================
