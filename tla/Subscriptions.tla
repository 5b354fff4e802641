--------------------------- MODULE Subscriptions ---------------------------
(***************************************************************************)
(* subscription-api: the subscriptions table and the HTTP handlers that    *)
(* work on it, each of them a process that serves one request.             *)
(*                                                                         *)
(* Everything is about ONE repository: statements about different          *)
(* repositories never touch the same rows.  Transactions run at READ       *)
(* COMMITTED, so a count sees what is committed when it runs; SELECT ...   *)
(* FOR UPDATE holds the row until the transaction ends, and a statement    *)
(* that would change a locked row waits.                                   *)
(*                                                                         *)
(* The token a handler draws for a new subscription (uuid.NewString) is    *)
(* the handler itself.  last_seen_tag is stored for display and decides    *)
(* nothing, so it is left out.                                             *)
(***************************************************************************)
EXTENDS Integers, FiniteSets, Sequences, SequencesExt

CONSTANTS
  Users,         \* email addresses
  Handlers,      \* HTTP requests; also the tokens they draw
  Transports,    \* values of NOTIFICATION_TRANSPORT: "kafka", "grpc"
  NoRow, Free,   \* model values: no subscription, row not locked
  MaxInFlight,   \* bound: requests handled at the same time
  MaxFaults      \* bound: handlers that die or lose the database

ASSUME UsersAssumption == IsFiniteSet(Users) /\ Users # {}
ASSUME NoRowAssumption == NoRow \notin [token : Handlers, confirmed : BOOLEAN]
ASSUME FreeAssumption == Free \notin Handlers
ASSUME TransportAssumption == Transports \subseteq {"kafka", "grpc"}
ASSUME BoundsAssumption == MaxInFlight \in Nat \ {0} /\ MaxFaults \in Nat

VARIABLES
  transport,  \* how notification-service is asked for mails
  row,      \* committed row of each user for the repository
  lock,     \* the handler whose transaction locked the row
  kind,     \* what each request asks for
  user,     \* the address it is about
  pc,       \* the step it is at
  was,      \* the confirmed column as its transaction read it
  count,    \* the count it read
  reply,    \* the HTTP answer
  mailed,   \* history: tokens whose confirmation link reached the user
  sagas,    \* repo watch saga requests in the outbox, in commit order
  overlapped,  \* history: two requests were served at the same time
  faults

req == <<kind, user, pc, was, count, reply>>
hist == <<transport, overlapped, faults>>
vars == <<row, lock, req, mailed, sagas, hist>>

Kinds == {"none", "subscribe", "confirm", "unsubscribe"}
Stages == {"idle", "save", "mail", "compensate", "confirmcount", "confirm",
           "request", "remove", "uncount", "uncommit", "done"}
Replies == {"none", "success", "already", "error"}

Init ==
  /\ transport \in Transports
  /\ row = [u \in Users |-> NoRow]
  /\ lock = [u \in Users |-> Free]
  /\ kind = [h \in Handlers |-> "none"]
  /\ user = [h \in Handlers |-> CHOOSE u \in Users : TRUE]
  /\ pc = [h \in Handlers |-> "idle"]
  /\ was = [h \in Handlers |-> FALSE]
  /\ count = [h \in Handlers |-> 0]
  /\ reply = [h \in Handlers |-> "none"]
  /\ mailed = {}
  /\ sagas = <<>>
  /\ overlapped = FALSE
  /\ faults = 0

Confirmed == {u \in Users : row[u] # NoRow /\ row[u].confirmed}
InFlight == {h \in Handlers : pc[h] \notin {"idle", "done"}}
Start(h) ==
  /\ pc[h] = "idle" /\ Cardinality(InFlight) < MaxInFlight
  /\ overlapped' = (overlapped \/ InFlight # {})
  /\ UNCHANGED <<transport, faults>>

Goto(h, stage) == pc' = [pc EXCEPT ![h] = stage]
Answer(h, text) == Goto(h, "done") /\ reply' = [reply EXCEPT ![h] = text]
Ask(h, what, u) ==
  /\ kind' = [kind EXCEPT ![h] = what]
  /\ user' = [user EXCEPT ![h] = u]

-----------------------------------------------------------------------------
\* POST /subscribe

\* Service.Subscribe up to SubscriptionExists.
Subscribe(h, u) ==
  /\ Start(h)
  /\ Ask(h, "subscribe", u)
  /\ IF row[u] # NoRow THEN Answer(h, "already")
                       ELSE Goto(h, "save") /\ UNCHANGED reply
  /\ UNCHANGED <<row, lock, was, count, mailed, sagas>>

\* validateRepo: GitHub does not know the repository, or does not answer.
RejectRepo(h) ==
  /\ pc[h] = "save"
  /\ Answer(h, "error")
  /\ UNCHANGED <<row, lock, kind, user, was, count, mailed, sagas, hist>>

\* Mistake: the conflicting row takes over the new token.
SaveOverwritesToken(h) ==
  /\ pc[h] = "save"
  /\ lock[user[h]] = Free
  /\ row' = [row EXCEPT ![user[h]] =
               IF @ = NoRow THEN [token |-> h, confirmed |-> FALSE]
                            ELSE [@ EXCEPT !.token = h]]
  /\ Goto(h, "mail")
  /\ UNCHANGED <<lock, kind, user, was, count, reply, mailed, sagas, hist>>

\* INSERT ... ON CONFLICT (email, repo): an existing row keeps its token and
\* its confirmation.
SaveSubscription(h) ==
  /\ pc[h] = "save"
  /\ lock[user[h]] = Free
  /\ row' = [row EXCEPT ![user[h]] =
               IF @ = NoRow THEN [token |-> h, confirmed |-> FALSE] ELSE @]
  /\ Goto(h, "mail")
  /\ UNCHANGED <<lock, kind, user, was, count, reply, mailed, sagas, hist>>

\* Mistake: a failed confirmation is reported and nothing is undone.
SendConfirmationNoUndo(h) ==
  /\ pc[h] = "mail"
  /\ \/ mailed' = mailed \union {h} /\ Answer(h, "success")
     \/ mailed' \in {mailed, mailed \union {h}} /\ Answer(h, "error")
  /\ UNCHANGED <<row, lock, kind, user, was, count, sagas, hist>>

\* The call to notification-service: it succeeds, or it fails, and the mail may
\* be out even if it fails (five seconds are over).  The HTTP endpoint reports
\* what SMTP refuses; the gRPC handler stores it as failed and reports success.
SendConfirmation(h) ==
  /\ pc[h] = "mail"
  /\ \/ mailed' = mailed \union {h} /\ Answer(h, "success")
     \/ transport = "grpc" /\ Answer(h, "success") /\ UNCHANGED mailed
     \/ /\ mailed' \in {mailed, mailed \union {h}}
        /\ Goto(h, "compensate") /\ UNCHANGED reply
  /\ UNCHANGED <<row, lock, kind, user, was, count, sagas, hist>>

\* Mistake: the statement does not ask for an unconfirmed row.
DeleteSubscriptionAnyway(h) ==
  /\ pc[h] = "compensate"
  /\ lock[user[h]] = Free
  /\ row' = [row EXCEPT ![user[h]] =
               IF @ # NoRow /\ @.token = h THEN NoRow ELSE @]
  /\ Answer(h, "error")
  /\ UNCHANGED <<lock, kind, user, was, count, mailed, sagas, hist>>

\* Compensation; no matching row is an error, answered like the others.
DeleteUnconfirmedSubscription(h) ==
  /\ pc[h] = "compensate"
  /\ lock[user[h]] = Free
  /\ row' = [row EXCEPT ![user[h]] =
               IF @ # NoRow /\ @.token = h /\ ~@.confirmed THEN NoRow ELSE @]
  /\ Answer(h, "error")
  /\ UNCHANGED <<lock, kind, user, was, count, mailed, sagas, hist>>

-----------------------------------------------------------------------------
\* GET /confirm/{token} and GET /unsubscribe/{token}

\* SELECT ... WHERE token = $1 FOR UPDATE, or no such row.
LockByToken(h, t, what, next) ==
  /\ Start(h)
  /\ t \in mailed
  /\ \/ \E u \in Users :
          /\ row[u] # NoRow /\ row[u].token = t /\ lock[u] = Free
          /\ lock' = [lock EXCEPT ![u] = h]
          /\ was' = [was EXCEPT ![h] = row[u].confirmed]
          /\ Ask(h, what, u)
          /\ Goto(h, next)
          /\ UNCHANGED reply
     \/ /\ \A u \in Users : row[u] # NoRow => row[u].token # t
        /\ Ask(h, what, user[t])
        /\ Answer(h, "error")
        /\ UNCHANGED <<lock, was>>
  /\ UNCHANGED <<row, count, mailed, sagas>>

ConfirmSubscriptionByToken(h, t) == LockByToken(h, t, "confirm", "confirmcount")
Unsubscribe(h, t) == LockByToken(h, t, "unsubscribe", "uncount")

CountConfirmed(h) ==
  /\ pc[h] = "confirmcount"
  /\ count' = [count EXCEPT ![h] = Cardinality(Confirmed)]
  /\ Goto(h, "confirm")
  /\ UNCHANGED <<row, lock, kind, user, was, reply, mailed, sagas, hist>>

WasFirstConfirmed(h) == ~was[h] /\ count[h] = 0

\* UPDATE and COMMIT; whoever saw nobody else goes on to start the watch saga.
CommitConfirm(h) ==
  /\ pc[h] = "confirm"
  /\ row' = [row EXCEPT ![user[h]].confirmed = TRUE]
  /\ lock' = [lock EXCEPT ![user[h]] = Free]
  /\ IF WasFirstConfirmed(h) THEN Goto(h, "request") /\ UNCHANGED reply
                             ELSE Answer(h, "success")
  /\ UNCHANGED <<kind, user, was, count, mailed, sagas, hist>>

\* Mistake: the arguments are swapped.
RequestWithoutAction(h) ==
  /\ pc[h] = "request"
  /\ sagas' = Append(sagas, kind[h])
  /\ Answer(h, "success")
  /\ UNCHANGED <<row, lock, kind, user, was, count, mailed, hist>>

\* A transaction of its own, after the one of the confirmation.
RequestRepoWatchSaga(h) ==
  /\ pc[h] = "request"
  /\ sagas' = Append(sagas, "start")
  /\ Answer(h, "success")
  /\ UNCHANGED <<row, lock, kind, user, was, count, mailed, hist>>

\* Mistake: the count comes before the DELETE.
CountWithSelf(h) ==
  /\ pc[h] = "uncount"
  /\ count' = [count EXCEPT ![h] = Cardinality(Confirmed)]
  /\ Goto(h, "uncommit")
  /\ UNCHANGED <<row, lock, kind, user, was, reply, mailed, sagas, hist>>

\* DELETE, then the count of the others, if the row was confirmed.
CountRemaining(h) ==
  /\ pc[h] = "uncount"
  /\ count' = [count EXCEPT ![h] = Cardinality(Confirmed \ {user[h]})]
  /\ Goto(h, "uncommit")
  /\ UNCHANGED <<row, lock, kind, user, was, reply, mailed, sagas, hist>>

StopsWatch(h) == was[h] /\ count[h] = 0

CommitUnsubscribe(h) ==
  /\ pc[h] = "uncommit"
  /\ row' = [row EXCEPT ![user[h]] = NoRow]
  /\ lock' = [lock EXCEPT ![user[h]] = Free]
  /\ sagas' = IF StopsWatch(h) THEN Append(sagas, "stop") ELSE sagas
  /\ Answer(h, "success")
  /\ UNCHANGED <<kind, user, was, count, mailed, hist>>

-----------------------------------------------------------------------------
\* The process dies, the client goes away (its context carries every call) or
\* a statement fails: the transaction is rolled back and nothing more happens.
Die(h) ==
  /\ h \in InFlight
  /\ faults < MaxFaults
  /\ faults' = faults + 1
  /\ lock' = [u \in Users |-> IF lock[u] = h THEN Free ELSE lock[u]]
  /\ Answer(h, "error")
  /\ UNCHANGED <<row, kind, user, was, count, mailed, sagas, transport, overlapped>>

\* What a handler does by itself once the request is in.
Continue(h) ==
  \/ RejectRepo(h)
  \/ SaveSubscription(h)
  \/ SendConfirmation(h)
  \/ DeleteUnconfirmedSubscription(h)
  \/ CountConfirmed(h)
  \/ CommitConfirm(h)
  \/ RequestRepoWatchSaga(h)
  \/ CountRemaining(h)
  \/ CommitUnsubscribe(h)

Next ==
  \E h \in Handlers :
    \/ \E u \in Users : Subscribe(h, u)
    \/ \E t \in Handlers : ConfirmSubscriptionByToken(h, t)
    \/ \E t \in Handlers : Unsubscribe(h, t)
    \/ Continue(h)
    \/ Die(h)

Spec == Init /\ [][Next]_vars

-----------------------------------------------------------------------------
TypeOK ==
  /\ transport \in Transports
  /\ row \in [Users -> {NoRow} \union [token : Handlers, confirmed : BOOLEAN]]
  /\ lock \in [Users -> Handlers \union {Free}]
  /\ kind \in [Handlers -> Kinds]
  /\ user \in [Handlers -> Users]
  /\ pc \in [Handlers -> Stages]
  /\ was \in [Handlers -> BOOLEAN]
  /\ count \in [Handlers -> Nat]
  /\ reply \in [Handlers -> Replies]
  /\ mailed \subseteq Handlers
  /\ sagas \in Seq({"start", "stop"})
  /\ overlapped \in BOOLEAN
  /\ faults \in 0..MaxFaults

Quiet == InFlight = {}
Unsubscribed(u) == \E h \in Handlers : kind[h] = "unsubscribe" /\ user[h] = u
Watching == sagas # <<>> /\ Last(sagas) = "start"

\* Double opt-in: a confirmed row carries a token that was mailed to its own
\* address, although two requests of one user race to save theirs.
ConfirmedByOwnLink ==
  \A u \in Confirmed : row[u].token \in mailed /\ user[row[u].token] = u

\* A confirmed subscription goes away by an unsubscribe that holds its lock,
\* never by the compensation of a Subscribe whose mail arrived late.
OnlyUnsubscribeRemoves ==
  [][\A u \in Confirmed : row'[u] = NoRow =>
       \E h \in Handlers : pc[h] = "uncommit" /\ lock[u] = h]_vars

\* Without dead handlers, a row nobody got a link for does not survive its
\* request: the address is not blocked from subscribing again.  With gRPC one
\* does, and only one: the row of a request that was told of a mail SMTP refused.
NoOrphanRow ==
  faults = 0 =>
    \A u \in Users : row[u] # NoRow /\ row[u].token \notin mailed =>
      \/ row[u].token \in InFlight
      \/ transport = "grpc" /\ reply[row[u].token] = "success"

\* ADR-005: start when the active subscriptions of a repository move from 0 to
\* 1, stop when they move from 1 to 0.  Once the requests are answered, the
\* last saga request says whether anybody is subscribed.
WatchFollowsSubscribers == Quiet => (Watching <=> Confirmed # {})

\* That is so as long as requests come one at a time and no handler dies.
SerialFollowsSubscribers == ~overlapped /\ faults = 0 => WatchFollowsSubscribers

\* subscription-api.yaml, 200 of /subscribe: "Subscription created and
\* confirmation email requested".  It stays until its owner goes, whatever
\* becomes of the requests of others; only a second request of the same
\* address that fails can take it away, if it had saved the row first.
SuccessKeepsSubscription ==
  \A h \in Handlers :
    /\ kind[h] = "subscribe" /\ reply[h] = "success"
    /\ ~Unsubscribed(user[h])
    /\ \A g \in Handlers :
         kind[g] = "subscribe" /\ user[g] = user[h] => reply[g] # "error"
    => row[user[h]] # NoRow

\* Subscribe, its compensation and the upsert keep the table and the answers
\* together: no row that nobody can confirm is left behind, and no row that was
\* reported is taken away.
AnswersMatchRows == NoOrphanRow /\ SuccessKeepsSubscription

\* Racing and dying handlers do to the table and the mails what DoubleOptIn
\* allows, and nothing else.
OptIn == INSTANCE DoubleOptIn
  WITH Addresses <- Users, Tokens <- Handlers, Absent <- NoRow,
       entry <- row, links <- {<<user[t], t>> : t \in mailed}
OptInSafety == OptIn!OptInSafety
=============================================================================
