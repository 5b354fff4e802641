------------------------- MODULE SubscriptionsProofs -------------------------
(***************************************************************************)
(* Theorems about Subscriptions, for any number of users, requests and     *)
(* dying handlers and both transports.  What a transaction may rely on is  *)
(* the row it has locked: LockOK says what stays true of it between its    *)
(* statements, whatever the other handlers commit.                         *)
(***************************************************************************)
EXTENDS Subscriptions, FiniteSetTheorems, TLAPS

Rows == [token : Handlers, confirmed : BOOLEAN]

Holding == {"confirmcount", "confirm", "uncount", "uncommit"}

\* A handler is at a stage of what it was asked for, and answers at its end.
StageOK ==
  \A h \in Handlers :
    /\ pc[h] = "idle" => kind[h] = "none"
    /\ pc[h] \in {"save", "mail", "compensate"} => kind[h] = "subscribe"
    /\ pc[h] \in {"confirmcount", "confirm", "request"} => kind[h] = "confirm"
    /\ pc[h] \in {"uncount", "uncommit"} => kind[h] = "unsubscribe"
    /\ reply[h] # "none" <=> pc[h] = "done"

\* A transaction between its statements has its row locked; the row is still
\* there, with a token that was mailed.
LockOK ==
  \A h \in Handlers : pc[h] \in Holding =>
    /\ lock[user[h]] = h
    /\ row[user[h]] # NoRow
    /\ row[user[h]].token \in mailed

\* A row has the token of a Subscribe of its own address that saved it.
TokenOK ==
  \A u \in Users : row[u] # NoRow =>
    /\ user[row[u].token] = u
    /\ kind[row[u].token] = "subscribe"
    /\ pc[row[u].token] \notin {"idle", "save"}
    /\ row[u].confirmed => row[u].token \in mailed

Held == StageOK /\ LockOK /\ TokenOK

-----------------------------------------------------------------------------
LEMMA CountsAreFinite ==
  \A S \in SUBSET Users : IsFiniteSet(S) /\ Cardinality(S) \in Nat
                          /\ (Cardinality(S) = 0 <=> S = {})
  BY UsersAssumption, FS_Subset, FS_CardinalityType, FS_EmptySet

LEMMA ConfirmedUsers == Confirmed \subseteq Users
  BY DEF Confirmed

\* The row a transaction goes on with is a row.
LEMMA LockedRow ==
  ASSUME TypeOK, LockOK, NEW h \in Handlers, pc[h] \in Holding
  PROVE  row[user[h]] \in Rows
  BY DEF TypeOK, LockOK, Rows

LEMMA TypeStep == TypeOK /\ LockOK /\ [Next]_vars => TypeOK'
<1> SUFFICES ASSUME TypeOK, LockOK, [Next]_vars PROVE TypeOK'
  OBVIOUS
<1> USE NoRowAssumption, FreeAssumption, BoundsAssumption
    DEF TypeOK, Kinds, Stages, Replies, Goto, Answer, Ask, Start, req, hist
<1>0. \A S \in SUBSET Users : Cardinality(S) \in Nat
  BY CountsAreFinite
<1>1. ASSUME NEW h \in Handlers, NEW u \in Users, Subscribe(h, u) PROVE TypeOK'
  BY <1>1 DEF Subscribe
<1>2. ASSUME NEW h \in Handlers, RejectRepo(h) PROVE TypeOK'
  BY <1>2 DEF RejectRepo
<1>3. ASSUME NEW h \in Handlers, SaveSubscription(h) PROVE TypeOK'
  BY <1>3 DEF SaveSubscription
<1>4. ASSUME NEW h \in Handlers, SendConfirmation(h) PROVE TypeOK'
  <2>1. mailed' \subseteq Handlers
    BY <1>4 DEF SendConfirmation
  <2>2. \/ /\ pc' = [pc EXCEPT ![h] = "done"]
           /\ reply' = [reply EXCEPT ![h] = "success"]
        \/ pc' = [pc EXCEPT ![h] = "compensate"] /\ UNCHANGED reply
    BY <1>4 DEF SendConfirmation
  <2>3. pc' \in [Handlers -> Stages]
    <3>1. pc' = [pc EXCEPT ![h] = "done"] \/ pc' = [pc EXCEPT ![h] = "compensate"]
      BY <2>2
    <3> QED  BY <3>1
  <2>4. reply' \in [Handlers -> Replies]
    <3>1. reply' = [reply EXCEPT ![h] = "success"] \/ reply' = reply
      BY <2>2
    <3> QED  BY <3>1
  <2> QED  BY <1>4, <2>1, <2>3, <2>4 DEF SendConfirmation
<1>5. ASSUME NEW h \in Handlers, DeleteUnconfirmedSubscription(h) PROVE TypeOK'
  BY <1>5 DEF DeleteUnconfirmedSubscription
<1>6. ASSUME NEW h \in Handlers, NEW t \in Handlers, NEW what \in Kinds,
             NEW next \in Stages, LockByToken(h, t, what, next)
      PROVE  TypeOK'
  <2>1. ASSUME NEW u \in Users, row[u] # NoRow, Ask(h, what, u), Goto(h, next),
               lock' = [lock EXCEPT ![u] = h], UNCHANGED reply,
               was' = [was EXCEPT ![h] = row[u].confirmed]
        PROVE  TypeOK'
    <3>1. row[u].confirmed \in BOOLEAN
      BY <2>1
    <3> QED  BY <1>6, <2>1, <3>1 DEF LockByToken
  <2>2. ASSUME Ask(h, what, user[t]), Answer(h, "error"), UNCHANGED <<lock, was>>
        PROVE  TypeOK'
    BY <1>6, <2>2 DEF LockByToken
  <2> QED  BY <1>6, <2>1, <2>2 DEF LockByToken
<1>7. ASSUME NEW h \in Handlers, CountConfirmed(h) PROVE TypeOK'
  BY <1>0, <1>7, ConfirmedUsers DEF CountConfirmed
<1>8. ASSUME NEW h \in Handlers, CommitConfirm(h) PROVE TypeOK'
  <2>1. row' \in [Users -> {NoRow} \union Rows]
    <3>1. row[user[h]] \in Rows
      BY <1>8, LockedRow DEF CommitConfirm, Holding
    <3>2. [row[user[h]] EXCEPT !.confirmed = TRUE] \in Rows
      BY <3>1 DEF Rows
    <3>3. row' = [row EXCEPT ![user[h]] = [row[user[h]] EXCEPT !.confirmed = TRUE]]
      BY <1>8 DEF CommitConfirm
    <3>4. row \in [Users -> {NoRow} \union Rows] /\ user[h] \in Users
      BY DEF Rows
    <3> HIDE DEF TypeOK
    <3> QED  BY <3>2, <3>3, <3>4
  <2> QED  BY <1>8, <2>1 DEF CommitConfirm, Rows
<1>9. ASSUME NEW h \in Handlers, RequestRepoWatchSaga(h) PROVE TypeOK'
  BY <1>9 DEF RequestRepoWatchSaga
<1>10. ASSUME NEW h \in Handlers, CountRemaining(h) PROVE TypeOK'
  BY <1>0, <1>10, ConfirmedUsers DEF CountRemaining
<1>11. ASSUME NEW h \in Handlers, CommitUnsubscribe(h) PROVE TypeOK'
  BY <1>11 DEF CommitUnsubscribe
<1>12. ASSUME NEW h \in Handlers, Die(h) PROVE TypeOK'
  BY <1>12 DEF Die, InFlight
<1>13. CASE UNCHANGED vars
  BY <1>13 DEF vars
<1>14. ASSUME NEW h \in Handlers, Continue(h) PROVE TypeOK'
  <2> HIDE DEF TypeOK
  <2> QED  BY <1>2, <1>3, <1>4, <1>5, <1>7, <1>8, <1>9, <1>10, <1>11, <1>14
              DEF Continue
<1>15. ASSUME NEW h \in Handlers, NEW t \in Handlers,
              ConfirmSubscriptionByToken(h, t) \/ Unsubscribe(h, t)
       PROVE  TypeOK'
  <2>1. "confirm" \in Kinds /\ "unsubscribe" \in Kinds
        /\ "confirmcount" \in Stages /\ "uncount" \in Stages
    OBVIOUS
  <2> HIDE DEF TypeOK, Kinds, Stages
  <2> QED  BY <1>6, <1>15, <2>1 DEF ConfirmSubscriptionByToken, Unsubscribe
<1> HIDE DEF TypeOK
<1> QED  BY <1>1, <1>12, <1>13, <1>14, <1>15 DEF Next
-----------------------------------------------------------------------------
LEMMA HeldStep == TypeOK /\ Held /\ [Next]_vars => Held'
<1> SUFFICES ASSUME TypeOK, Held, [Next]_vars PROVE Held'
  OBVIOUS
<1> USE NoRowAssumption, FreeAssumption
    DEF TypeOK, Held, StageOK, LockOK, TokenOK, Holding, Goto, Answer, Ask, Start,
        req, hist
<1>1. ASSUME NEW h \in Handlers, NEW u \in Users, Subscribe(h, u) PROVE Held'
  BY <1>1 DEF Subscribe
<1>2. ASSUME NEW h \in Handlers, RejectRepo(h) PROVE Held'
  BY <1>2 DEF RejectRepo
<1>3. ASSUME NEW h \in Handlers, SaveSubscription(h) PROVE Held'
  BY <1>3 DEF SaveSubscription
<1>4. ASSUME NEW h \in Handlers, SendConfirmation(h) PROVE Held'
  BY <1>4 DEF SendConfirmation
<1>5. ASSUME NEW h \in Handlers, DeleteUnconfirmedSubscription(h) PROVE Held'
  <2>1. /\ pc[h] = "compensate" /\ kind[h] = "subscribe"
        /\ lock[user[h]] = Free
        /\ pc' = [pc EXCEPT ![h] = "done"]
        /\ reply' = [reply EXCEPT ![h] = "error"]
        /\ UNCHANGED <<lock, kind, user, mailed>>
    BY <1>5 DEF DeleteUnconfirmedSubscription
  <2>2. \A u \in Users : row'[u] = row[u] \/ (u = user[h] /\ row'[u] = NoRow)
    BY <1>5 DEF DeleteUnconfirmedSubscription
  <2>3. StageOK'
    BY <2>1
  <2>4. LockOK'
    BY <2>1, <2>2
  <2>5. TokenOK'
    BY <2>1, <2>2
  <2> QED  BY <2>3, <2>4, <2>5
<1>6. ASSUME NEW h \in Handlers, NEW t \in Handlers, NEW what, NEW next,
             LockByToken(h, t, what, next),
             \/ what = "confirm" /\ next = "confirmcount"
             \/ what = "unsubscribe" /\ next = "uncount"
      PROVE  Held'
  <2>1. ASSUME NEW u \in Users, row[u] # NoRow, row[u].token = t, lock[u] = Free,
               Ask(h, what, u), Goto(h, next), lock' = [lock EXCEPT ![u] = h],
               UNCHANGED reply
        PROVE  Held'
    BY <1>6, <2>1 DEF LockByToken
  <2>2. ASSUME Ask(h, what, user[t]), Answer(h, "error"), UNCHANGED lock
        PROVE  Held'
    BY <1>6, <2>2 DEF LockByToken
  <2> QED  BY <1>6, <2>1, <2>2 DEF LockByToken
<1>8. ASSUME NEW h \in Handlers, CountConfirmed(h) PROVE Held'
  BY <1>8 DEF CountConfirmed
<1>9. ASSUME NEW h \in Handlers, CommitConfirm(h) PROVE Held'
  BY <1>9 DEF CommitConfirm
<1>10. ASSUME NEW h \in Handlers, RequestRepoWatchSaga(h) PROVE Held'
  BY <1>10 DEF RequestRepoWatchSaga
<1>11. ASSUME NEW h \in Handlers, CountRemaining(h) PROVE Held'
  BY <1>11 DEF CountRemaining
<1>12. ASSUME NEW h \in Handlers, CommitUnsubscribe(h) PROVE Held'
  BY <1>12 DEF CommitUnsubscribe
<1>13. ASSUME NEW h \in Handlers, Die(h) PROVE Held'
  BY <1>13 DEF Die, InFlight
<1>14. CASE UNCHANGED vars
  BY <1>14 DEF vars
<1> HIDE DEF TypeOK, Held
<1>15. ASSUME NEW h \in Handlers, Continue(h) PROVE Held'
  BY <1>2, <1>3, <1>4, <1>5, <1>8, <1>9, <1>10, <1>11, <1>12, <1>15 DEF Continue
<1>16. ASSUME NEW h \in Handlers, NEW t \in Handlers,
              ConfirmSubscriptionByToken(h, t) \/ Unsubscribe(h, t)
       PROVE  Held'
  BY <1>6, <1>16 DEF ConfirmSubscriptionByToken, Unsubscribe
<1> QED  BY <1>1, <1>13, <1>14, <1>15, <1>16 DEF Next
LEMMA InitHeld == Init => TypeOK /\ Held
<1> SUFFICES ASSUME Init PROVE TypeOK /\ Held
  OBVIOUS
<1>1. (CHOOSE u \in Users : TRUE) \in Users
  BY UsersAssumption
<1>2. TypeOK
  <2>1. row \in [Users -> {NoRow} \union Rows] /\ lock \in [Users -> Handlers \union {Free}]
    BY DEF Init
  <2>2. /\ kind \in [Handlers -> Kinds] /\ user \in [Handlers -> Users]
        /\ pc \in [Handlers -> Stages] /\ reply \in [Handlers -> Replies]
        /\ was \in [Handlers -> BOOLEAN] /\ count \in [Handlers -> Nat]
    BY <1>1 DEF Init, Kinds, Stages, Replies
  <2>3. /\ transport \in Transports /\ mailed \subseteq Handlers
        /\ sagas \in Seq({"start", "stop"}) /\ overlapped \in BOOLEAN
        /\ faults \in 0..MaxFaults
    <3>1. <<>> \in Seq({"start", "stop"}) /\ 0 \in 0..MaxFaults
      BY BoundsAssumption
    <3> QED  BY <3>1 DEF Init
  <2> QED  BY <2>1, <2>2, <2>3 DEF TypeOK, Rows
<1>3. Held
  BY NoRowAssumption DEF Init, Held, StageOK, LockOK, TokenOK, Holding
<1> QED  BY <1>2, <1>3

THEOREM HeldInvariant == Spec => [](TypeOK /\ Held)
<1>1. TypeOK /\ Held /\ [Next]_vars => (TypeOK /\ Held)'
  BY TypeStep, HeldStep DEF Held
<1> QED  BY <1>1, InitHeld, PTL DEF Spec

\* Rows, locks, answers and saga requests keep their types: what a transaction
\* locked is still a row when it writes it.
THEOREM TypeCorrect == Spec => []TypeOK
  BY HeldInvariant, PTL

\* Double opt-in, however requests of one user race: a confirmed row carries a
\* token that was mailed to its own address.
THEOREM OptInTwice == Spec => []ConfirmedByOwnLink
<1>1. TypeOK /\ Held => ConfirmedByOwnLink
  BY DEF Held, TokenOK, TypeOK, ConfirmedByOwnLink, Confirmed
<1> QED  BY <1>1, HeldInvariant, PTL

\* No step but the commit of an unsubscribe that has the row locked takes a
\* confirmed subscription away.
THEOREM RemovalsAreAsked == Spec => OnlyUnsubscribeRemoves
<1>1. TypeOK /\ Held /\ [Next]_vars =>
        [\A u \in Confirmed : row'[u] = NoRow =>
           \E h \in Handlers : pc[h] = "uncommit" /\ lock[u] = h]_vars
  <2> SUFFICES ASSUME TypeOK, Held, Next, NEW u \in Confirmed, row'[u] = NoRow
               PROVE  \E h \in Handlers : pc[h] = "uncommit" /\ lock[u] = h
    OBVIOUS
  <2>1. u \in Users /\ row[u] # NoRow /\ row[u].confirmed /\ row[u] \in Rows
    BY DEF Confirmed, TypeOK, Rows
  <2>2. row'[u] # row[u]
    BY <2>1
  <2>3. ASSUME NEW h \in Handlers, SaveSubscription(h) PROVE row'[u] # NoRow
    BY <2>1, <2>3 DEF SaveSubscription, TypeOK
  <2>4. ASSUME NEW h \in Handlers, DeleteUnconfirmedSubscription(h)
        PROVE  row'[u] # NoRow
    BY <2>1, <2>4 DEF DeleteUnconfirmedSubscription, TypeOK
  <2>5. ASSUME NEW h \in Handlers, CommitConfirm(h) PROVE row'[u] # NoRow
    <3>1. u # user[h] => row'[u] = row[u]
      BY <2>1, <2>5 DEF CommitConfirm, TypeOK
    <3>2. u = user[h] => row'[u] = [row[u] EXCEPT !.confirmed = TRUE]
      BY <2>1, <2>5 DEF CommitConfirm, TypeOK
    <3>3. [row[u] EXCEPT !.confirmed = TRUE] \in Rows
      BY <2>1 DEF Rows
    <3> QED  BY <2>1, <3>1, <3>2, <3>3, NoRowAssumption DEF Rows
  <2>6. ASSUME NEW h \in Handlers, CommitUnsubscribe(h)
        PROVE  pc[h] = "uncommit" /\ lock[u] = h
    <3>1. user[h] = u
      BY <2>1, <2>2, <2>6 DEF CommitUnsubscribe, TypeOK
    <3> QED  BY <2>6, <3>1 DEF CommitUnsubscribe, Held, LockOK, Holding
  <2>7. \E h \in Handlers : \/ SaveSubscription(h) \/ DeleteUnconfirmedSubscription(h)
                            \/ CommitConfirm(h) \/ CommitUnsubscribe(h)
                            \/ UNCHANGED row
    BY DEF Next, Continue, Subscribe, ConfirmSubscriptionByToken, Unsubscribe,
           LockByToken, RejectRepo, SendConfirmation, CountConfirmed,
           RequestRepoWatchSaga, CountRemaining, Die
  <2> QED  BY <2>2, <2>3, <2>4, <2>5, <2>6, <2>7
<1> QED  BY <1>1, HeldInvariant, PTL DEF Spec, OnlyUnsubscribeRemoves
-----------------------------------------------------------------------------
(* The abstract specification DoubleOptIn.                                 *)

\* What a request was asked for and an error it was answered with stay.
LEMMA Recorded ==
  ASSUME TypeOK, Held, [Next]_vars, NEW h \in Handlers
  PROVE  /\ kind[h] # "none" => kind'[h] = kind[h] /\ user'[h] = user[h]
         /\ reply[h] # "none" => reply'[h] = reply[h]
<1> USE DEF TypeOK, Held, StageOK, Goto, Answer, Ask, Start, req, hist
<1>1. ASSUME NEW g \in Handlers, NEW u \in Users, NEW t \in Handlers,
             Subscribe(g, u) \/ ConfirmSubscriptionByToken(g, t) \/ Unsubscribe(g, t)
      PROVE  /\ kind[h] # "none" => kind'[h] = kind[h] /\ user'[h] = user[h]
             /\ reply[h] # "none" => reply'[h] = reply[h]
  BY <1>1 DEF Subscribe, ConfirmSubscriptionByToken, Unsubscribe, LockByToken
<1>2. ASSUME NEW g \in Handlers, Continue(g) \/ Die(g)
      PROVE  /\ kind'[h] = kind[h] /\ user'[h] = user[h]
             /\ reply[h] # "none" => reply'[h] = reply[h]
  BY <1>2 DEF Continue, Die, InFlight, RejectRepo, SaveSubscription, SendConfirmation,
       DeleteUnconfirmedSubscription, CountConfirmed, CommitConfirm,
       RequestRepoWatchSaga, CountRemaining, CommitUnsubscribe
<1>3. CASE UNCHANGED vars
  BY <1>3 DEF vars
<1> QED  BY <1>1, <1>2, <1>3, UsersAssumption DEF Next

\* A link is the one of a Subscribe that has been past its save.
MailedOK ==
  \A t \in mailed : kind[t] = "subscribe" /\ pc[t] \notin {"idle", "save"}

Links == {<<user[t], t>> : t \in mailed}

LEMMA LinksAre == \A a, t : <<a, t>> \in Links <=> t \in mailed /\ a = user[t]
  BY DEF Links

LEMMA MailedStep == TypeOK /\ Held /\ MailedOK /\ [Next]_vars => MailedOK'
<1> SUFFICES ASSUME TypeOK, Held, MailedOK, [Next]_vars PROVE MailedOK'
  OBVIOUS
<1> USE DEF TypeOK, Held, StageOK, MailedOK, Goto, Answer, Ask, Start, req, hist
<1>1. ASSUME NEW h \in Handlers, NEW u \in Users, NEW t \in Handlers,
             Subscribe(h, u) \/ ConfirmSubscriptionByToken(h, t) \/ Unsubscribe(h, t)
      PROVE  MailedOK'
  BY <1>1 DEF Subscribe, ConfirmSubscriptionByToken, Unsubscribe, LockByToken
<1>2. ASSUME NEW h \in Handlers, SendConfirmation(h) PROVE MailedOK'
  BY <1>2 DEF SendConfirmation
<1>3. ASSUME NEW h \in Handlers, Continue(h) \/ Die(h), ~SendConfirmation(h)
      PROVE  MailedOK'
  BY <1>3 DEF Continue, Die, InFlight, RejectRepo, SaveSubscription,
       DeleteUnconfirmedSubscription, CountConfirmed, CommitConfirm,
       RequestRepoWatchSaga, CountRemaining, CommitUnsubscribe
<1>4. CASE UNCHANGED vars
  BY <1>4 DEF vars
<1> QED  BY <1>1, <1>2, <1>3, <1>4, UsersAssumption DEF Next, Continue

\* Whom a link was sent to does not change: links come one by one.
LEMMA LinksStay ==
  ASSUME TypeOK, Held, MailedOK, [Next]_vars, mailed' = mailed
  PROVE  Links' = Links
<1>1. \A t \in mailed : user'[t] = user[t]
  BY Recorded DEF MailedOK, TypeOK
<1> QED  BY <1>1 DEF Links

\* Every handler step is a step of DoubleOptIn: a token is fresh when its row
\* is saved, its link goes to the address that asked, and only with that link
\* is a row confirmed or, confirmed, deleted.
THEOREM ImplementsOptIn == Spec => OptInSafety
<1>1. Init => OptIn!OptInInit
  BY DEF Init, OptIn!OptInInit
<1>2. TypeOK /\ Held /\ MailedOK /\ [Next]_vars => [OptIn!OptInNext]_<<row, Links>>
  <2> SUFFICES ASSUME TypeOK, Held, MailedOK, [Next]_vars
               PROVE  [OptIn!OptInNext]_<<row, Links>>
    OBVIOUS
  <2>u. \A h \in Handlers : user[h] \in Users
    BY DEF TypeOK
  <2>r. \A u \in Users : row[u] # NoRow =>
          /\ row[u] \in Rows /\ user[row[u].token] = u
          /\ pc[row[u].token] \notin {"idle", "save"}
    BY DEF TypeOK, Rows, Held, TokenOK
  <2>l. \A b, t : <<b, t>> \in Links <=> t \in mailed /\ b = user[t]
    BY LinksAre
  <2>k. mailed' = mailed => Links' = Links
    BY LinksStay
  <2>f. OptIn!OptInNext <=>
          \E a \in Users :
            \/ \E t \in Handlers : OptIn!Enter(a, t) \/ OptIn!SendLink(a, t)
            \/ OptIn!Confirm(a) \/ OptIn!Leave(a) \/ OptIn!TakeBack(a)
    BY DEF OptIn!OptInNext
  <2>1. ASSUME NEW h \in Handlers, SaveSubscription(h)
        PROVE  OptIn!OptInNext \/ UNCHANGED <<row, Links>>
    <3>1. pc[h] = "save" /\ mailed' = mailed
      BY <2>1 DEF SaveSubscription
    <3>2. CASE row[user[h]] # NoRow
      BY <2>1, <2>k, <2>u, <3>1, <3>2 DEF SaveSubscription, TypeOK
    <3>3. CASE row[user[h]] = NoRow
      <4>1. row' = [row EXCEPT ![user[h]] = [token |-> h, confirmed |-> FALSE]]
        BY <2>1, <3>3 DEF SaveSubscription
      <4>2. \A b \in Users : <<b, h>> \notin Links
        BY <2>l, <3>1 DEF MailedOK
      <4>3. \A b \in Users : row[b] # NoRow => row[b].token # h
        BY <2>r, <3>1
      <4>4. OptIn!Enter(user[h], h)
        BY <2>k, <3>1, <3>3, <4>1, <4>2, <4>3 DEF OptIn!Enter, Links
      <4> QED  BY <2>f, <2>u, <4>4
    <3> QED  BY <3>2, <3>3
  <2>2. ASSUME NEW h \in Handlers, SendConfirmation(h)
        PROVE  OptIn!OptInNext \/ UNCHANGED <<row, Links>>
    <3>1. row' = row /\ user' = user /\ mailed' \in {mailed, mailed \union {h}}
      BY <2>2 DEF SendConfirmation
    <3>2. CASE mailed' = mailed
      BY <2>k, <3>1, <3>2
    <3>3. CASE mailed' = mailed \union {h}
      <4>1. Links' = Links \union {<<user[h], h>>}
        BY <3>1, <3>3 DEF Links
      <4>2. OptIn!SendLink(user[h], h)
        BY <2>l, <2>r, <3>1, <4>1 DEF OptIn!SendLink, Links
      <4> QED  BY <2>f, <2>u, <4>2
    <3> QED  BY <3>1, <3>2, <3>3
  <2>3. ASSUME NEW h \in Handlers, DeleteUnconfirmedSubscription(h)
        PROVE  OptIn!OptInNext \/ UNCHANGED <<row, Links>>
    <3>1. mailed' = mailed
      BY <2>3 DEF DeleteUnconfirmedSubscription
    <3>2. CASE row[user[h]] # NoRow /\ row[user[h]].token = h /\ ~row[user[h]].confirmed
      <4>1. row' = [row EXCEPT ![user[h]] = NoRow]
        BY <2>3, <3>2 DEF DeleteUnconfirmedSubscription
      <4>2. OptIn!TakeBack(user[h])
        BY <2>k, <3>1, <3>2, <4>1 DEF OptIn!TakeBack, Links
      <4> QED  BY <2>f, <2>u, <4>2
    <3>3. CASE ~(row[user[h]] # NoRow /\ row[user[h]].token = h /\ ~row[user[h]].confirmed)
      BY <2>3, <2>k, <2>u, <3>1, <3>3 DEF DeleteUnconfirmedSubscription, TypeOK
    <3> QED  BY <3>2, <3>3
  <2>4. ASSUME NEW h \in Handlers, CommitConfirm(h) PROVE OptIn!OptInNext
    <3>1. /\ row[user[h]] # NoRow /\ row[user[h]].token \in mailed
      BY <2>4 DEF CommitConfirm, Held, LockOK, Holding
    <3>2. OptIn!HasLink(user[h])
      BY <2>l, <2>r, <2>u, <3>1 DEF OptIn!HasLink, Links
    <3>3. mailed' = mailed /\ row' = [row EXCEPT ![user[h]].confirmed = TRUE]
      BY <2>4 DEF CommitConfirm
    <3>4. OptIn!Confirm(user[h])
      BY <2>k, <3>2, <3>3 DEF OptIn!Confirm, Links
    <3> QED  BY <2>f, <2>u, <3>4
  <2>5. ASSUME NEW h \in Handlers, CommitUnsubscribe(h) PROVE OptIn!OptInNext
    <3>1. /\ row[user[h]] # NoRow /\ row[user[h]].token \in mailed
      BY <2>5 DEF CommitUnsubscribe, Held, LockOK, Holding
    <3>2. OptIn!HasLink(user[h])
      BY <2>l, <2>r, <2>u, <3>1 DEF OptIn!HasLink, Links
    <3>3. mailed' = mailed /\ row' = [row EXCEPT ![user[h]] = NoRow]
      BY <2>5 DEF CommitUnsubscribe
    <3>4. OptIn!Leave(user[h])
      BY <2>k, <3>2, <3>3 DEF OptIn!Leave, Links
    <3> QED  BY <2>f, <2>u, <3>4
  <2>6. ASSUME NEW h \in Handlers, NEW u \in Users, NEW t \in Handlers,
               Subscribe(h, u) \/ ConfirmSubscriptionByToken(h, t) \/ Unsubscribe(h, t)
        PROVE  UNCHANGED <<row, mailed>>
    BY <2>6 DEF Subscribe, ConfirmSubscriptionByToken, Unsubscribe, LockByToken
  <2>7. ASSUME NEW h \in Handlers,
               \/ RejectRepo(h) \/ CountConfirmed(h) \/ RequestRepoWatchSaga(h)
               \/ CountRemaining(h) \/ Die(h)
        PROVE  UNCHANGED <<row, mailed>>
    BY <2>7 DEF RejectRepo, CountConfirmed, RequestRepoWatchSaga, CountRemaining, Die
  <2>8. CASE UNCHANGED vars
    BY <2>k, <2>8 DEF vars
  <2>9. Users # {}
    BY UsersAssumption
  <2> QED
    BY <2>k, <2>1, <2>2, <2>3, <2>4, <2>5, <2>6, <2>7, <2>8, <2>9 DEF Next, Continue
<1>3. Init => MailedOK
  BY DEF Init, MailedOK
<1>4. OptInSafety <=> OptIn!OptInInit /\ [][OptIn!OptInNext]_<<row, Links>>
  BY DEF OptInSafety, OptIn!OptInSafety, OptIn!optInVars, Links
<1>5. Spec => [](TypeOK /\ Held /\ MailedOK)
  <2>1. TypeOK /\ Held /\ MailedOK /\ [Next]_vars => MailedOK'
    BY MailedStep
  <2> QED  BY <1>3, <2>1, HeldInvariant, PTL DEF Spec
<1> QED  BY <1>1, <1>2, <1>4, <1>5, PTL DEF Spec

-----------------------------------------------------------------------------
(* The answers and the table.                                              *)

\* Without dying handlers, the Subscribe that saved a row is still at work on
\* it, or its mail is out, or (gRPC) it was told so.
SavedOK ==
  faults = 0 => \A u \in Users : row[u] # NoRow =>
    \/ pc[row[u].token] \in {"mail", "compensate"}
    \/ row[u].token \in mailed
    \/ transport = "grpc" /\ reply[row[u].token] = "success"

\* Another Subscribe of the address failed, and may have undone its row.
Undone(u) ==
  \E g \in Handlers : kind[g] = "subscribe" /\ user[g] = u /\ reply[g] = "error"

\* From the save to the answer and after it, the address has a row, unless an
\* unsubscribe or such a request took it away.
KeptOK ==
  \A h \in Handlers :
    /\ kind[h] = "subscribe"
    /\ pc[h] \in {"mail", "compensate"} \/ reply[h] = "success"
    => row[user[h]] # NoRow \/ Unsubscribed(user[h]) \/ Undone(user[h])

Answered == SavedOK /\ KeptOK

\* The UPDATE of a confirmation changes one column of the row it has locked.
LEMMA ConfirmKeepsToken ==
  ASSUME TypeOK, LockOK, NEW h \in Handlers, CommitConfirm(h), NEW u \in Users
  PROVE  /\ row'[u] = NoRow <=> row[u] = NoRow
         /\ row[u] # NoRow => row'[u].token = row[u].token
         /\ row[u] # NoRow => row'[u].confirmed = (u = user[h] \/ row[u].confirmed)
<1>1. row[user[h]] \in Rows /\ user[h] \in Users
  BY LockedRow DEF CommitConfirm, Holding, TypeOK
<1>2. u # user[h] => row'[u] = row[u]
  BY DEF CommitConfirm, TypeOK
<1>3. row'[user[h]] = [row[user[h]] EXCEPT !.confirmed = TRUE]
  BY <1>1 DEF CommitConfirm, TypeOK
<1>4. row'[user[h]] = [token |-> row[user[h]].token, confirmed |-> TRUE]
  BY <1>1, <1>3 DEF Rows
<1>5. row'[user[h]] \in Rows
  BY <1>1, <1>4 DEF Rows
<1>6. row[u] # NoRow => row[u].confirmed \in BOOLEAN
  BY DEF TypeOK
<1>7. CASE u = user[h]
  <2>1. row'[u] # NoRow /\ row[u] # NoRow
    BY <1>1, <1>5, <1>7, NoRowAssumption DEF Rows
  <2>2. row'[u].token = row[u].token /\ row'[u].confirmed = TRUE
    BY <1>4, <1>7
  <2> QED  BY <1>7, <2>1, <2>2
<1>8. CASE u # user[h]
  BY <1>2, <1>6, <1>8
<1> QED  BY <1>7, <1>8

LEMMA AnsweredStep ==
  TypeOK /\ TypeOK' /\ Held /\ Answered /\ [Next]_vars => Answered'
<1> SUFFICES ASSUME TypeOK, TypeOK', Held, Answered, [Next]_vars PROVE Answered'
  OBVIOUS
<1>0. \A u \in Users : /\ Unsubscribed(u) => Unsubscribed(u)'
                       /\ Undone(u) => Undone(u)'
  BY Recorded DEF Unsubscribed, Undone
<1>r. \A u \in Users : row[u] # NoRow => row[u] \in Rows /\ row[u].token \in Handlers
  BY DEF TypeOK, Rows
<1>u. \A h \in Handlers : user[h] \in Users
  BY DEF TypeOK
<1> USE NoRowAssumption, FreeAssumption
    DEF TypeOK, Held, StageOK, LockOK, TokenOK, Holding, Goto, Answer, Ask, Start,
        req, hist, Answered, SavedOK, KeptOK
<1>1. ASSUME NEW h \in Handlers, NEW u \in Users, Subscribe(h, u) PROVE Answered'
  <2>1. /\ UNCHANGED <<row, mailed, transport, faults>>
        /\ pc[h] = "idle" /\ reply[h] = "none"
        /\ pc'[h] \in {"save", "done"} /\ reply'[h] \in {"none", "already"}
        /\ \A g \in Handlers \ {h} : UNCHANGED <<pc[g], kind[g], user[g], reply[g]>>
    BY <1>1 DEF Subscribe
  <2>t. \A v \in Users : row[v] # NoRow => row[v].token # h
    BY <2>1
  <2>2. SavedOK'
    BY <1>r, <2>1, <2>t
  <2>3. KeptOK'
    BY <1>0, <1>u, <2>1
  <2> QED  BY <2>2, <2>3
<1>2. ASSUME NEW h \in Handlers, RejectRepo(h) PROVE Answered'
  BY <1>0, <1>2 DEF RejectRepo
<1>3. ASSUME NEW h \in Handlers, SaveSubscription(h) PROVE Answered'
  <2>1. /\ UNCHANGED <<mailed, transport, faults, kind, user, reply>>
        /\ pc[h] = "save" /\ pc' = [pc EXCEPT ![h] = "mail"]
    BY <1>3 DEF SaveSubscription
  <2>s. /\ \A u \in Users : row[u] # NoRow => row'[u] = row[u]
        /\ \A u \in Users : row[u] = NoRow /\ u # user[h] => row'[u] = NoRow
        /\ row[user[h]] = NoRow => row'[user[h]].token = h
        /\ row'[user[h]] # NoRow
    <3>1. [token |-> h, confirmed |-> FALSE] # NoRow
      <4>1. [token |-> h, confirmed |-> FALSE] \in Rows
        BY DEF Rows
      <4> QED  BY <4>1 DEF Rows
    <3> QED  BY <1>3, <1>u, <3>1 DEF SaveSubscription
  <2>t. \A u \in Users : row[u] # NoRow => row[u].token # h
    BY <2>1
  <2>2. SavedOK'
    <3>1. ASSUME NEW u \in Users, row'[u] # NoRow, faults = 0
          PROVE  \/ pc'[row'[u].token] \in {"mail", "compensate"}
                 \/ row'[u].token \in mailed
                 \/ transport = "grpc" /\ reply[row'[u].token] = "success"
      <4>1. CASE row[u] = NoRow
        BY <2>1, <2>s, <3>1, <4>1
      <4>2. CASE row[u] # NoRow
        BY <1>r, <2>1, <2>s, <2>t, <3>1, <4>2
      <4> QED  BY <4>1, <4>2
    <3> QED  BY <2>1, <3>1
  <2>3. KeptOK'
    BY <1>0, <1>u, <2>1, <2>s
  <2> QED  BY <2>2, <2>3
<1>4. ASSUME NEW h \in Handlers, SendConfirmation(h) PROVE Answered'
  <2>1. /\ UNCHANGED <<row, transport, faults, kind, user>>
        /\ pc[h] = "mail" /\ mailed \subseteq mailed'
        /\ \A g \in Handlers \ {h} : UNCHANGED <<pc[g], reply[g]>>
    BY <1>4 DEF SendConfirmation
  <2>2. \/ pc'[h] = "compensate" /\ reply'[h] = reply[h]
        \/ reply'[h] = "success" /\ (h \in mailed' \/ transport = "grpc")
    BY <1>4 DEF SendConfirmation
  <2>3. ASSUME NEW u \in Users, row[u] # NoRow, faults = 0
        PROVE  \/ pc'[row[u].token] \in {"mail", "compensate"}
               \/ row[u].token \in mailed'
               \/ transport = "grpc" /\ reply'[row[u].token] = "success"
    <3>1. CASE row[u].token = h
      BY <2>2, <3>1
    <3>2. CASE row[u].token # h
      BY <1>r, <2>1, <2>3, <3>2
    <3> QED  BY <3>1, <3>2
  <2>4. KeptOK'
    BY <1>0, <1>u, <2>1, <2>2
  <2>5. SavedOK'
    BY <2>1, <2>3
  <2> QED  BY <2>4, <2>5
<1>5. ASSUME NEW h \in Handlers, DeleteUnconfirmedSubscription(h) PROVE Answered'
  <2>1. /\ pc[h] = "compensate" /\ kind[h] = "subscribe"
        /\ pc' = [pc EXCEPT ![h] = "done"]
        /\ reply' = [reply EXCEPT ![h] = "error"]
        /\ UNCHANGED <<kind, user, mailed, transport, faults>>
    BY <1>5 DEF DeleteUnconfirmedSubscription
  <2>2. \A u \in Users :
           \/ row'[u] = row[u] /\ (u = user[h] /\ row[u] # NoRow =>
                                     row[u].token # h \/ row[u].confirmed)
           \/ u = user[h] /\ row'[u] = NoRow
    BY <1>5 DEF DeleteUnconfirmedSubscription
  <2>3. SavedOK'
    BY <1>r, <2>1, <2>2
  <2>4. Undone(user[h])'
    BY <2>1 DEF Undone
  <2>5. KeptOK'
    BY <1>0, <1>u, <2>1, <2>2, <2>4
  <2> QED  BY <2>3, <2>5
<1>6. ASSUME NEW h \in Handlers, NEW t \in Handlers, NEW what, NEW next,
             LockByToken(h, t, what, next), what # "subscribe", 
             next \in Holding
      PROVE  Answered'
  <2>1. /\ UNCHANGED <<row, mailed, transport, faults>>
        /\ pc[h] = "idle" /\ reply[h] = "none" /\ kind'[h] # "subscribe"
        /\ \A g \in Handlers \ {h} : UNCHANGED <<pc[g], kind[g], user[g], reply[g]>>
    BY <1>6 DEF LockByToken
  <2>t. \A u \in Users : row[u] # NoRow => row[u].token # h
    BY <2>1
  <2>2. SavedOK'
    BY <1>r, <2>1, <2>t
  <2>3. KeptOK'
    BY <1>0, <1>u, <2>1
  <2> QED  BY <2>2, <2>3
<1>8. ASSUME NEW h \in Handlers, CountConfirmed(h) PROVE Answered'
  BY <1>0, <1>8 DEF CountConfirmed
<1>9. ASSUME NEW h \in Handlers, CommitConfirm(h) PROVE Answered'
  <2>1. /\ UNCHANGED <<mailed, transport, faults, kind, user>>
        /\ kind[h] = "confirm"
        /\ \A g \in Handlers \ {h} : UNCHANGED <<pc[g], reply[g]>>
    BY <1>9 DEF CommitConfirm
  <2>2. \A u \in Users : (row'[u] = NoRow <=> row[u] = NoRow) /\
                         (row[u] # NoRow => row'[u].token = row[u].token)
    BY <1>9, ConfirmKeepsToken
  <2>3. SavedOK'
    BY <1>r, <2>1, <2>2
  <2>4. KeptOK'
    BY <1>0, <1>u, <2>1, <2>2
  <2> QED  BY <2>3, <2>4
<1>10. ASSUME NEW h \in Handlers, RequestRepoWatchSaga(h) PROVE Answered'
  BY <1>0, <1>10 DEF RequestRepoWatchSaga
<1>11. ASSUME NEW h \in Handlers, CountRemaining(h) PROVE Answered'
  BY <1>0, <1>11 DEF CountRemaining
<1>12. ASSUME NEW h \in Handlers, CommitUnsubscribe(h) PROVE Answered'
  BY <1>0, <1>12 DEF CommitUnsubscribe, Unsubscribed
<1>13. ASSUME NEW h \in Handlers, Die(h) PROVE Answered'
  BY <1>0, <1>13 DEF Die, InFlight
<1>14. CASE UNCHANGED vars
  BY <1>0, <1>14 DEF vars
<1> HIDE DEF TypeOK, Held, Answered
<1>15. ASSUME NEW h \in Handlers, Continue(h) PROVE Answered'
  BY <1>2, <1>3, <1>4, <1>5, <1>8, <1>9, <1>10, <1>11, <1>12, <1>15 DEF Continue
<1>16. ASSUME NEW h \in Handlers, NEW t \in Handlers,
              ConfirmSubscriptionByToken(h, t) \/ Unsubscribe(h, t)
       PROVE  Answered'
  BY <1>6, <1>16 DEF ConfirmSubscriptionByToken, Unsubscribe
<1> QED  BY <1>1, <1>13, <1>14, <1>15, <1>16 DEF Next
-----------------------------------------------------------------------------
(* One request at a time.                                                  *)

AloneOK == \A g, h \in InFlight : g = h

\* What a transaction read is still so when it commits: nobody else is at work.
ReadOK ==
  \A h \in Handlers :
    /\ pc[h] \in Holding => was[h] = (user[h] \in Confirmed)
    /\ pc[h] = "confirm" => count[h] = Cardinality(Confirmed)
    /\ pc[h] = "uncommit" => count[h] = Cardinality(Confirmed \ {user[h]})

\* The last saga request follows the subscribers, but for a first confirmation
\* whose request is still to come.
WatchOK ==
  IF \E h \in Handlers : pc[h] = "request"
    THEN Confirmed # {} /\ ~Watching
    ELSE Watching <=> Confirmed # {}

SerialOK == ~overlapped /\ faults = 0 => AloneOK /\ ReadOK /\ WatchOK

LEMMA LastOfAppend ==
  ASSUME NEW S, NEW s \in Seq(S), NEW x \in S
  PROVE  Append(s, x) # <<>> /\ Last(Append(s, x)) = x
<1>1. /\ Len(Append(s, x)) = Len(s) + 1 /\ Len(s) \in Nat
      /\ Append(s, x)[Len(s) + 1] = x
  OBVIOUS
<1> QED  BY <1>1 DEF Last

LEMMA WatchingMoves ==
  ASSUME TypeOK
  PROVE  /\ sagas' = Append(sagas, "start") => Watching'
         /\ sagas' = Append(sagas, "stop") => ~Watching'
         /\ UNCHANGED sagas => (Watching' <=> Watching)
<1>1. /\ Append(sagas, "start") # <<>> /\ Last(Append(sagas, "start")) = "start"
      /\ Append(sagas, "stop") # <<>> /\ Last(Append(sagas, "stop")) = "stop"
  BY LastOfAppend DEF TypeOK
<1> QED  BY <1>1 DEF Watching

\* Which statements change who is subscribed, and how.
LEMMA ConfirmedMoves ==
  ASSUME TypeOK, Held, NEW h \in Handlers
  PROVE  /\ UNCHANGED row => Confirmed' = Confirmed
         /\ SaveSubscription(h) \/ DeleteUnconfirmedSubscription(h)
              => Confirmed' = Confirmed
         /\ CommitConfirm(h) => Confirmed' = Confirmed \union {user[h]}
         /\ CommitUnsubscribe(h) => Confirmed' = Confirmed \ {user[h]}
<1> USE NoRowAssumption DEF Confirmed
<1>1. ASSUME SaveSubscription(h) PROVE Confirmed' = Confirmed
  <2>1. [token |-> h, confirmed |-> FALSE] \in Rows
    BY DEF Rows
  <2> QED  BY <1>1, <2>1 DEF SaveSubscription, TypeOK, Rows
<1>2. ASSUME DeleteUnconfirmedSubscription(h) PROVE Confirmed' = Confirmed
  BY <1>2 DEF DeleteUnconfirmedSubscription, TypeOK
<1>3. ASSUME CommitConfirm(h) PROVE Confirmed' = Confirmed \union {user[h]}
  <2>1. user[h] \in Users /\ row[user[h]] # NoRow
    BY <1>3 DEF CommitConfirm, Held, LockOK, Holding, TypeOK
  <2> QED  BY <1>3, <2>1, ConfirmKeepsToken DEF Held
<1>4. ASSUME CommitUnsubscribe(h) PROVE Confirmed' = Confirmed \ {user[h]}
  BY <1>4 DEF CommitUnsubscribe, TypeOK
<1> QED  BY <1>1, <1>2, <1>3, <1>4

LEMMA SerialStep == TypeOK /\ TypeOK' /\ Held /\ SerialOK /\ [Next]_vars => SerialOK'
<1> SUFFICES ASSUME TypeOK, TypeOK', Held, SerialOK, [Next]_vars,
                    ~overlapped', faults' = 0
             PROVE  (AloneOK /\ ReadOK /\ WatchOK)'
  BY DEF SerialOK
<1>0. ~overlapped /\ faults = 0
  <2>1. overlapped => overlapped'
    BY DEF Next, Continue, Subscribe, ConfirmSubscriptionByToken, Unsubscribe,
           LockByToken, Start, RejectRepo, SaveSubscription, SendConfirmation,
           DeleteUnconfirmedSubscription, CountConfirmed, CommitConfirm,
           RequestRepoWatchSaga, CountRemaining, CommitUnsubscribe, Die, vars, hist
  <2>2. faults' = faults \/ faults' = faults + 1
    BY DEF Next, Continue, Subscribe, ConfirmSubscriptionByToken, Unsubscribe,
           LockByToken, Start, RejectRepo, SaveSubscription, SendConfirmation,
           DeleteUnconfirmedSubscription, CountConfirmed, CommitConfirm,
           RequestRepoWatchSaga, CountRemaining, CommitUnsubscribe, Die, vars, hist
  <2> QED  BY <2>1, <2>2 DEF TypeOK
<1>a. AloneOK /\ ReadOK /\ WatchOK
  BY <1>0 DEF SerialOK
<1>c. Confirmed \subseteq Users /\ \A S \in SUBSET Users :
        Cardinality(S) \in Nat /\ (Cardinality(S) = 0 <=> S = {})
  BY CountsAreFinite, ConfirmedUsers
<1>t. /\ pc \in [Handlers -> Stages] /\ was \in [Handlers -> BOOLEAN]
      /\ count \in [Handlers -> Nat] /\ user \in [Handlers -> Users]
  BY DEF TypeOK
<1> USE DEF InFlight, Goto, Answer, Ask, Holding, req, hist
\* A request that comes in meets nobody.
<1>1. ASSUME NEW h \in Handlers, NEW u \in Users, Subscribe(h, u)
      PROVE  (AloneOK /\ ReadOK /\ WatchOK)'
  <2>1. /\ \A g \in Handlers : pc[g] \in {"idle", "done"}
        /\ pc'[h] \in {"save", "done"}
        /\ \A g \in Handlers \ {h} : pc'[g] = pc[g]
        /\ UNCHANGED <<row, sagas>>
    BY <1>0, <1>1, <1>t DEF Subscribe, Start
  <2>2. Confirmed' = Confirmed /\ (Watching' <=> Watching)
    BY <1>1, <2>1, ConfirmedMoves, WatchingMoves
  <2> QED  BY <1>a, <2>1, <2>2 DEF AloneOK, ReadOK, WatchOK
<1>2. ASSUME NEW h \in Handlers, NEW t \in Handlers, NEW what, NEW next,
             LockByToken(h, t, what, next), next \in {"confirmcount", "uncount"}
      PROVE  (AloneOK /\ ReadOK /\ WatchOK)'
  <2>1. /\ \A g \in Handlers : pc[g] \in {"idle", "done"}
        /\ \A g \in Handlers \ {h} : pc'[g] = pc[g]
        /\ UNCHANGED <<row, sagas>>
        /\ pc'[h] \in {"confirmcount", "uncount", "done"}
    BY <1>0, <1>2, <1>t DEF LockByToken, Start
  <2>2. Confirmed' = Confirmed /\ (Watching' <=> Watching)
    BY <1>2, <2>1, ConfirmedMoves, WatchingMoves
  <2>3. pc'[h] # "done" => was'[h] = (user'[h] \in Confirmed)
    BY <1>2, <1>t DEF LockByToken, Confirmed, TypeOK
  <2> QED  BY <1>a, <2>1, <2>2, <2>3 DEF AloneOK, ReadOK, WatchOK
\* A statement that changes nobody's subscription, and no saga request.
<1>3. ASSUME NEW h \in Handlers,
             \/ RejectRepo(h) \/ SaveSubscription(h) \/ SendConfirmation(h)
             \/ DeleteUnconfirmedSubscription(h)
      PROVE  (AloneOK /\ ReadOK /\ WatchOK)'
  <2>1. /\ pc[h] \in {"save", "mail", "compensate"}
        /\ pc'[h] \in {"mail", "compensate", "done"}
        /\ \A g \in Handlers \ {h} : pc'[g] = pc[g]
        /\ UNCHANGED <<was, count, user, sagas>>
    BY <1>3, <1>t DEF RejectRepo, SaveSubscription, SendConfirmation,
                      DeleteUnconfirmedSubscription
  <2>2. Confirmed' = Confirmed
    BY <1>3, ConfirmedMoves DEF RejectRepo, SendConfirmation
  <2>3. Watching' <=> Watching
    BY <2>1, WatchingMoves
  <2> QED  BY <1>a, <2>1, <2>2, <2>3 DEF AloneOK, ReadOK, WatchOK
<1>4. ASSUME NEW h \in Handlers, CountConfirmed(h) \/ CountRemaining(h)
      PROVE  (AloneOK /\ ReadOK /\ WatchOK)'
  <2>1. /\ \/ /\ pc[h] = "confirmcount" /\ pc'[h] = "confirm"
              /\ count'[h] = Cardinality(Confirmed)
           \/ /\ pc[h] = "uncount" /\ pc'[h] = "uncommit"
              /\ count'[h] = Cardinality(Confirmed \ {user[h]})
        /\ \A g \in Handlers \ {h} : pc'[g] = pc[g] /\ count'[g] = count[g]
        /\ UNCHANGED <<was, user, row, sagas>>
    BY <1>4, <1>t DEF CountConfirmed, CountRemaining
  <2>2. Confirmed' = Confirmed /\ (Watching' <=> Watching)
    BY <1>4, <2>1, ConfirmedMoves, WatchingMoves
  <2> QED  BY <1>a, <2>1, <2>2 DEF AloneOK, ReadOK, WatchOK
<1>5. ASSUME NEW h \in Handlers, CommitConfirm(h)
      PROVE  (AloneOK /\ ReadOK /\ WatchOK)'
  <2>1. /\ pc[h] = "confirm"
        /\ pc'[h] = IF WasFirstConfirmed(h) THEN "request" ELSE "done"
        /\ \A g \in Handlers \ {h} : pc'[g] = pc[g]
        /\ UNCHANGED <<was, count, user, sagas>>
    BY <1>5, <1>t DEF CommitConfirm
  <2>2. Confirmed' = Confirmed \union {user[h]} /\ (Watching' <=> Watching)
    BY <1>5, <2>1, ConfirmedMoves, WatchingMoves
  <2>3. \A g \in Handlers \ {h} : pc[g] \in {"idle", "done"}
    BY <1>a, <2>1 DEF AloneOK
  <2>4. WasFirstConfirmed(h) <=> Confirmed = {}
    BY <1>a, <1>c, <1>t, <2>1 DEF ReadOK, WasFirstConfirmed
  <2> QED  BY <1>a, <2>1, <2>2, <2>3, <2>4 DEF AloneOK, ReadOK, WatchOK
<1>6. ASSUME NEW h \in Handlers, RequestRepoWatchSaga(h)
      PROVE  (AloneOK /\ ReadOK /\ WatchOK)'
  <2>1. /\ pc[h] = "request" /\ pc'[h] = "done"
        /\ \A g \in Handlers \ {h} : pc'[g] = pc[g]
        /\ UNCHANGED <<was, count, user, row>>
        /\ sagas' = Append(sagas, "start")
    BY <1>6, <1>t DEF RequestRepoWatchSaga
  <2>2. Confirmed' = Confirmed /\ Watching'
    BY <1>6, <2>1, ConfirmedMoves, WatchingMoves
  <2>3. \A g \in Handlers \ {h} : pc[g] \in {"idle", "done"}
    BY <1>a, <2>1 DEF AloneOK
  <2> QED  BY <1>a, <2>1, <2>2, <2>3 DEF AloneOK, ReadOK, WatchOK
<1>7. ASSUME NEW h \in Handlers, CommitUnsubscribe(h)
      PROVE  (AloneOK /\ ReadOK /\ WatchOK)'
  <2>1. /\ pc[h] = "uncommit" /\ pc'[h] = "done"
        /\ \A g \in Handlers \ {h} : pc'[g] = pc[g]
        /\ UNCHANGED <<was, count, user>>
        /\ sagas' = IF StopsWatch(h) THEN Append(sagas, "stop") ELSE sagas
    BY <1>7, <1>t DEF CommitUnsubscribe
  <2>2. Confirmed' = Confirmed \ {user[h]}
    BY <1>7, ConfirmedMoves
  <2>3. \A g \in Handlers \ {h} : pc[g] \in {"idle", "done"}
    BY <1>a, <2>1 DEF AloneOK
  <2>4. Watching <=> Confirmed # {}
    BY <1>a, <2>1, <2>3 DEF WatchOK
  <2>5. StopsWatch(h) <=> user[h] \in Confirmed /\ Confirmed \ {user[h]} = {}
    BY <1>a, <1>c, <1>t, <2>1 DEF ReadOK, StopsWatch
  <2>6. Watching' <=> Confirmed' # {}
    <3>1. CASE StopsWatch(h)
      BY <2>1, <2>2, <2>5, <3>1, WatchingMoves
    <3>2. CASE ~StopsWatch(h)
      BY <2>1, <2>2, <2>4, <2>5, <3>2, WatchingMoves
    <3> QED  BY <3>1, <3>2
  <2> QED  BY <2>1, <2>3, <2>6 DEF AloneOK, ReadOK, WatchOK
<1>8. ASSUME NEW h \in Handlers, Die(h) PROVE FALSE
  BY <1>0, <1>8 DEF Die
<1>9. CASE UNCHANGED vars
  <2>1. Confirmed' = Confirmed /\ (Watching' <=> Watching)
    BY <1>9 DEF Confirmed, Watching, vars
  <2> QED  BY <1>9, <1>a, <2>1 DEF vars, AloneOK, ReadOK, WatchOK
<1>10. ASSUME NEW h \in Handlers, Continue(h)
       PROVE  (AloneOK /\ ReadOK /\ WatchOK)'
  BY <1>3, <1>4, <1>5, <1>6, <1>7, <1>10 DEF Continue
<1>11. ASSUME NEW h \in Handlers, NEW t \in Handlers,
              ConfirmSubscriptionByToken(h, t) \/ Unsubscribe(h, t)
       PROVE  (AloneOK /\ ReadOK /\ WatchOK)'
  BY <1>2, <1>11 DEF ConfirmSubscriptionByToken, Unsubscribe
<1> QED  BY <1>1, <1>8, <1>9, <1>10, <1>11 DEF Next

-----------------------------------------------------------------------------
IInv == TypeOK /\ Held /\ Answered /\ SerialOK

THEOREM Invariant == Spec => []IInv
<1>1. Init => IInv
  <2> SUFFICES ASSUME Init PROVE Answered /\ SerialOK
    BY InitHeld DEF IInv
  <2>1. Confirmed = {} /\ InFlight = {} /\ ~Watching
    BY DEF Init, Confirmed, InFlight, Watching
  <2>2. Answered
    BY DEF Init, Answered, SavedOK, KeptOK
  <2>3. SerialOK
    BY <2>1 DEF Init, SerialOK, AloneOK, ReadOK, WatchOK, Holding
  <2> QED  BY <2>2, <2>3
<1>2. IInv /\ [Next]_vars => IInv'
  BY TypeStep, HeldStep, AnsweredStep, SerialStep DEF IInv, Held
<1> QED  BY <1>1, <1>2, PTL DEF Spec

\* No row is left that nobody can confirm, and no subscription that was
\* reported is taken away by the requests of others.
THEOREM AnswersHold == Spec => []AnswersMatchRows
<1>1. IInv => NoOrphanRow
  BY DEF IInv, TypeOK, Answered, SavedOK, NoOrphanRow, InFlight
<1>2. IInv => SuccessKeepsSubscription
  BY DEF IInv, TypeOK, Answered, KeptOK, Undone, SuccessKeepsSubscription
<1> QED  BY <1>1, <1>2, Invariant, PTL DEF AnswersMatchRows

\* ADR-005 for requests that come one at a time: once they are answered, the
\* last saga request says whether anybody is subscribed.
THEOREM SerialRequestsFollow == Spec => []SerialFollowsSubscribers
<1>1. IInv => SerialFollowsSubscribers
  BY DEF IInv, SerialOK, WatchOK, SerialFollowsSubscribers, WatchFollowsSubscribers,
         Quiet, InFlight
<1> QED  BY <1>1, Invariant, PTL
=============================================================================
