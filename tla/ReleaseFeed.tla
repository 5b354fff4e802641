---------------------------- MODULE ReleaseFeed ----------------------------
(***************************************************************************)
(* What scanner-service promises to those who read its release events,     *)
(* without scan loops, caches or claims.  A tag is announced for a         *)
(* repository once, and only if it is one of that repository; a tag that   *)
(* the watchlist holds as seen has been announced.                         *)
(***************************************************************************)
EXTENDS Integers

CONSTANTS
  Repos, Tags,
  Offers,      \* repository |-> the tags it may ever have
  NoTag

VARIABLES
  announced,   \* pairs of repository and tag
  copies,      \* how many events there are of each pair
  mark         \* the tag the watchlist has for each repository

feedVars == <<announced, copies, mark>>

FeedInit ==
  /\ announced = {}
  /\ copies = [p \in Repos \X Tags |-> 0]
  /\ mark = [r \in Repos |-> NoTag]

Announce(r, t) ==
  /\ t \in Offers[r]
  /\ <<r, t>> \notin announced
  /\ announced' = announced \union {<<r, t>>}
  /\ copies' = [copies EXCEPT ![<<r, t>>] = @ + 1]
  /\ mark' \in {mark, [mark EXCEPT ![r] = t]}

\* The repository is taken off the list.
Forget(r) ==
  /\ mark' = [mark EXCEPT ![r] = NoTag]
  /\ UNCHANGED <<announced, copies>>

FeedNext ==
  \E r \in Repos : Forget(r) \/ \E t \in Tags : Announce(r, t)

FeedSafety == FeedInit /\ [][FeedNext]_feedVars
=============================================================================
