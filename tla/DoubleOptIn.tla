---------------------------- MODULE DoubleOptIn ----------------------------
(***************************************************************************)
(* What subscription-api promises to the owners of addresses, without      *)
(* requests, transactions or transports.  Whoever enters an address gets a *)
(* fresh token for it; its link goes to that address alone; only with the  *)
(* link that its entry has is an entry confirmed, or removed by its owner. *)
(* The service itself takes back only what is not confirmed.               *)
(***************************************************************************)
CONSTANTS
  Addresses, Tokens,
  Absent       \* no entry

VARIABLES
  entry,       \* address |-> Absent or its token and whether it is confirmed
  links        \* which address has been sent the link of which token

optInVars == <<entry, links>>

OptInInit ==
  /\ entry = [a \in Addresses |-> Absent]
  /\ links = {}

Enter(a, t) ==
  /\ entry[a] = Absent
  /\ \A b \in Addresses : <<b, t>> \notin links
  /\ \A b \in Addresses : entry[b] # Absent => entry[b].token # t
  /\ entry' = [entry EXCEPT ![a] = [token |-> t, confirmed |-> FALSE]]
  /\ UNCHANGED links

\* Also of a token that lost against another of the same address.
SendLink(a, t) ==
  /\ \A b \in Addresses : <<b, t>> \in links => b = a
  /\ \A b \in Addresses : entry[b] # Absent /\ entry[b].token = t => b = a
  /\ links' = links \union {<<a, t>>}
  /\ UNCHANGED entry

HasLink(a) == entry[a] # Absent /\ <<a, entry[a].token>> \in links

Confirm(a) ==
  /\ HasLink(a)
  /\ entry' = [entry EXCEPT ![a].confirmed = TRUE]
  /\ UNCHANGED links

Leave(a) ==
  /\ HasLink(a)
  /\ entry' = [entry EXCEPT ![a] = Absent]
  /\ UNCHANGED links

TakeBack(a) ==
  /\ entry[a] # Absent /\ ~entry[a].confirmed
  /\ entry' = [entry EXCEPT ![a] = Absent]
  /\ UNCHANGED links

OptInNext ==
  \E a \in Addresses :
    \/ \E t \in Tokens : Enter(a, t) \/ SendLink(a, t)
    \/ Confirm(a) \/ Leave(a) \/ TakeBack(a)

OptInSafety == OptInInit /\ [][OptInNext]_optInVars
=============================================================================
