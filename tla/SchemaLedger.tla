---------------------------- MODULE SchemaLedger ----------------------------
(***************************************************************************)
(* What pkg/migrations promises about a database: it looks as if one       *)
(* process at a time had installed one file at a time, the row and the     *)
(* statements together, each on top of all lower versions of one release   *)
(* as that release has them.                                               *)
(***************************************************************************)
EXTENDS Integers, Sequences

CONSTANTS
  Releases, Files,   \* release |-> set of [service, version, sum]
  None               \* no row

VARIABLES
  ledger,      \* <<service, version>> |-> checksum of its row, or None
  log          \* the files whose statements were executed, in order

ledgerVars == <<ledger, log>>

Name(f) == <<f.service, f.version>>
Names == {Name(f) : f \in UNION {Files[b] : b \in Releases}}

LedgerInit ==
  /\ ledger = [m \in Names |-> None]
  /\ log = <<>>

Below(b, f) == {g \in Files[b] : g.service = f.service /\ g.version < f.version}

Install(b, f) ==
  /\ ledger[Name(f)] = None
  /\ \A g \in Below(b, f) : ledger[Name(g)] = g.sum
  /\ ledger' = [ledger EXCEPT ![Name(f)] = f.sum]
  /\ log' = Append(log, f)

LedgerNext == \E b \in Releases : \E f \in Files[b] : Install(b, f)

LedgerSafety == LedgerInit /\ [][LedgerNext]_ledgerVars
=============================================================================
