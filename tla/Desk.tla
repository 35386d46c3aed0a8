--------------------------------- MODULE Desk ---------------------------------
(***************************************************************************)
(* What the services of the finance and warranty desks have in common.  A  *)
(* handler reads an entity and checks it, and saves it, and often writes   *)
(* more; each write commits by itself.  Between two of them the process    *)
(* may die, and with Serial = FALSE another request may come in.           *)
(*                                                                         *)
(* A save writes the whole entity the handler read, with its changes.      *)
(***************************************************************************)
EXTENDS Integers, FiniteSets

CONSTANTS
  Slots,           (* requests that can be under way                       *)
  Serial,          (* whether a request begins only when none is under way *)
  Staff,           (* who calls                                            *)
  None,            (* nobody, no claim, no contract                        *)
  Notes,           (* debit notes, one to a job card                       *)
  Claims,          (* warranty claims                                      *)
  Records          (* dismantling records                                  *)

ASSUME NoneAssumption   == None \notin Staff \union Notes \union Claims \union Records
ASSUME SerialAssumption == Serial \in BOOLEAN

\* A GlPosting names the kind of its source beside the source's id.
ASSUME DocumentsAssumption ==
  Notes \cap Claims = {} /\ Notes \cap Records = {} /\ Claims \cap Records = {}

VARIABLES
  subject,     (* which service this behaviour is about                    *)
  req,         (* what each slot still has to do: op, document, entity     *)
  ledger       (* GlPosting: how often a document was posted               *)

Documents == Notes \union Claims \union Records

Idle == [op |-> "idle"]

\* A slot in which a request for this service may begin.
MayBegin(s, service) ==
  /\ subject = service
  /\ req[s] = Idle
  /\ Serial => \A r \in Slots : req[r] = Idle

Pending(s, op) == req[s].op = op

Then(s, op, doc, copy) == req' = [req EXCEPT ![s] = [op |-> op, doc |-> doc, copy |-> copy]]

Done(s) == req' = [req EXCEPT ![s] = Idle]

\* One row per call: GlLedgerService looks for no earlier one.
PostToLedger(s) ==
  /\ Pending(s, "ledger")
  /\ ledger' = [ledger EXCEPT ![req[s].doc] = @ + 1]
  /\ Done(s)
  /\ UNCHANGED subject

Die(s) == req[s] # Idle /\ Done(s) /\ UNCHANGED <<subject, ledger>>
===============================================================================
