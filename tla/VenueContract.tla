---------------------------- MODULE VenueContract ----------------------------
(***************************************************************************)
(* What a venue promises the runtime about the orders it keeps, one per    *)
(* client identity (docs/ADAPTER_CONTRACT.md, parts A and C): an identity  *)
(* is admitted once, its order only gains fills while it is open, and a    *)
(* filled or cancelled order never changes again.  A venue whose book is   *)
(* volatile may forget it, but may not admit an identity a second time.    *)
(***************************************************************************)
EXTENDS Naturals

CONSTANTS
  Keys,     \* client order identities
  Size      \* the amount one order may fill, in units

ASSUME ContractConstants == Size \in Nat

VARIABLES
  book,      \* the venue's order under each key
  admitted   \* the keys ever admitted

contractVars == <<book, admitted>>

\* A filled order is filled completely; a cancelled one keeps what it had.
Order == {o \in [state : {"ABSENT", "OPEN", "FILLED", "CANCELLED"}, filled : 0..Size] :
            /\ o.state = "ABSENT" => o.filled = 0
            /\ o.state = "FILLED" => o.filled = Size}
Absent == [state |-> "ABSENT", filled |-> 0]

ContractTypeOK ==
  /\ book \in [Keys -> Order]
  /\ admitted \in SUBSET Keys

ContractInit ==
  /\ book = [k \in Keys |-> Absent]
  /\ admitted = {}

\* What the order under a key may be after a step of the venue.
Moves(k) ==
  {o \in Order :
     \/ o = book[k]
     \/ book[k].state = "ABSENT" /\ k \notin admitted /\ o.state # "ABSENT"
     \/ book[k].state = "OPEN" /\ o.state # "ABSENT" /\ o.filled >= book[k].filled}

\* One step may admit an order, fill several or cancel one on behalf of another.
Serve ==
  /\ book' \in [Keys -> Order]
  /\ \A k \in Keys : book'[k] \in Moves(k)
  /\ admitted' = admitted \cup {k \in Keys : book'[k] # Absent}

\* The process that holds a volatile book ends, perhaps with a request in hand.
Forget ==
  /\ book' = [k \in Keys |-> Absent]
  /\ admitted \subseteq admitted'

ContractNext == Serve \/ Forget

ContractSpec == ContractInit /\ [][ContractNext]_contractVars
=============================================================================
