----------------------------- MODULE NoncePool ------------------------------
(***************************************************************************)
(* The pool of durable nonce accounts: its rows, leased and released by     *)
(* withdrawals, and apps/api/src/scripts/provision-nonces.ts, which an      *)
(* operator runs beside them to bring the pool up to its size.  One step    *)
(* per await of the script; a call to the chain or the signer may fail at   *)
(* each of them and ends the script.                                        *)
(***************************************************************************)
EXTENDS Integers, FiniteSets

CONSTANTS Recorded,        \* addresses that have a row when the script starts
          Generated,       \* addresses the script may generate
          Leasers,         \* withdrawals
          noncePoolSize,
          MaxProvisions    \* bound: times the script is run

ASSUME PoolAssumption ==
  IsFiniteSet(Recorded) /\ IsFiniteSet(Generated) /\ noncePoolSize \in Nat

NoLease == "none"
PoolAddresses == Recorded \cup Generated

VARIABLES nonceRows,   \* address -> [status, leasedBy]
          accountOf,   \* chain: address -> absent | sent | ours | foreign
          treasury,    \* TREASURY_ADDRESS is configured
          script,      \* the running script
          provisions   \* times it has been started

poolVars == <<nonceRows, accountOf, treasury, script, provisions>>

ScriptIdle == [at |-> "idle", existing |-> {}, usable |-> {}, foreign |-> {},
               missing |-> 0, address |-> NoLease]

PoolInit ==
  /\ treasury \in BOOLEAN
  /\ nonceRows \in [Recorded -> [status : {"available", "retired"}, leasedBy : {NoLease}]]
  /\ \E states \in [Recorded -> {"absent", "ours", "foreign"}] :
       accountOf = [a \in PoolAddresses |-> IF a \in Recorded THEN states[a] ELSE "absent"]
  /\ script = ScriptIdle
  /\ provisions = 0

-----------------------------------------------------------------------------
(* The repository.                                                           *)

\* An account already held is handed out again; else an available one, or
\* nothing.
lease(w) ==
  /\ \A a \in DOMAIN nonceRows : nonceRows[a].leasedBy # w
  /\ \E a \in DOMAIN nonceRows :
       /\ nonceRows[a].status = "available"
       /\ nonceRows' = [nonceRows EXCEPT ![a] = [status |-> "leased", leasedBy |-> w]]
  /\ UNCHANGED <<accountOf, treasury, script, provisions>>

release(w) ==
  /\ \E a \in DOMAIN nonceRows : nonceRows[a].leasedBy = w
  /\ nonceRows' = [a \in DOMAIN nonceRows |->
                     IF nonceRows[a].leasedBy = w
                     THEN [status |-> "available", leasedBy |-> NoLease]
                     ELSE nonceRows[a]]
  /\ UNCHANGED <<accountOf, treasury, script, provisions>>

create(address) ==
  nonceRows' = [a \in DOMAIN nonceRows \cup {address} |->
                  IF a = address THEN [status |-> "available", leasedBy |-> NoLease]
                  ELSE nonceRows[a]]

-----------------------------------------------------------------------------
(* The script.                                                               *)

\* The rows are listed once; everything below judges this listing.
listAll ==
  /\ script.at \in {"idle", "done", "failed"} /\ provisions < MaxProvisions
  /\ provisions' = provisions + 1
  /\ script' = [ScriptIdle EXCEPT !.at = "read",
                  !.existing = {[address |-> a, status |-> nonceRows[a].status] :
                                  a \in DOMAIN nonceRows}]
  /\ UNCHANGED <<nonceRows, accountOf, treasury>>

readNonce(a) == accountOf[a] \in {"ours", "foreign"}

\* Without a configured authority every account that exists passes for ours.
authorised(a) == readNonce(a) /\ (~treasury \/ accountOf[a] = "ours")

\* Mutation: a row is taken for an account.
classifyRows ==
  /\ script.at = "read"
  /\ \E unread \in SUBSET {e.address : e \in script.existing} :
       LET available == {e.address : e \in {x \in script.existing : x.status = "available"}}
           onChain == {e.address : e \in script.existing} \ unread
       IN  script' = [script EXCEPT !.at = "retire",
                        !.usable = available,
                        !.foreign = {a \in onChain : readNonce(a) /\ ~authorised(a)}]
  /\ UNCHANGED <<nonceRows, accountOf, treasury, provisions>>

\* Every listed address is read from the chain; a read that fails counts as
\* an account that does not exist.
classify ==
  /\ script.at = "read"
  /\ \E unread \in SUBSET {e.address : e \in script.existing} :
       LET available == {e.address : e \in {x \in script.existing : x.status = "available"}}
           onChain == {e.address : e \in script.existing} \ unread
       IN  script' = [script EXCEPT !.at = "retire",
                        !.usable = {a \in onChain \cap available : authorised(a)},
                        !.foreign = {a \in onChain : readNonce(a) /\ ~authorised(a)}]
  /\ UNCHANGED <<nonceRows, accountOf, treasury, provisions>>

\* One foreign row after the other, whatever has become of it since.
retire ==
  /\ script.at = "retire" /\ script.foreign # {}
  /\ \E a \in script.foreign :
       /\ nonceRows' = [nonceRows EXCEPT ![a].status = "retired"]
       /\ script' = [script EXCEPT !.foreign = @ \ {a}]
  /\ UNCHANGED <<accountOf, treasury, provisions>>

\* The script ends where there is nothing to add, and fails where the rent
\* has no payer.
count ==
  /\ script.at = "retire" /\ script.foreign = {}
  /\ LET missing == noncePoolSize - Cardinality(script.usable)
     IN  script' = [script EXCEPT !.missing = missing,
                      !.at = IF missing <= 0 THEN "done"
                             ELSE IF treasury THEN "sign" ELSE "failed"]
  /\ UNCHANGED <<nonceRows, accountOf, treasury, provisions>>

\* A new address; the signer signs for the payer.
signPayer ==
  /\ script.at = "sign"
  /\ \E a \in Generated :
       /\ accountOf[a] = "absent" /\ a \notin DOMAIN nonceRows
       /\ script' = [script EXCEPT !.at = "broadcast", !.address = a]
  /\ UNCHANGED <<nonceRows, accountOf, treasury, provisions>>

broadcast ==
  /\ script.at = "broadcast"
  /\ accountOf' = [accountOf EXCEPT ![script.address] = "sent"]
  /\ script' = [script EXCEPT !.at = "confirm"]
  /\ UNCHANGED <<nonceRows, treasury, provisions>>

confirmed ==
  /\ script.at = "confirm" /\ readNonce(script.address)
  /\ script' = [script EXCEPT !.at = "record"]
  /\ UNCHANGED <<nonceRows, accountOf, treasury, provisions>>

record ==
  /\ script.at = "record"
  /\ create(script.address)
  /\ script' = [script EXCEPT !.missing = @ - 1, !.address = NoLease,
                  !.at = IF script.missing = 1 THEN "done" ELSE "sign"]
  /\ UNCHANGED <<accountOf, treasury, provisions>>

\* A refused signature or broadcast, an account that does not appear, a call
\* that throws, a crash.
fail ==
  /\ script.at \notin {"idle", "done", "failed"}
  /\ script' = [ScriptIdle EXCEPT !.at = "failed"]
  /\ UNCHANGED <<nonceRows, accountOf, treasury, provisions>>

\* The network executes the transaction, whether or not the script waits.
Lands ==
  /\ \E a \in PoolAddresses :
       accountOf[a] = "sent" /\ accountOf' = [accountOf EXCEPT ![a] = "ours"]
  /\ UNCHANGED <<nonceRows, treasury, script, provisions>>

PoolNext ==
  \/ \E w \in Leasers : lease(w) \/ release(w)
  \/ listAll \/ classify \/ retire \/ count
  \/ signPayer \/ broadcast \/ confirmed \/ record \/ fail \/ Lands

PoolSpec == PoolInit /\ [][PoolNext]_poolVars

-----------------------------------------------------------------------------
\* "pool now holds N accounts": when the script reports success with a
\* treasury configured, at least noncePoolSize rows that are not retired are
\* accounts on the chain whose authority is the treasury, whatever withdrawals
\* leased, released or earlier runs left behind (provision-nonces.ts:245).
PoolHoldsTarget ==
  (script.at = "done" /\ treasury) =>
    Cardinality({a \in DOMAIN nonceRows :
                   nonceRows[a].status # "retired" /\ accountOf[a] = "ours"}) >= noncePoolSize

\* A row retired because the treasury cannot advance its account is never
\* handed out again (the comment at provision-nonces.ts:154).  The code breaks
\* this: release() of a lease taken before makes the row available again.
RetiredForGood ==
  [][\A a \in DOMAIN nonceRows :
       nonceRows[a].status = "retired" => nonceRows'[a].status = "retired"]_poolVars

=============================================================================
