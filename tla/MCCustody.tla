----------------------------- MODULE MCCustody ------------------------------
(***************************************************************************)
(* Custody beside the withdrawal and the deposit themselves: the comparison *)
(* of the books with the chain, the nonce pool and its script, the making   *)
(* of a key and the signing of a withdrawal, each alone.  `part` says which *)
(* of them a behaviour is about; the others rest in one initial state.      *)
(*                                                                          *)
(* One user with a unit in the vault and one in the pool, an allocation,    *)
(* one arrival, one engine event, one failed chain read, at most one loss.  *)
(* Two recorded nonce accounts, two to generate, two withdrawals.  Three    *)
(* participants, two of whom sign, three ceremonies, two nonces.            *)
(***************************************************************************)
EXTENDS Reconciliation, NoncePool, KeyCeremony, Signing, TLC

CONSTANT u

VARIABLE part

SolKey == <<"mainnet", "sol">>
OneUser == {u}
Open == [x \in Owners |-> [vault |-> 1, trading |-> 1]]
OneAllocation == <<[user |-> u, purpose |-> "allocation"]>>
OneLevel == <<1>>

Participants == <<"p1", "p2", "p3">>
Approvals ==
  [tier : DOMAIN TIER_POLICIES,
   approvedBy : UNION {[1..n -> Authorities \cup {"superuser"}] : n \in 0..3}]

-----------------------------------------------------------------------------
custodyVars == <<part, vars, poolVars, ceremonyVars, signingVars>>

\* The parts at rest start in one state each.
CustodyInit ==
  /\ part \in {"books", "nonces", "ceremony", "signing"}
  /\ Init /\ CeremonyInit
  /\ PoolInit
  /\ part # "nonces" => treasury /\ \A a \in Recorded : nonceRows[a].status = "available"
                                                      /\ accountOf[a] = "ours"
  /\ SigningInit
  /\ part # "signing" => signerKind = "mock" /\ status # "none" /\ source = TreasuryKey

BooksPart == part = "books" /\ Next
             /\ UNCHANGED <<part, poolVars, ceremonyVars, signingVars>>
NoncesPart == part = "nonces" /\ PoolNext
              /\ UNCHANGED <<part, vars, ceremonyVars, signingVars>>
CeremonyPart == part = "ceremony" /\ CeremonyNext
                /\ UNCHANGED <<part, vars, poolVars, signingVars>>
SigningPart == part = "signing" /\ SigningNext
               /\ UNCHANGED <<part, vars, poolVars, ceremonyVars>>

CustodySpec ==
  /\ CustodyInit
  /\ [][BooksPart \/ NoncesPart \/ CeremonyPart \/ SigningPart]_custodyVars

=============================================================================
