------------------------- MODULE WithdrawalsProofs -------------------------
(***************************************************************************)
(* Proofs about Withdrawals, for every number of withdrawals, workers and   *)
(* nonce accounts, every purpose and amount.  That a settlement is right     *)
(* holds under every set of faults; that nobody is paid twice, and that a    *)
(* nonce account stays with the withdrawal whose bytes use it, under the     *)
(* conditions collected in Steady.                                           *)
(***************************************************************************)
EXTENDS Withdrawals, TLAPS

\* The stages at which a worker holds a transaction's bytes.
HoldsBytes == {"read", "sign", "send", "note", "status", "nonce", "resend"}

\* What a worker holds belongs to the withdrawal it works on.
OwnWorker ==
    {s \in WorkerState :
       /\ s.at # "idle" => s.w \in W
       /\ s.at \in HoldsBytes => s.bytes \in Tx /\ s.bytes.w = s.w
       /\ s.at \in {"status", "confirm"} => s.sig \in Tx /\ s.sig.w = s.w
       /\ s.at \in {"drop", "requeue", "unlock", "unlease", "fail"} =>
            s.from \in RetryEdges}

\* The bytes and the signature in a row are the withdrawal's own.
OwnRow(w) ==
    {r \in Row :
       /\ r.bytes = NoTx \/ r.bytes.w = w
       /\ r.sig = NoTx \/ r.sig.w = w
       /\ r.status \in {"SIGNED", "BROADCAST"} => r.bytes \in Tx}

Ownership == /\ \A p \in Workers : wk[p] \in OwnWorker
             /\ \A w \in W : row[w] \in OwnRow(w)

TInv == TypeOK /\ Ownership

-----------------------------------------------------------------------------
(* Rows and worker states *)

\* No transaction is the missing one: its withdrawal exists.
LEMMA NoTxIsNone == NoTx \notin Tx
  BY Zenon, WAssumption DEF NoTx, Tx

\* A change of status keeps the rest of the row.
LEMMA ToRow ==
    ASSUME NEW w \in W, row[w] \in Row, NEW s \in Statuses
    PROVE  /\ To(w, s) \in Row
           /\ To(w, s).status = s
           /\ To(w, s).bytes = row[w].bytes
           /\ To(w, s).sig = row[w].sig
  BY Zenon DEF To, Row

\* A failure changes the status and one attempt counter.
LEMMA FailedRow ==
    ASSUME NEW w \in W, row[w] \in Row, NEW s \in Statuses,
           NEW edge \in {"sign", "broadcast", "expiry"}
    PROVE  /\ Failed(w, s, edge) \in Row
           /\ Failed(w, s, edge).status = s
           /\ Failed(w, s, edge).bytes = row[w].bytes
           /\ Failed(w, s, edge).sig = row[w].sig
  <1> DEFINE r == To(w, s)
  <1>1. /\ r \in Row /\ r.status = s
        /\ r.bytes = row[w].bytes /\ r.sig = row[w].sig
    BY Zenon, ToRow
  <1> HIDE DEF r
  <1>2. CASE edge = "sign"
    <2>1. Failed(w, s, edge) = [r EXCEPT !.sign = @ + 1]
      BY Zenon, <1>2 DEF Failed, r
    <2> QED
      BY <1>1, <2>1 DEF Row
  <1>3. CASE edge = "broadcast"
    <2>1. Failed(w, s, edge) = [r EXCEPT !.broadcast = @ + 1]
      BY Zenon, <1>3 DEF Failed, r
    <2> QED
      BY <1>1, <2>1 DEF Row
  <1>4. CASE edge = "expiry"
    <2>1. Failed(w, s, edge) = [r EXCEPT !.expiry = @ + 1]
      BY Zenon, <1>4 DEF Failed, r
    <2> QED
      BY <1>1, <2>1 DEF Row
  <1> QED
    BY Zenon, <1>2, <1>3, <1>4

\* A row replaced by one of its withdrawal's rows.
LEMMA RowReplaced ==
    ASSUME TInv, NEW w \in W, NEW new \in OwnRow(w),
           row' = [row EXCEPT ![w] = new] \/ row' = row
    PROVE  row' \in [W -> Row] /\ \A v \in W : row'[v] \in OwnRow(v)
  <1>1. new \in Row /\ row \in [W -> Row]
    BY Zenon DEF OwnRow, TInv, TypeOK
  <1> QED
    BY Zenon, <1>1 DEF TInv, Ownership

\* A guarded transition to one of the withdrawal's rows.
LEMMA RowMoved ==
    ASSUME TInv, NEW w \in W, NEW from, NEW new \in OwnRow(w),
           Transition(w, from, new)
    PROVE  row' \in [W -> Row] /\ \A v \in W : row'[v] \in OwnRow(v)
  BY Zenon, RowReplaced DEF Transition

\* A worker that moves to a state of its own.
LEMMA WorkerMoved ==
    ASSUME TInv, NEW p \in Workers, NEW s \in OwnWorker,
           wk' = [wk EXCEPT ![p] = s]
    PROVE  wk' \in [Workers -> WorkerState] /\ \A q \in Workers : wk'[q] \in OwnWorker
  <1>1. s \in WorkerState /\ wk \in [Workers -> WorkerState]
    BY Zenon DEF OwnWorker, TInv, TypeOK
  <1> QED
    BY Zenon, <1>1 DEF TInv, Ownership

\* A worker with nothing to do.
LEMMA IdleOwn == IdleWorker \in OwnWorker
  BY Zenon DEF IdleWorker, OwnWorker, WorkerState, Stages, Statuses, HoldsBytes

\* A worker that finishes.
LEMMA DoneOwn ==
    ASSUME TInv, NEW p \in Workers, Done(p)
    PROVE  wk' \in [Workers -> WorkerState] /\ \A q \in Workers : wk'[q] \in OwnWorker
  BY Zenon, WorkerMoved, IdleOwn DEF Done

\* A worker that goes on to another stage with what it holds.
LEMMA GotoOwn ==
    ASSUME TInv, NEW p \in Workers, NEW at \in Stages, Goto(p, at),
           wk[p].at # "idle",
           at \in HoldsBytes => wk[p].at \in HoldsBytes,
           at = "confirm" => wk[p].at = "status",
           at # "status",
           at \in {"drop", "requeue", "unlock", "unlease", "fail"} =>
             wk[p].at \in {"drop", "requeue", "unlock", "unlease", "fail"}
    PROVE  wk' \in [Workers -> WorkerState] /\ \A q \in Workers : wk'[q] \in OwnWorker
  <1> DEFINE s == [wk[p] EXCEPT !.at = at]
  <1>1. wk[p] \in OwnWorker /\ wk[p] \in WorkerState
    BY Zenon DEF TInv, Ownership, OwnWorker
  <1>2. /\ s \in WorkerState
        /\ s.at = at /\ s.w = wk[p].w /\ s.from = wk[p].from
        /\ s.bytes = wk[p].bytes /\ s.sig = wk[p].sig
    BY Zenon, <1>1 DEF WorkerState
  <1>3. s \in OwnWorker
    BY Zenon, <1>1, <1>2 DEF OwnWorker
  <1>4. wk' = [wk EXCEPT ![p] = s]
    BY Zenon DEF Goto, TInv, TypeOK
  <1> HIDE DEF s
  <1> QED
    BY Zenon, <1>3, <1>4, WorkerMoved

\* The first state.
LEMMA TypeInit == Init => TInv
  <1> SUFFICES ASSUME Init PROVE TInv
    BY Zenon
  <1>1. \A w \in W : Absent \in OwnRow(w)
    BY Zenon DEF Absent, OwnRow, Row, Statuses
  <1>2. IdleWorker \in WorkerState
    BY Zenon, IdleOwn DEF OwnWorker
  <1>3. TypeOK
    <2>1. row \in [W -> Row] /\ wk \in [Workers -> WorkerState]
      BY Zenon, <1>1, <1>2 DEF Init, OwnRow
    <2>2. bal \in [LedgerAccounts -> Int] /\ held \in [Holders -> Int]
      BY FundsAssumption DEF Init
    <2> QED
      BY Zenon, <2>1, <2>2 DEF Init, TypeOK
  <1>4. Ownership
    BY Zenon, <1>1, IdleOwn DEF Init, Ownership
  <1> QED
    BY Zenon, <1>3, <1>4 DEF TInv

-----------------------------------------------------------------------------
(* Every step keeps the types and the ownership *)

\* Steps of a handler, an operator or a dying handler.
LEMMA TypeHandler ==
    ASSUME TInv, NEW w \in W,
           Create(w) \/ Handler(w) \/ Operator(w) \/ HandlerDies(w)
    PROVE  TInv'
  <1> DEFINE Fixed == UNCHANGED <<lease, settled, released, wk, chainVars>>
  <1>1. row[w] \in OwnRow(w) /\ row[w] \in Row
    BY Zenon DEF TInv, Ownership, OwnRow
  <1>2. \A s \in Statuses \ {"SIGNED", "BROADCAST"} : To(w, s) \in OwnRow(w)
    BY Zenon, <1>1, ToRow DEF OwnRow
  <1>3. ASSUME NEW s \in Statuses \ {"SIGNED", "BROADCAST"},
               row' = [row EXCEPT ![w] = To(w, s)] \/ row' = row
        PROVE  row' \in [W -> Row] /\ \A v \in W : row'[v] \in OwnRow(v)
    BY Zenon, <1>2, <1>3, RowReplaced
  <1>4. handler' \in [W -> BOOLEAN]
    BY Zenon DEF TInv, TypeOK, Create, Handler, Operator, HandlerDies, Evaluate,
           Decide, LockFunds, Approve, Reject
  <1>5. bal' \in [LedgerAccounts -> Int]
    <2>1. CASE LockFunds(w)
      <3>1. Amount[w] \in Int
        BY AmountAssumption
      <3> QED
        BY <2>1, <3>1 DEF LockFunds, Move, TInv, TypeOK
    <2> QED
      BY Zenon, <2>1 DEF TInv, TypeOK, Create, Handler, Operator, HandlerDies,
                  Evaluate, Decide, Approve, Reject
  <1>6. row' \in [W -> Row] /\ \A v \in W : row'[v] \in OwnRow(v)
    <2>1. CASE Create(w)
      BY Zenon, <2>1, <1>3 DEF Create, Statuses
    <2>2. CASE Evaluate(w)
      BY Zenon, <2>2, <1>3 DEF Evaluate, Statuses
    <2>3. CASE Decide(w)
      BY Zenon, <2>3, <1>3 DEF Decide, Statuses
    <2>4. CASE LockFunds(w)
      BY Zenon, <2>4, <1>3 DEF LockFunds, Statuses
    <2>5. CASE Approve(w)
      BY Zenon, <2>5, <1>3 DEF Approve, Statuses
    <2>6. CASE Reject(w)
      BY Zenon, <2>6, <1>3 DEF Reject, Statuses
    <2>7. CASE HandlerDies(w)
      BY Zenon, <2>7 DEF HandlerDies, TInv, TypeOK, Ownership
    <2> QED
      BY Zenon, <2>1, <2>2, <2>3, <2>4, <2>5, <2>6, <2>7 DEF Handler, Operator
  <1>7. Fixed
    BY Zenon DEF Create, Handler, Operator, HandlerDies, Evaluate, Decide,
           LockFunds, Approve, Reject
  <1> QED
    BY Zenon, <1>4, <1>5, <1>6, <1>7 DEF TInv, TypeOK, Ownership, chainVars

\* A worker that changes rows, leases or postings, or only its own state.
LEMMA TypeAssemble ==
    ASSUME TInv,
           row' \in [W -> Row] /\ \A v \in W : row'[v] \in OwnRow(v),
           wk' \in [Workers -> WorkerState] /\ \A q \in Workers : wk'[q] \in OwnWorker,
           lease' \in [Accounts -> W \cup {0}],
           bal' \in [LedgerAccounts -> Int],
           settled' \in [W -> Nat], released' \in [W -> Nat],
           mempool' \subseteq Tx,
           UNCHANGED <<handler, nonce, finalNonce, landed, reverted, held>>
    PROVE  TInv'
  BY Zenon DEF TInv, TypeOK, Ownership

\* A worker that writes a row and finishes.
LEMMA TypeMoveDone ==
    ASSUME TInv, NEW p \in Workers, NEW w \in W, NEW from, NEW new \in OwnRow(w),
           Transition(w, from, new), Done(p),
           UNCHANGED <<handler, lease, bal, settled, released, chainVars>>
    PROVE  TInv'
  <1>1. row' \in [W -> Row] /\ \A v \in W : row'[v] \in OwnRow(v)
    BY Zenon, RowMoved
  <1>2. wk' \in [Workers -> WorkerState] /\ \A q \in Workers : wk'[q] \in OwnWorker
    BY Zenon, DoneOwn
  <1> QED
    BY Zenon, <1>1, <1>2, TypeAssemble DEF TInv, TypeOK, chainVars

\* A worker that only goes on to another stage, or finishes.
LEMMA TypeWorkerOnly ==
    ASSUME TInv,
           wk' \in [Workers -> WorkerState] /\ \A q \in Workers : wk'[q] \in OwnWorker,
           UNCHANGED <<dbVars, chainVars>>
    PROVE  TInv'
  BY Zenon, TypeAssemble DEF TInv, TypeOK, Ownership, dbVars, chainVars

\* Failing rows are rows of the withdrawal.
LEMMA OwnFailures ==
    ASSUME TInv, NEW w \in W
    PROVE  /\ row[w] \in OwnRow(w) /\ row[w] \in Row
           /\ \A s \in Statuses \ {"SIGNED", "BROADCAST"} : To(w, s) \in OwnRow(w)
           /\ \A s \in {"SIGN_FAILED", "BROADCAST_FAILED", "EXPIRED"} :
                \A edge \in {"sign", "broadcast", "expiry"} :
                  Failed(w, s, edge) \in OwnRow(w)
  <1>1. row[w] \in OwnRow(w) /\ row[w] \in Row
    BY Zenon DEF TInv, Ownership, OwnRow
  <1>2. \A s \in Statuses \ {"SIGNED", "BROADCAST"} : To(w, s) \in OwnRow(w)
    BY Zenon, <1>1, ToRow DEF OwnRow
  <1>3. ASSUME NEW s \in {"SIGN_FAILED", "BROADCAST_FAILED", "EXPIRED"},
               NEW edge \in {"sign", "broadcast", "expiry"}
        PROVE  Failed(w, s, edge) \in OwnRow(w)
    <2>1. s \in Statuses
      BY Zenon DEF Statuses
    <2> QED
      BY <1>1, <2>1, FailedRow DEF OwnRow
  <1> QED
    BY Zenon, <1>1, <1>2, <1>3

\* The record a worker lists or claims is the withdrawal's own.
LEMMA TypePick ==
    ASSUME TInv, NEW p \in Workers, NEW w \in W, Pick(p, w)
    PROVE  TInv'
  <1>1. /\ row[w] \in OwnRow(w) /\ row[w] \in Row
        /\ \A s \in Statuses \ {"SIGNED", "BROADCAST"} : To(w, s) \in OwnRow(w)
    BY Zenon, OwnFailures
  <1>2. row[w].bytes \in Tx \cup {NoTx} /\ row[w].sig \in Tx \cup {NoTx}
        /\ row[w].status \in Statuses
    BY Zenon, <1>1 DEF Row
  <1>3. CASE ClaimSigning(p, w)
    <2> DEFINE s == [IdleWorker EXCEPT !.at = "lease", !.w = w]
    <2>1. s \in OwnWorker
      BY Zenon DEF IdleWorker, OwnWorker, WorkerState, Stages, Statuses, HoldsBytes
    <2>2. wk' \in [Workers -> WorkerState] /\ \A q \in Workers : wk'[q] \in OwnWorker
      BY Zenon, <1>3, <2>1, WorkerMoved DEF ClaimSigning
    <2>3. row' \in [W -> Row] /\ \A v \in W : row'[v] \in OwnRow(v)
      BY Zenon, <1>1, <1>3, RowReplaced DEF ClaimSigning, Statuses
    <2> QED
      BY Zenon, <1>3, <2>2, <2>3, TypeAssemble DEF ClaimSigning, TInv, TypeOK, chainVars
  <1>4. CASE ClaimBroadcast(p, w)
    <2> DEFINE s == [IdleWorker EXCEPT !.at = "send", !.w = w,
                                       !.bytes = row[w].bytes]
    <2>1. row[w].bytes \in Tx /\ row[w].bytes.w = w
      BY Zenon, <1>1, <1>4, NoTxIsNone DEF ClaimBroadcast, Oldest, OwnRow
    <2>2. s \in OwnWorker
      BY Zenon, <2>1 DEF IdleWorker, OwnWorker, WorkerState, Stages, Statuses, HoldsBytes
    <2>3. wk' \in [Workers -> WorkerState] /\ \A q \in Workers : wk'[q] \in OwnWorker
      BY Zenon, <1>4, <2>2, WorkerMoved DEF ClaimBroadcast
    <2>4. To(w, "BROADCAST") \in OwnRow(w)
      BY Zenon, <1>1, <2>1, ToRow DEF OwnRow, Statuses
    <2>5. row' \in [W -> Row] /\ \A v \in W : row'[v] \in OwnRow(v)
      BY Zenon, <1>4, <2>4, RowReplaced DEF ClaimBroadcast
    <2> QED
      BY Zenon, <1>4, <2>3, <2>5, TypeAssemble DEF ClaimBroadcast, TInv, TypeOK, chainVars
  <1>5. CASE ListBroadcast(p, w)
    <2> DEFINE at == IF row[w].sig = NoTx THEN "nonce" ELSE "status"
               s == [at |-> at, w |-> w, from |-> "BROADCAST",
                     bytes |-> row[w].bytes, sig |-> row[w].sig]
    <2>1. row[w].bytes \in Tx /\ row[w].bytes.w = w
      BY Zenon, <1>1, <1>5, NoTxIsNone DEF ListBroadcast, OwnRow
    <2>2. row[w].sig # NoTx => row[w].sig \in Tx /\ row[w].sig.w = w
      BY Zenon, <1>1, <1>2 DEF OwnRow
    <2>3. s \in WorkerState
      BY Zenon, <1>2 DEF WorkerState, Stages, Statuses
    <2>4. s \in OwnWorker
      BY Zenon, <2>1, <2>2, <2>3 DEF OwnWorker
    <2>5. wk' = [wk EXCEPT ![p] = s]
      BY Zenon, <1>5 DEF ListBroadcast
    <2> QED
      BY Zenon, <1>5, <2>4, <2>5, WorkerMoved, TypeWorkerOnly DEF ListBroadcast
  <1>6. CASE ListRetry(p, w)
    <2> DEFINE at == IF Used(row[w]) >= Budget(row[w].status) THEN "unlock"
                     ELSE IF row[w].status = "EXPIRED" THEN "drop"
                     ELSE "requeue"
               s == [at |-> at, w |-> w, from |-> row[w].status,
                     bytes |-> row[w].bytes, sig |-> row[w].sig]
    <2>1. at \in {"unlock", "drop", "requeue"}
      BY Zenon
    <2>2. wk' = [wk EXCEPT ![p] = s]
      BY Zenon, <1>6 DEF ListRetry
    <2>3. row[w].status \in RetryEdges
      BY Zenon, <1>6 DEF ListRetry
    <2> HIDE DEF at
    <2>4. s \in WorkerState
      BY Zenon, <1>2, <2>1 DEF WorkerState, Stages
    <2>5. s \in OwnWorker
      BY Zenon, <2>1, <2>3, <2>4 DEF OwnWorker, HoldsBytes
    <2> QED
      BY Zenon, <1>6, <2>2, <2>5, WorkerMoved, TypeWorkerOnly DEF ListRetry
  <1> QED
    BY Zenon, <1>3, <1>4, <1>5, <1>6 DEF Pick

\* What a working worker holds.
LEMMA AtWork ==
    ASSUME TInv, NEW p \in Workers, wk[p].at # "idle"
    PROVE  /\ wk[p] \in OwnWorker /\ wk[p] \in WorkerState
           /\ wk[p].w \in W
           /\ wk[p].at \in HoldsBytes =>
                wk[p].bytes \in Tx /\ wk[p].bytes.w = wk[p].w
           /\ wk[p].bytes \in Tx \cup {NoTx} /\ wk[p].sig \in Tx \cup {NoTx}
  BY Zenon DEF TInv, Ownership, OwnWorker, WorkerState

\* The signing worker.
LEMMA TypeSign ==
    ASSUME TInv, NEW p \in Workers,
           Lease(p) \/ ReadNonce(p) \/ StoreSigned(p) \/ SigningFails(p)
    PROVE  TInv'
  <1> DEFINE w == wk[p].w
  <1>1. wk[p].at # "idle"
    BY Zenon DEF Lease, ReadNonce, StoreSigned, SigningFails, At
  <1>2. /\ wk[p] \in OwnWorker /\ wk[p] \in WorkerState /\ w \in W
        /\ wk[p].at \in HoldsBytes => wk[p].bytes \in Tx /\ wk[p].bytes.w = w
    BY Zenon, <1>1, AtWork
  <1>3. /\ row[w] \in OwnRow(w) /\ row[w] \in Row
        /\ \A s \in Statuses \ {"SIGNED", "BROADCAST"} : To(w, s) \in OwnRow(w)
        /\ Failed(w, "SIGN_FAILED", "sign") \in OwnRow(w)
    BY Zenon, <1>2, OwnFailures
  <1>4. CASE Lease(p)
    <2>1. CASE \E a \in Accounts :
                 /\ lease' = [lease EXCEPT ![a] = w]
                 /\ wk' = [wk EXCEPT ![p].at = "read",
                                     ![p].bytes = [w |-> w, a |-> a, n |-> 0]]
                 /\ UNCHANGED row
      <3>1. PICK a \in Accounts :
                 /\ lease' = [lease EXCEPT ![a] = w]
                 /\ wk' = [wk EXCEPT ![p].at = "read",
                                     ![p].bytes = [w |-> w, a |-> a, n |-> 0]]
                 /\ UNCHANGED row
        BY Zenon, <2>1
      <3> DEFINE t == [w |-> w, a |-> a, n |-> 0]
                 s == [wk[p] EXCEPT !.at = "read", !.bytes = t]
      <3>2. t \in Tx /\ t.w = w
        BY Zenon, <1>2 DEF Tx
      <3>3. wk' = [wk EXCEPT ![p] = s]
        BY Zenon, <3>1 DEF TInv, TypeOK
      <3> HIDE DEF t
      <3>4. /\ s \in WorkerState /\ s.at = "read" /\ s.w = w /\ s.bytes = t
        BY Zenon, <1>2, <3>2 DEF WorkerState, Stages
      <3> HIDE DEF s
      <3>5. s \in OwnWorker
        BY Zenon, <1>2, <3>2, <3>4 DEF OwnWorker
      <3>6. wk' \in [Workers -> WorkerState] /\ \A q \in Workers : wk'[q] \in OwnWorker
        BY Zenon, <3>3, <3>5, WorkerMoved
      <3>7. lease' \in [Accounts -> W \cup {0}]
        BY Zenon, <1>2, <3>1 DEF TInv, TypeOK
      <3>8. UNCHANGED <<row, handler, bal, settled, released, chainVars>>
        BY Zenon, <1>4, <3>1 DEF Lease
      <3> QED
        BY Zenon, <3>6, <3>7, <3>8, TypeAssemble DEF TInv, TypeOK, Ownership, chainVars
    <2>2. CASE /\ Transition(w, "SIGNING", To(w, "SIGN_FAILED"))
               /\ Done(p)
               /\ UNCHANGED lease
      <3>1. UNCHANGED <<handler, lease, bal, settled, released, chainVars>>
        BY Zenon, <1>4, <2>2 DEF Lease
      <3>2. To(w, "SIGN_FAILED") \in OwnRow(w)
        BY Zenon, <1>3 DEF Statuses
      <3> QED
        BY Zenon, <1>2, <2>2, <3>1, <3>2, TypeMoveDone
    <2> QED
      BY Zenon, <1>4, <2>1, <2>2 DEF Lease, HeldBy
  <1>5. CASE ReadNonce(p)
    <2> DEFINE t == [wk[p].bytes EXCEPT !.n = finalNonce[wk[p].bytes.a]]
               s == [wk[p] EXCEPT !.at = "sign", !.bytes = t]
    <2>1. wk[p].bytes \in Tx /\ wk[p].bytes.w = w
      BY Zenon, <1>2, <1>5 DEF ReadNonce, At, HoldsBytes
    <2>2. t \in Tx /\ t.w = w
      BY Zenon, <2>1 DEF Tx, TInv, TypeOK
    <2>3. wk' = [wk EXCEPT ![p] = s]
      BY Zenon, <1>2, <1>5 DEF ReadNonce, TInv, TypeOK, WorkerState
    <2> HIDE DEF t
    <2>4. /\ s \in WorkerState /\ s.at = "sign" /\ s.w = w /\ s.bytes = t
      BY Zenon, <1>2, <2>2 DEF WorkerState, Stages
    <2> HIDE DEF s
    <2>5. s \in OwnWorker
      BY Zenon, <1>2, <2>2, <2>4 DEF OwnWorker
    <2> QED
      BY Zenon, <1>5, <2>3, <2>5, WorkerMoved, TypeWorkerOnly DEF ReadNonce
  <1>6. CASE StoreSigned(p)
    <2> DEFINE r == [To(w, "SIGNED") EXCEPT !.bytes = wk[p].bytes]
    <2>1. wk[p].bytes \in Tx /\ wk[p].bytes.w = w
      BY Zenon, <1>2, <1>6 DEF StoreSigned, At, HoldsBytes
    <2>2. /\ To(w, "SIGNED") \in Row
          /\ To(w, "SIGNED").sig = row[w].sig
      BY Zenon, <1>2, <1>3, ToRow DEF Statuses
    <2>3. r \in Row /\ r.bytes = wk[p].bytes /\ r.sig = row[w].sig
      BY Zenon, <2>1, <2>2 DEF Row
    <2>4. Transition(w, "SIGNING", r)
      BY Zenon, <1>6 DEF StoreSigned
    <2> HIDE DEF r
    <2>5. r \in OwnRow(w)
      BY Zenon, <1>3, <2>1, <2>3 DEF OwnRow
    <2> QED
      BY Zenon, <1>2, <1>6, <2>4, <2>5, TypeMoveDone DEF StoreSigned
  <1>7. CASE SigningFails(p)
    BY Zenon, <1>2, <1>3, <1>7, TypeMoveDone DEF SigningFails
  <1> QED
    BY Zenon, <1>4, <1>5, <1>6, <1>7

\* The broadcast worker.
LEMMA TypeBroadcast ==
    ASSUME TInv, NEW p \in Workers,
           \/ Broadcast(p) \/ NoteSignature(p)
           \/ BroadcastRefused(p) \/ BroadcastSpent(p)
    PROVE  TInv'
  <1> DEFINE w == wk[p].w
  <1>1. wk[p].at # "idle"
    BY Zenon DEF Broadcast, NoteSignature, BroadcastRefused, BroadcastSpent, At
  <1>2. /\ wk[p] \in OwnWorker /\ wk[p] \in WorkerState /\ w \in W
        /\ wk[p].at \in HoldsBytes => wk[p].bytes \in Tx /\ wk[p].bytes.w = w
    BY Zenon, <1>1, AtWork
  <1>3. /\ row[w] \in OwnRow(w) /\ row[w] \in Row
        /\ Failed(w, "BROADCAST_FAILED", "broadcast") \in OwnRow(w)
        /\ Failed(w, "EXPIRED", "expiry") \in OwnRow(w)
    BY Zenon, <1>2, OwnFailures
  <1>4. CASE Broadcast(p)
    <2>1. wk[p].at = "send" /\ wk[p].bytes \in Tx
      BY Zenon, <1>2, <1>4 DEF Broadcast, At, HoldsBytes
    <2>2. mempool' \subseteq Tx
      BY Zenon, <1>4, <2>1 DEF Broadcast, Submitted, TInv, TypeOK
    <2>3. \E at \in {"note", "refused", "spent"} : Goto(p, at)
      BY Zenon, <1>4 DEF Broadcast
    <2>4. wk' \in [Workers -> WorkerState] /\ \A q \in Workers : wk'[q] \in OwnWorker
      BY Zenon, <1>2, <2>1, <2>3, GotoOwn DEF Stages, HoldsBytes
    <2>5. UNCHANGED <<dbVars, nonce, finalNonce, landed, reverted, held>>
      BY Zenon, <1>4 DEF Broadcast
    <2> QED
      BY Zenon, <2>2, <2>4, <2>5, TypeAssemble DEF TInv, TypeOK, Ownership, dbVars
  <1>5. CASE NoteSignature(p)
    <2> DEFINE r == [row[w] EXCEPT !.sig = wk[p].bytes]
    <2>1. wk[p].bytes \in Tx /\ wk[p].bytes.w = w
      BY Zenon, <1>2, <1>5 DEF NoteSignature, At, HoldsBytes
    <2>2. /\ r \in Row /\ r.sig = wk[p].bytes
          /\ r.bytes = row[w].bytes /\ r.status = row[w].status
      BY Zenon, <1>3, <2>1 DEF Row
    <2>3. row' = [row EXCEPT ![w] = r]
      BY Zenon, <1>5 DEF NoteSignature, TInv, TypeOK
    <2> HIDE DEF r
    <2>4. r \in OwnRow(w)
      BY Zenon, <1>3, <2>1, <2>2 DEF OwnRow
    <2>5. row' \in [W -> Row] /\ \A v \in W : row'[v] \in OwnRow(v)
      BY Zenon, <1>2, <2>3, <2>4, RowReplaced
    <2>6. wk' \in [Workers -> WorkerState] /\ \A q \in Workers : wk'[q] \in OwnWorker
      BY Zenon, <1>5, DoneOwn DEF NoteSignature
    <2> QED
      BY Zenon, <1>5, <2>5, <2>6, TypeAssemble DEF NoteSignature, TInv, TypeOK, chainVars
  <1>6. CASE BroadcastRefused(p)
    BY Zenon, <1>2, <1>3, <1>6, TypeMoveDone DEF BroadcastRefused
  <1>7. CASE BroadcastSpent(p)
    BY Zenon, <1>2, <1>3, <1>7, TypeMoveDone DEF BroadcastSpent
  <1> QED
    BY Zenon, <1>4, <1>5, <1>6, <1>7

\* Giving a lease back.
LEMMA UnleasedType ==
    ASSUME TInv, NEW w
    PROVE  Unleased(w) \in [Accounts -> W \cup {0}]
  BY Zenon DEF Unleased, TInv, TypeOK

\* Postings keep the balances integers.
LEMMA PostingTypes ==
    ASSUME TInv, NEW w \in W
    PROVE  /\ SettledBalances(w) \in [LedgerAccounts -> Int]
           /\ Move(LockedIn(w), Available(w), Amount[w]) \in [LedgerAccounts -> Int]
  <1>1. Amount[w] \in Int
    BY AmountAssumption
  <1>2. /\ LockedIn(w) \in LedgerAccounts /\ Available(w) \in LedgerAccounts
        /\ \A x \in {"custody_locked", "trading_available", "trading_locked",
                     "custody_available"} : x \in LedgerAccounts
    BY Zenon DEF LockedIn, Available, LedgerAccounts
  <1>3. bal \in [LedgerAccounts -> Int]
    BY Zenon DEF TInv, TypeOK
  <1>4. ASSUME NEW x \in LedgerAccounts, NEW y \in LedgerAccounts
        PROVE  Move(x, y, Amount[w]) \in [LedgerAccounts -> Int]
    BY <1>1, <1>3 DEF Move
  <1>5. [bal EXCEPT !["custody_locked"] = @ - Amount[w]] \in [LedgerAccounts -> Int]
    BY <1>1, <1>2, <1>3
  <1>6. SettledBalances(w) \in [LedgerAccounts -> Int]
    BY Zenon, <1>2, <1>4, <1>5 DEF SettledBalances
  <1> QED
    BY Zenon, <1>2, <1>4, <1>6

\* The confirmation worker.
LEMMA TypeConfirm ==
    ASSUME TInv, NEW p \in Workers,
           \/ ReadStatus(p) \/ Reverted(p) \/ Confirm(p) \/ Settle(p)
           \/ ReadAdvanced(p) \/ Rebroadcast(p) \/ Expire(p)
           \/ ReadFails(p) \/ WorkerDies(p)
    PROVE  TInv'
  <1> DEFINE w == wk[p].w
  <1>1. wk[p].at # "idle"
    BY Zenon DEF ReadStatus, Reverted, Confirm, Settle, ReadAdvanced, Rebroadcast,
           Expire, ReadFails, WorkerDies, At
  <1>2. /\ wk[p] \in OwnWorker /\ wk[p] \in WorkerState /\ w \in W
        /\ wk[p].at \in HoldsBytes => wk[p].bytes \in Tx /\ wk[p].bytes.w = w
    BY Zenon, <1>1, AtWork
  <1>3. /\ row[w] \in OwnRow(w) /\ row[w] \in Row
        /\ \A s \in Statuses \ {"SIGNED", "BROADCAST"} : To(w, s) \in OwnRow(w)
        /\ Failed(w, "BROADCAST_FAILED", "broadcast") \in OwnRow(w)
        /\ Failed(w, "EXPIRED", "expiry") \in OwnRow(w)
    BY Zenon, <1>2, OwnFailures
  <1>4. CASE ReadStatus(p)
    <2>1. \E at \in {"confirm", "reverted", "nonce"} : Goto(p, at)
      BY Zenon, <1>4 DEF ReadStatus
    <2>2. wk[p].at = "status"
      BY SMTT(30), <1>4 DEF ReadStatus, At
    <2> QED
      BY Zenon, <1>1, <1>4, <2>1, <2>2, GotoOwn, TypeWorkerOnly DEF ReadStatus, Stages, HoldsBytes
  <1>5. CASE Reverted(p)
    BY Zenon, <1>2, <1>3, <1>5, TypeMoveDone DEF Reverted
  <1>6. CASE Confirm(p)
    <2>1. wk[p].at = "confirm"
      BY Zenon, <1>6 DEF Confirm, At
    <2>2. Goto(p, "settle") \/ Done(p)
      BY Zenon, <1>6 DEF Confirm
    <2>3. wk' \in [Workers -> WorkerState] /\ \A q \in Workers : wk'[q] \in OwnWorker
      <3>1. CASE Goto(p, "settle")
        BY Zenon, <1>1, <2>1, <3>1, GotoOwn DEF Stages, HoldsBytes
      <3> QED
        BY Zenon, <2>2, <3>1, DoneOwn
    <2>4. row' \in [W -> Row] /\ \A v \in W : row'[v] \in OwnRow(v)
      BY Zenon, <1>2, <1>3, <1>6, RowMoved DEF Confirm, Statuses
    <2> QED
      BY Zenon, <1>6, <2>3, <2>4, TypeAssemble DEF Confirm, TInv, TypeOK, chainVars
  <1>7. CASE Settle(p)
    <2>7. Done(p) /\ UNCHANGED <<handler, released, chainVars>>
      BY Zenon, <1>7 DEF Settle
    <2>8. \/ /\ bal' = SettledBalances(w)
             /\ settled' = [settled EXCEPT ![w] = @ + 1]
             /\ Transition(w, "CONFIRMED", To(w, "SETTLED"))
             /\ lease' = Unleased(w)
          \/ UNCHANGED <<bal, settled, row, lease>>
      BY Zenon, <1>7 DEF Settle
    <2>1. wk' \in [Workers -> WorkerState] /\ \A q \in Workers : wk'[q] \in OwnWorker
      BY Zenon, <2>7, DoneOwn
    <2>2. row' \in [W -> Row] /\ \A v \in W : row'[v] \in OwnRow(v)
      <3>1. CASE Transition(w, "CONFIRMED", To(w, "SETTLED"))
        BY Zenon, <1>2, <1>3, <3>1, RowMoved DEF Statuses
      <3>2. CASE row' = row
        BY Zenon, <3>2 DEF TInv, TypeOK, Ownership
      <3> QED
        BY Zenon, <2>8, <3>1, <3>2
    <2>3. bal' \in [LedgerAccounts -> Int]
      BY Zenon, <1>2, <2>8, PostingTypes DEF TInv, TypeOK
    <2>4. lease' \in [Accounts -> W \cup {0}]
      BY <2>8, UnleasedType DEF TInv, TypeOK
    <2>5. settled' \in [W -> Nat]
      BY SMTT(30), <1>2, <2>8 DEF TInv, TypeOK
    <2> QED
      BY SMTT(30), <2>1, <2>2, <2>3, <2>4, <2>5, <2>7, TypeAssemble DEF TInv, TypeOK, chainVars
  <1>8. CASE ReadAdvanced(p)
    <2>1. \E at \in {"resend", "expire"} : Goto(p, at)
      BY SMTT(30), <1>8 DEF ReadAdvanced
    <2>2. wk[p].at = "nonce"
      BY Zenon, <1>8 DEF ReadAdvanced, At
    <2> QED
      BY SMTT(60), <1>1, <1>8, <2>1, <2>2, GotoOwn, TypeWorkerOnly DEF ReadAdvanced, Stages, HoldsBytes
  <1>9. CASE Rebroadcast(p)
    <2>1. wk[p].bytes \in Tx
      BY Zenon, <1>2, <1>9 DEF Rebroadcast, At, HoldsBytes
    <2>2. mempool' \subseteq Tx
      BY Zenon, <1>9, <2>1 DEF Rebroadcast, Submitted, TInv, TypeOK
    <2>3. wk' \in [Workers -> WorkerState] /\ \A q \in Workers : wk'[q] \in OwnWorker
      BY Zenon, <1>9, DoneOwn DEF Rebroadcast
    <2> QED
      BY Zenon, <1>9, <2>2, <2>3, TypeAssemble
         DEF Rebroadcast, TInv, TypeOK, Ownership, dbVars
  <1>10. CASE Expire(p)
    BY ZenonT(40), <1>2, <1>3, <1>10, TypeMoveDone DEF Expire
  <1>11. CASE ReadFails(p) \/ WorkerDies(p)
    BY Zenon, <1>11, DoneOwn, TypeWorkerOnly DEF ReadFails, WorkerDies
  <1> QED
    BY Zenon, <1>4, <1>5, <1>6, <1>7, <1>8, <1>9, <1>10, <1>11

\* Retrying and giving up.
LEMMA TypeRetry ==
    ASSUME TInv, NEW p \in Workers,
           \/ DropLease(p) \/ Requeue(p)
           \/ ReleaseLock(p) \/ ReleaseLease(p) \/ Fail(p)
    PROVE  TInv'
  <1> DEFINE w == wk[p].w
             Back == {"drop", "requeue", "unlock", "unlease", "fail"}
  <1>1. wk[p].at # "idle" /\ wk[p].at \in Back
    BY Zenon DEF DropLease, Requeue, ReleaseLock, ReleaseLease, Fail, At
  <1>2. w \in W
    BY SMTT(30), <1>1, AtWork
  <1>3. \A s \in Statuses \ {"SIGNED", "BROADCAST"} : To(w, s) \in OwnRow(w)
    BY Zenon, <1>2, OwnFailures
  <1>4. ASSUME NEW at \in Back, Goto(p, at)
        PROVE  wk' \in [Workers -> WorkerState] /\ \A q \in Workers : wk'[q] \in OwnWorker
    BY Zenon, <1>1, <1>4, GotoOwn DEF Stages, HoldsBytes
  <1>5. CASE DropLease(p)
    BY Zenon, <1>4, <1>5, UnleasedType, TypeAssemble
       DEF DropLease, TInv, TypeOK, Ownership, chainVars
  <1>6. CASE Requeue(p)
    <2>1. To(w, "FUNDS_LOCKED") \in OwnRow(w)
      BY Zenon, <1>3 DEF Statuses
    <2> QED
      BY Zenon, <1>2, <1>6, <2>1, TypeMoveDone DEF Requeue
  <1>7. CASE ReleaseLock(p)
    <2>1. wk' \in [Workers -> WorkerState] /\ \A q \in Workers : wk'[q] \in OwnWorker
      BY Zenon, <1>4, <1>7, DoneOwn DEF ReleaseLock
    <2>2. bal' \in [LedgerAccounts -> Int]
      BY Zenon, <1>2, <1>7, PostingTypes DEF ReleaseLock, TInv, TypeOK
    <2>3. released' \in [W -> Nat]
      BY <1>2, <1>7 DEF ReleaseLock, TInv, TypeOK
    <2> QED
      BY Zenon, <1>7, <2>1, <2>2, <2>3, TypeAssemble
         DEF ReleaseLock, TInv, TypeOK, Ownership, chainVars
  <1>8. CASE ReleaseLease(p)
    BY Zenon, <1>4, <1>8, UnleasedType, TypeAssemble
       DEF ReleaseLease, TInv, TypeOK, Ownership, chainVars
  <1>9. CASE Fail(p)
    <2>1. To(w, "FAILED") \in OwnRow(w)
      BY Zenon, <1>3 DEF Statuses
    <2> QED
      BY Zenon, <1>2, <1>9, <2>1, TypeMoveDone DEF Fail
  <1> QED
    BY Zenon, <1>5, <1>6, <1>7, <1>8, <1>9

\* The chain.
LEMMA TypeChain ==
    ASSUME TInv, Chain
    PROVE  TInv'
  <1>1. ASSUME NEW t \in mempool, Land(t) PROVE TInv'
    <2>1. t \in Tx /\ t.w \in W /\ t.a \in Accounts
      BY Zenon, <1>1 DEF TInv, TypeOK, Tx
    <2>2. Amount[t.w] \in Int
      BY <2>1, AmountAssumption
    <2>3. held' \in [Holders -> Int]
      BY <1>1, <2>2 DEF Land, Paid, TInv, TypeOK
    <2>4. nonce' \in [Accounts -> Nat]
      BY <1>1, <2>1 DEF Land, TInv, TypeOK
    <2>5. mempool' \subseteq Tx /\ landed' \subseteq Tx /\ reverted' \subseteq Tx
      BY Zenon, <1>1, <2>1 DEF Land, TInv, TypeOK
    <2>6. UNCHANGED <<dbVars, wk, finalNonce>>
      BY Zenon, <1>1 DEF Land
    <2> QED
      BY Zenon, <2>3, <2>4, <2>5, <2>6 DEF TInv, TypeOK, Ownership, dbVars
  <1>2. ASSUME NEW t \in mempool, Drop(t) PROVE TInv'
    BY Zenon, <1>2 DEF Drop, TInv, TypeOK, Ownership, dbVars
  <1>3. ASSUME NEW a \in Accounts, Finalize(a) PROVE TInv'
    BY <1>3 DEF Finalize, TInv, TypeOK, Ownership, dbVars
  <1> QED
    BY Zenon, <1>1, <1>2, <1>3 DEF Chain

\* Every step.
LEMMA TypeStep == TInv /\ [Next]_vars => TInv'
  <1> SUFFICES ASSUME TInv, [Next]_vars PROVE TInv'
    BY Zenon
  <1>1. CASE UNCHANGED vars
    BY Zenon, <1>1 DEF vars, dbVars, chainVars, TInv, TypeOK, Ownership
  <1>2. ASSUME NEW p \in Workers, Continue(p) \/ WorkerFault(p) PROVE TInv'
    BY Zenon, <1>2, TypeSign, TypeBroadcast, TypeConfirm, TypeRetry DEF Continue, WorkerFault
  <1> QED
    BY Zenon, <1>1, <1>2, TypeHandler, TypePick, TypeChain DEF Next

(* Every variable keeps its type in every run (withdrawals table, leases,    *)
(* postings, workers and chain).                                             *)
THEOREM TypeCorrect == Spec => []TypeOK
  <1>1. TInv => TypeOK
    BY Zenon DEF TInv
  <1> QED
    BY <1>1, TypeInit, TypeStep, PTL DEF Spec

-----------------------------------------------------------------------------
(* Settlement: the inductive invariant                                       *)
(*                                                                           *)
(* A worker about to confirm holds a signature that it saw final, and        *)
(* finality is never taken back.  A worker about to settle is the only one   *)
(* for its withdrawal, because it won the compare-and-set to CONFIRMED, a    *)
(* status that nothing but its own settlement leaves.                        *)

IsFinal(t) == t \in landed /\ finalNonce[t.a] > t.n

ConfirmersSawFinal ==
    \A p \in Workers : wk[p].at = "confirm" => IsFinal(wk[p].sig)

SettlersOwnConfirmed ==
    /\ \A p \in Workers : wk[p].at = "settle" =>
         row[wk[p].w].status = "CONFIRMED"
    /\ \A p, q \in Workers :
         wk[p].at = "settle" /\ wk[q].at = "settle" /\ wk[p].w = wk[q].w => p = q

SInv == ConfirmersSawFinal /\ SettlersOwnConfirmed /\ SettledWasFinal /\ SettledOnce

Confirmed == {"CONFIRMED", "SETTLED"}

\* Nothing is confirmed at the start.
LEMMA SettleInit == Init => SInv
  BY DEF Init, SInv, ConfirmersSawFinal, SettlersOwnConfirmed, SettledWasFinal,
         SettledOnce, IdleWorker, Absent

\* A step that leaves confirmed rows, confirming workers and settlements alone.
PlainRows ==
    \A w \in W : \/ row'[w].status = row[w].status
                 \/ row[w].status \notin Confirmed /\ row'[w].status \notin Confirmed

PlainWorkers ==
    \A p \in Workers : wk'[p].at \in {"confirm", "settle"} => wk'[p] = wk[p]

ChainGrows ==
    /\ landed \subseteq landed'
    /\ \A a \in Accounts : finalNonce'[a] >= finalNonce[a]

\* Finality is never taken back.
LEMMA FinalStays ==
    ASSUME TInv, TInv', ChainGrows, NEW t \in Tx, IsFinal(t)
    PROVE  IsFinal(t)'
  <1>1. t.a \in Accounts /\ t.n \in Nat
    BY Zenon DEF Tx
  <1>2. finalNonce[t.a] \in Nat /\ finalNonce'[t.a] \in Nat
    BY Zenon, <1>1 DEF TInv, TypeOK
  <1> QED
    BY <1>1, <1>2 DEF IsFinal, ChainGrows

\* Such a step keeps the invariant.
LEMMA PlainStep ==
    ASSUME TInv, TInv', SInv, PlainRows, PlainWorkers, ChainGrows,
           UNCHANGED settled
    PROVE  SInv'
  <1>1. ConfirmersSawFinal'
    <2> SUFFICES ASSUME NEW p \in Workers, wk'[p].at = "confirm"
                 PROVE  IsFinal(wk[p].sig)'
      BY Zenon DEF ConfirmersSawFinal
    <2>1. wk'[p] = wk[p]
      BY Zenon DEF PlainWorkers
    <2>2. IsFinal(wk[p].sig) /\ wk[p].sig \in Tx
      BY Zenon, <2>1 DEF SInv, ConfirmersSawFinal, IsFinal, TInv, TypeOK
    <2>3. \A t \in Tx : IsFinal(t) => IsFinal(t)'
      BY Zenon, FinalStays
    <2> QED
      BY Zenon, <2>1, <2>2, <2>3 DEF IsFinal
  <1>2. SettlersOwnConfirmed'
    <2>1. ASSUME NEW p \in Workers, wk'[p].at = "settle"
          PROVE  row'[wk'[p].w].status = "CONFIRMED"
      <3>1. wk'[p] = wk[p]
        BY Zenon, <2>1 DEF PlainWorkers
      <3>2. wk[p].w \in W /\ row[wk[p].w].status = "CONFIRMED"
        BY Zenon, <2>1, <3>1, AtWork DEF SInv, SettlersOwnConfirmed
      <3> QED
        BY Zenon, <3>1, <3>2 DEF PlainRows, Confirmed
    <2>2. ASSUME NEW p \in Workers, NEW q \in Workers, wk'[p].at = "settle",
                 wk'[q].at = "settle", wk'[p].w = wk'[q].w
          PROVE  p = q
      BY Zenon, <2>2 DEF PlainWorkers, SInv, SettlersOwnConfirmed
    <2> QED
      BY Zenon, <2>1, <2>2 DEF SettlersOwnConfirmed
  <1>3. SettledWasFinal'
    <2> SUFFICES ASSUME NEW w \in W, row'[w].status \in Confirmed
                 PROVE  \E t \in landed' : t.w = w /\ finalNonce'[t.a] > t.n
      BY Zenon DEF SettledWasFinal, Confirmed
    <2>1. row[w].status \in Confirmed
      BY Zenon DEF PlainRows
    <2>2. PICK t \in landed : t.w = w /\ finalNonce[t.a] > t.n
      BY Zenon, <2>1 DEF SInv, SettledWasFinal, Confirmed
    <2>3. t \in Tx /\ IsFinal(t)
      BY Zenon, <2>2 DEF TInv, TypeOK, IsFinal
    <2>4. IsFinal(t)'
      BY Zenon, <2>3, FinalStays
    <2> QED
      BY Zenon, <2>2, <2>4 DEF IsFinal
  <1>4. SettledOnce'
    BY Zenon DEF SInv, SettledOnce, PlainRows, Confirmed
  <1> QED
    BY Zenon, <1>1, <1>2, <1>3, <1>4 DEF SInv

\* A guarded transition between statuses before CONFIRMED.
LEMMA PlainTransition ==
    ASSUME TInv, NEW w \in W, NEW from, NEW new, from \notin Confirmed,
           new.status \notin Confirmed, Transition(w, from, new)
    PROVE  PlainRows
  BY Zenon DEF PlainRows, Transition, TInv, TypeOK

\* An unguarded change of one row, before CONFIRMED or keeping the status.
LEMMA PlainChange ==
    ASSUME TInv, NEW w \in W, NEW new, row' = [row EXCEPT ![w] = new],
           \/ new.status = row[w].status
           \/ row[w].status \notin Confirmed /\ new.status \notin Confirmed
    PROVE  PlainRows
  BY Zenon DEF PlainRows, TInv, TypeOK

\* A worker that moves to a stage before confirming.
LEMMA PlainWorker ==
    ASSUME TInv, NEW p \in Workers, NEW s, wk' = [wk EXCEPT ![p] = s],
           s.at \notin {"confirm", "settle"}
    PROVE  PlainWorkers
  BY Zenon DEF PlainWorkers, TInv, TypeOK

\* A worker that finishes.
LEMMA PlainDone ==
    ASSUME TInv, NEW p \in Workers, Done(p)
    PROVE  PlainWorkers
  BY Zenon, PlainWorker DEF Done, IdleWorker

\* A worker that goes on to a stage before confirming.
LEMMA PlainGoto ==
    ASSUME TInv, NEW p \in Workers, NEW at, at \notin {"confirm", "settle"},
           Goto(p, at)
    PROVE  PlainWorkers
  <1> DEFINE s == [wk[p] EXCEPT !.at = at]
  <1>1. wk[p] \in WorkerState
    BY Zenon DEF TInv, TypeOK
  <1>2. s.at = at
    BY Zenon, <1>1 DEF WorkerState
  <1>3. wk' = [wk EXCEPT ![p] = s]
    BY Zenon DEF Goto, TInv, TypeOK
  <1> HIDE DEF s
  <1> QED
    BY Zenon, <1>2, <1>3, PlainWorker

\* A step that leaves the chain alone.
LEMMA ChainStays ==
    ASSUME TInv, UNCHANGED <<finalNonce, landed>>
    PROVE  ChainGrows
  BY DEF ChainGrows, TInv, TypeOK

\* A worker's guarded move before CONFIRMED.
LEMMA PlainMoveDone ==
    ASSUME TInv, TInv', SInv, NEW p \in Workers, NEW w \in W, NEW from, NEW new,
           from \notin Confirmed, new.status \notin Confirmed,
           Transition(w, from, new), Done(p),
           UNCHANGED <<handler, lease, bal, settled, released, chainVars>>
    PROVE  SInv'
  <1>1. PlainRows /\ PlainWorkers
    BY Zenon, PlainTransition, PlainDone
  <1>2. ChainGrows /\ UNCHANGED settled
    BY Zenon, ChainStays DEF chainVars
  <1> QED
    BY Zenon, <1>1, <1>2, PlainStep

\* A worker's step that writes no row.
LEMMA PlainWorkerOnly ==
    ASSUME TInv, TInv', SInv, PlainWorkers,
           UNCHANGED <<row, settled, finalNonce, landed>>
    PROVE  SInv'
  <1>1. PlainRows
    BY Zenon DEF PlainRows
  <1>2. ChainGrows
    BY Zenon, ChainStays
  <1> QED
    BY Zenon, <1>1, <1>2, PlainStep

\* Handlers and operators work before FUNDS_LOCKED.
LEMMA SettleHandler ==
    ASSUME TInv, TInv', SInv, NEW w \in W,
           Create(w) \/ Handler(w) \/ Operator(w) \/ HandlerDies(w)
    PROVE  SInv'
  <1> DEFINE Early == {"ABSENT", "REQUESTED", "RISK_EVALUATING", "MANUAL_REVIEW",
                       "APPROVED", "FUNDS_LOCKED", "REJECTED"}
  <1>1. UNCHANGED <<settled, wk, chainVars>>
    BY Zenon DEF Create, Handler, Operator, HandlerDies, Evaluate, Decide, LockFunds,
           Approve, Reject
  <1>2. ASSUME NEW s \in Early, row' = [row EXCEPT ![w] = To(w, s)],
               row[w].status \in Early
        PROVE  PlainRows
    <2>1. To(w, s).status = s
      BY ToRow DEF TInv, TypeOK, Statuses
    <2> QED
      BY Zenon, <1>2, <2>1, PlainChange DEF Confirmed
  <1>3. PlainRows
    <2>1. CASE Create(w)
      BY Zenon, <2>1, <1>2 DEF Create
    <2>2. CASE Evaluate(w)
      BY Zenon, <2>2, <1>2 DEF Evaluate
    <2>3. CASE Decide(w)
      BY Zenon, <2>3, <1>2 DEF Decide
    <2>4. CASE LockFunds(w)
      BY Zenon, <2>4, <1>2 DEF LockFunds
    <2>5. CASE Approve(w)
      BY Zenon, <2>5, <1>2 DEF Approve
    <2>6. CASE Reject(w)
      BY Zenon, <2>6, <1>2 DEF Reject
    <2>7. CASE HandlerDies(w)
      BY Zenon, <2>7 DEF HandlerDies, PlainRows
    <2> QED
      BY Zenon, <2>1, <2>2, <2>3, <2>4, <2>5, <2>6, <2>7 DEF Handler, Operator
  <1>4. PlainWorkers
    BY Zenon, <1>1 DEF PlainWorkers
  <1>5. ChainGrows
    BY Zenon, <1>1, ChainStays DEF chainVars
  <1> QED
    BY Zenon, <1>1, <1>3, <1>4, <1>5, PlainStep

\* Claiming and listing.
LEMMA SettlePick ==
    ASSUME TInv, TInv', SInv, NEW p \in Workers, NEW w \in W, Pick(p, w)
    PROVE  SInv'
  <1>1. /\ UNCHANGED <<settled, chainVars>>
    BY Zenon DEF Pick, ClaimSigning, ClaimBroadcast, ListBroadcast, ListRetry, dbVars
  <1>2. ChainGrows
    BY Zenon, <1>1, ChainStays DEF chainVars
  <1>3. \A s \in Statuses : To(w, s).status = s
    BY Zenon, ToRow DEF TInv, TypeOK
  <1>4. PlainRows
    <2>1. CASE ClaimSigning(p, w)
      BY Zenon, <2>1, <1>3, PlainChange DEF ClaimSigning, Oldest, Confirmed, Statuses
    <2>2. CASE ClaimBroadcast(p, w)
      BY Zenon, <2>2, <1>3, PlainChange DEF ClaimBroadcast, Oldest, Confirmed, Statuses
    <2>3. CASE ListBroadcast(p, w) \/ ListRetry(p, w)
      BY Zenon, <2>3 DEF ListBroadcast, ListRetry, PlainRows, dbVars
    <2> QED
      BY Zenon, <2>1, <2>2, <2>3 DEF Pick
  <1>5. PlainWorkers
    <2>1. CASE ClaimSigning(p, w)
      BY Zenon, <2>1, PlainWorker DEF ClaimSigning, IdleWorker
    <2>2. CASE ClaimBroadcast(p, w)
      BY Zenon, <2>2, PlainWorker DEF ClaimBroadcast, IdleWorker
    <2>3. CASE ListBroadcast(p, w) \/ ListRetry(p, w)
      <3>1. PICK at \in {"nonce", "status", "unlock", "drop", "requeue"},
                 from \in Statuses :
              wk' = [wk EXCEPT ![p] = [at |-> at, w |-> w, from |-> from,
                                       bytes |-> row[w].bytes, sig |-> row[w].sig]]
        <4>1. row[w].status \in Statuses
          BY Zenon DEF TInv, TypeOK, Row
        <4> QED
          BY SMTT(60), <2>3, <4>1 DEF ListBroadcast, ListRetry, Statuses
      <3> DEFINE s == [at |-> at, w |-> w, from |-> from,
                       bytes |-> row[w].bytes, sig |-> row[w].sig]
      <3>2. s.at \notin {"confirm", "settle"}
        BY Zenon
      <3>3. wk' = [wk EXCEPT ![p] = s]
        BY Zenon, <3>1
      <3> HIDE DEF s
      <3> QED
        BY Zenon, <3>2, <3>3, PlainWorker
    <2> QED
      BY Zenon, <2>1, <2>2, <2>3 DEF Pick
  <1> QED
    BY Zenon, <1>1, <1>2, <1>4, <1>5, PlainStep

\* The failures of an attempt are statuses before CONFIRMED.
LEMMA EarlyFailures ==
    ASSUME NEW w \in W, row[w] \in Row
    PROVE  /\ To(w, "SIGN_FAILED").status \notin Confirmed
           /\ Failed(w, "SIGN_FAILED", "sign").status \notin Confirmed
           /\ Failed(w, "BROADCAST_FAILED", "broadcast").status \notin Confirmed
           /\ Failed(w, "EXPIRED", "expiry").status \notin Confirmed
  <1>1. /\ "SIGN_FAILED" \in Statuses /\ "BROADCAST_FAILED" \in Statuses
        /\ "EXPIRED" \in Statuses
    BY Zenon DEF Statuses
  <1>2. To(w, "SIGN_FAILED").status = "SIGN_FAILED"
    BY Zenon, <1>1, ToRow
  <1>3. Failed(w, "SIGN_FAILED", "sign").status = "SIGN_FAILED"
    BY Zenon, <1>1, FailedRow
  <1>4. Failed(w, "BROADCAST_FAILED", "broadcast").status = "BROADCAST_FAILED"
    BY Zenon, <1>1, FailedRow
  <1>5. Failed(w, "EXPIRED", "expiry").status = "EXPIRED"
    BY Zenon, <1>1, FailedRow
  <1> QED
    BY Zenon, <1>2, <1>3, <1>4, <1>5 DEF Confirmed

\* Every worker step but the three of confirmation and settlement.
LEMMA SettleWork ==
    ASSUME TInv, TInv', SInv, NEW p \in Workers,
           \/ Lease(p) \/ ReadNonce(p) \/ StoreSigned(p) \/ SigningFails(p)
           \/ Broadcast(p) \/ NoteSignature(p) \/ BroadcastRefused(p)
           \/ BroadcastSpent(p) \/ Reverted(p)
           \/ ReadAdvanced(p) \/ Rebroadcast(p) \/ Expire(p)
           \/ ReadFails(p) \/ WorkerDies(p)
    PROVE  SInv'
  <1> DEFINE w == wk[p].w
  <1>1. wk[p].at # "idle"
    BY Zenon DEF Lease, ReadNonce, StoreSigned, SigningFails, Broadcast, NoteSignature,
           BroadcastRefused, BroadcastSpent, Reverted, ReadAdvanced, Rebroadcast,
           Expire, ReadFails, WorkerDies, At
  <1>2. w \in W /\ row[w] \in Row /\ wk[p] \in WorkerState
    BY Zenon, <1>1, AtWork DEF TInv, TypeOK
  <1>3. /\ To(w, "SIGN_FAILED").status \notin Confirmed
        /\ Failed(w, "SIGN_FAILED", "sign").status \notin Confirmed
        /\ Failed(w, "BROADCAST_FAILED", "broadcast").status \notin Confirmed
        /\ Failed(w, "EXPIRED", "expiry").status \notin Confirmed
    BY Zenon, <1>2, EarlyFailures
  <1>4. "SIGNING" \notin Confirmed /\ "BROADCAST" \notin Confirmed
    BY Zenon DEF Confirmed
  <1>5. CASE Lease(p)
    <2>1. CASE \E a \in Accounts :
                 /\ wk' = [wk EXCEPT ![p].at = "read",
                                     ![p].bytes = [w |-> w, a |-> a, n |-> 0]]
                 /\ UNCHANGED row
      <3>1. PICK a \in Accounts :
                 /\ wk' = [wk EXCEPT ![p].at = "read",
                                     ![p].bytes = [w |-> w, a |-> a, n |-> 0]]
                 /\ UNCHANGED row
        BY Zenon, <2>1
      <3> DEFINE t == [w |-> w, a |-> a, n |-> 0]
                 s == [wk[p] EXCEPT !.at = "read", !.bytes = t]
      <3>2. wk' = [wk EXCEPT ![p] = s]
        BY Zenon, <3>1 DEF TInv, TypeOK
      <3> HIDE DEF t
      <3>3. s.at = "read"
        BY Zenon, <1>2 DEF WorkerState
      <3> HIDE DEF s
      <3>4. PlainWorkers
        BY Zenon, <3>2, <3>3, PlainWorker
      <3> QED
        BY Zenon, <1>5, <3>1, <3>4, PlainWorkerOnly DEF Lease, chainVars
    <2>2. CASE /\ Transition(w, "SIGNING", To(w, "SIGN_FAILED"))
               /\ Done(p)
               /\ UNCHANGED lease
      <3>1. UNCHANGED <<handler, lease, bal, settled, released, chainVars>>
        BY Zenon, <1>5, <2>2 DEF Lease
      <3> QED
        BY Zenon, <1>2, <1>3, <1>4, <2>2, <3>1, PlainMoveDone
    <2> QED
      BY Zenon, <1>5, <2>1, <2>2 DEF Lease, HeldBy
  <1>6. CASE ReadNonce(p)
    <2> DEFINE t == [wk[p].bytes EXCEPT !.n = finalNonce[wk[p].bytes.a]]
               s == [wk[p] EXCEPT !.at = "sign", !.bytes = t]
    <2>1. wk' = [wk EXCEPT ![p] = s]
      BY Zenon, <1>2, <1>6 DEF ReadNonce, TInv, TypeOK, WorkerState
    <2> HIDE DEF t
    <2>2. s.at = "sign"
      BY Zenon, <1>2 DEF WorkerState
    <2> HIDE DEF s
    <2>3. PlainWorkers
      BY Zenon, <2>1, <2>2, PlainWorker
    <2>4. UNCHANGED <<row, settled, finalNonce, landed>>
      BY Zenon, <1>6 DEF ReadNonce, dbVars, chainVars
    <2> QED
      BY Zenon, <2>3, <2>4, PlainWorkerOnly
  <1>7. CASE StoreSigned(p)
    <2> DEFINE r == [To(w, "SIGNED") EXCEPT !.bytes = wk[p].bytes]
    <2>1. To(w, "SIGNED") \in Row /\ To(w, "SIGNED").status = "SIGNED"
      BY ZenonT(40), <1>2, ToRow DEF Statuses
    <2>2. r.status \notin Confirmed
      BY Zenon, <2>1 DEF Row, Confirmed
    <2>3. Transition(w, "SIGNING", r)
      BY SMTT(30), <1>7 DEF StoreSigned
    <2> HIDE DEF r
    <2> QED
      BY SMTT(30), <1>2, <1>4, <1>7, <2>2, <2>3, PlainMoveDone DEF StoreSigned
  <1>8. CASE SigningFails(p)
    BY Zenon, <1>2, <1>3, <1>4, <1>8, PlainMoveDone DEF SigningFails
  <1>9. CASE Broadcast(p)
    <2>1. \E at \in {"note", "refused", "spent"} : Goto(p, at)
      BY Zenon, <1>9 DEF Broadcast
    <2>2. PlainWorkers
      BY Zenon, <2>1, PlainGoto
    <2>3. UNCHANGED <<dbVars, nonce, finalNonce, landed, reverted, held>>
      BY Zenon, <1>9 DEF Broadcast
    <2>4. UNCHANGED <<row, settled, finalNonce, landed>>
      BY Zenon, <2>3 DEF dbVars
    <2> QED
      BY Zenon, <2>2, <2>4, PlainWorkerOnly
  <1>10. CASE NoteSignature(p)
    <2> DEFINE r == [row[w] EXCEPT !.sig = wk[p].bytes]
    <2>1. r.status = row[w].status
      BY Zenon, <1>2 DEF Row
    <2>2. row' = [row EXCEPT ![w] = r]
      BY Zenon, <1>10 DEF NoteSignature, TInv, TypeOK
    <2> HIDE DEF r
    <2>3. PlainRows
      BY Zenon, <1>2, <2>1, <2>2, PlainChange
    <2>4. PlainWorkers
      BY Zenon, <1>10, PlainDone DEF NoteSignature
    <2>5. ChainGrows /\ UNCHANGED settled
      BY Zenon, <1>10, ChainStays DEF NoteSignature, chainVars
    <2> QED
      BY Zenon, <2>3, <2>4, <2>5, PlainStep
  <1>11. CASE BroadcastRefused(p)
    BY Zenon, <1>2, <1>3, <1>4, <1>11, PlainMoveDone DEF BroadcastRefused
  <1>12. CASE BroadcastSpent(p)
    BY ZenonT(40), <1>2, <1>3, <1>4, <1>12, PlainMoveDone DEF BroadcastSpent
  <1>13. CASE Reverted(p)
    BY Zenon, <1>2, <1>3, <1>4, <1>13, PlainMoveDone DEF Reverted
  <1>14. CASE ReadAdvanced(p)
    <2>1. \E at \in {"resend", "expire"} : Goto(p, at)
      BY Zenon, <1>14 DEF ReadAdvanced
    <2>2. PlainWorkers
      BY Zenon, <2>1, PlainGoto
    <2> QED
      BY Zenon, <1>14, <2>2, PlainWorkerOnly DEF ReadAdvanced, dbVars, chainVars
  <1>15. CASE Rebroadcast(p)
    BY Zenon, <1>15, PlainDone, PlainWorkerOnly DEF Rebroadcast, dbVars
  <1>16. CASE Expire(p)
    BY Zenon, <1>2, <1>3, <1>4, <1>16, PlainMoveDone DEF Expire
  <1>17. CASE ReadFails(p) \/ WorkerDies(p)
    BY Zenon, <1>17, PlainDone, PlainWorkerOnly DEF ReadFails, WorkerDies, dbVars, chainVars
  <1> QED
    BY Zenon, <1>5, <1>6, <1>7, <1>8, <1>9, <1>10, <1>11, <1>12, <1>13, <1>14, <1>15,
       <1>16, <1>17

\* Retrying and giving up start from the three retry states.
LEMMA SettleRetry ==
    ASSUME TInv, TInv', SInv, NEW p \in Workers,
           \/ DropLease(p) \/ Requeue(p)
           \/ ReleaseLock(p) \/ ReleaseLease(p) \/ Fail(p)
    PROVE  SInv'
  <1> DEFINE w == wk[p].w
  <1>1. wk[p].at \in {"drop", "requeue", "unlock", "unlease", "fail"}
    BY Zenon DEF DropLease, Requeue, ReleaseLock, ReleaseLease, Fail, At
  <1>2. w \in W /\ row[w] \in Row /\ wk[p].from \in RetryEdges
    BY Zenon, <1>1 DEF TInv, TypeOK, Ownership, OwnWorker
  <1>3. wk[p].from \notin Confirmed
    BY Zenon, <1>2 DEF RetryEdges, Confirmed
  <1>4. /\ To(w, "FUNDS_LOCKED").status \notin Confirmed
        /\ To(w, "FAILED").status \notin Confirmed
    BY SMTT(60), <1>2, ToRow DEF Statuses, Confirmed
  <1>5. CASE Requeue(p)
    BY Zenon, <1>2, <1>3, <1>4, <1>5, PlainMoveDone DEF Requeue
  <1>6. CASE Fail(p)
    BY Zenon, <1>2, <1>3, <1>4, <1>6, PlainMoveDone DEF Fail
  <1>7. CASE DropLease(p) \/ ReleaseLock(p) \/ ReleaseLease(p)
    <2>1. Done(p) \/ \E at \in {"requeue", "unlease", "fail"} : Goto(p, at)
      BY Zenon, <1>7 DEF DropLease, ReleaseLock, ReleaseLease
    <2>2. PlainWorkers
      BY Zenon, <2>1, PlainDone, PlainGoto
    <2> QED
      BY Zenon, <1>7, <2>2, PlainWorkerOnly DEF DropLease, ReleaseLock, ReleaseLease, chainVars
  <1> QED
    BY Zenon, <1>5, <1>6, <1>7

\* The chain only grows.
LEMMA SettleChain ==
    ASSUME TInv, TInv', SInv, Chain
    PROVE  SInv'
  <1>1. UNCHANGED <<row, wk, settled>>
    BY SMTT(30) DEF Chain, Land, Drop, Finalize, dbVars
  <1>2. ChainGrows
    <2>1. \A a \in Accounts : finalNonce[a] \in Nat
      BY Zenon DEF TInv, TypeOK
    <2> QED
      BY <2>1 DEF Chain, Land, Drop, Finalize, ChainGrows, TInv, TypeOK
  <1>3. PlainRows /\ PlainWorkers
    BY Zenon, <1>1 DEF PlainRows, PlainWorkers
  <1> QED
    BY Zenon, <1>1, <1>2, <1>3, PlainStep

\* The status read of the confirmation worker.
LEMMA SettleReadStatus ==
    ASSUME TInv, TInv', SInv, NEW p \in Workers, ReadStatus(p)
    PROVE  SInv'
  <1>1. /\ wk[p].at = "status" /\ wk[p] \in WorkerState
        /\ UNCHANGED <<row, settled, finalNonce, landed>>
    BY Zenon DEF ReadStatus, At, dbVars, chainVars, TInv, TypeOK
  <1>2. CASE FinalStatus(wk[p].sig) # "final"
    <2>1. \E at \in {"reverted", "nonce"} : Goto(p, at)
      BY Zenon, <1>2 DEF ReadStatus
    <2> QED
      BY Zenon, <1>1, <2>1, PlainGoto, PlainWorkerOnly
  <1>3. CASE FinalStatus(wk[p].sig) = "final"
    <2>1. Goto(p, "confirm")
      BY Zenon, <1>3 DEF ReadStatus
    <2>2. IsFinal(wk[p].sig)
      BY Zenon, <1>3 DEF FinalStatus, IsFinal
    <2>3. /\ wk'[p].at = "confirm" /\ wk'[p].sig = wk[p].sig
          /\ \A q \in Workers : q # p => wk'[q] = wk[q]
      BY Zenon, <1>1, <2>1 DEF Goto, TInv, TypeOK, WorkerState
    <2>4. \A t : IsFinal(t) => IsFinal(t)'
      BY Zenon, <1>1 DEF IsFinal
    <2>5. ConfirmersSawFinal'
      <3> SUFFICES ASSUME NEW q \in Workers, wk'[q].at = "confirm"
                   PROVE  IsFinal(wk[q].sig)'
        BY Zenon DEF ConfirmersSawFinal
      <3>1. IsFinal(wk[q].sig) /\ wk'[q].sig = wk[q].sig
        BY Zenon, <2>2, <2>3 DEF SInv, ConfirmersSawFinal
      <3> QED
        BY Zenon, <1>1, <3>1 DEF IsFinal
    <2>6. SettlersOwnConfirmed'
      BY SMTT(30), <1>1, <2>3 DEF SInv, SettlersOwnConfirmed
    <2>7. SettledWasFinal' /\ SettledOnce'
      BY Zenon, <1>1 DEF SInv, SettledWasFinal, SettledOnce
    <2> QED
      BY Zenon, <2>5, <2>6, <2>7 DEF SInv
  <1> QED
    BY Zenon, <1>2, <1>3

\* The compare-and-set to CONFIRMED: its winner settles, a loser stops.
LEMMA SettleConfirm ==
    ASSUME TInv, TInv', SInv, NEW p \in Workers, Confirm(p)
    PROVE  SInv'
  <1> DEFINE w == wk[p].w
  <1>1. /\ wk[p].at = "confirm" /\ wk[p] \in WorkerState /\ w \in W
        /\ wk[p].sig \in Tx /\ wk[p].sig.w = w
        /\ UNCHANGED <<settled, finalNonce, landed>>
    BY Zenon DEF Confirm, At, chainVars, TInv, TypeOK, Ownership, OwnWorker
  <1>2. CASE row[w].status # "BROADCAST"
    <2>1. row' = row /\ Done(p)
      BY Zenon, <1>2 DEF Confirm, Transition
    <2> QED
      BY Zenon, <1>1, <2>1, PlainDone, PlainWorkerOnly
  <1>3. CASE row[w].status = "BROADCAST"
    <2>1. row' = [row EXCEPT ![w] = To(w, "CONFIRMED")] /\ Goto(p, "settle")
      BY SMTT(30), <1>3 DEF Confirm, Transition
    <2>2. To(w, "CONFIRMED").status = "CONFIRMED"
      BY SMTT(60), <1>1, ToRow DEF TInv, TypeOK, Statuses
    <2>3. /\ row'[w].status = "CONFIRMED"
          /\ \A v \in W : v # w => row'[v] = row[v]
      BY Zenon, <1>1, <2>1, <2>2 DEF TInv, TypeOK
    <2>4. /\ wk'[p].at = "settle" /\ wk'[p].w = w
          /\ \A q \in Workers : q # p => wk'[q] = wk[q]
      BY Zenon, <1>1, <2>1 DEF Goto, TInv, TypeOK, WorkerState
    <2>5. ConfirmersSawFinal'
      <3> SUFFICES ASSUME NEW q \in Workers, wk'[q].at = "confirm"
                   PROVE  IsFinal(wk[q].sig)'
        BY Zenon DEF ConfirmersSawFinal
      <3>1. IsFinal(wk[q].sig) /\ wk'[q].sig = wk[q].sig
        BY Zenon, <2>4 DEF SInv, ConfirmersSawFinal
      <3> QED
        BY Zenon, <1>1, <3>1 DEF IsFinal
    <2>6. \A q \in Workers : wk[q].at = "settle" => wk[q].w # w
      BY Zenon, <1>3 DEF SInv, SettlersOwnConfirmed
    <2>7. \A q \in Workers : wk[q].at = "settle" => wk[q].w \in W
      BY Zenon, AtWork
    <2>8. SettlersOwnConfirmed'
      <3>1. ASSUME NEW q \in Workers, wk'[q].at = "settle"
            PROVE  row'[wk'[q].w].status = "CONFIRMED"
        BY <2>3, <2>4, <2>6, <2>7, <3>1 DEF SInv, SettlersOwnConfirmed
      <3>2. ASSUME NEW q \in Workers, NEW u \in Workers, wk'[q].at = "settle",
                   wk'[u].at = "settle", wk'[q].w = wk'[u].w
            PROVE  q = u
        BY SMTT(30), <2>4, <2>6, <3>2 DEF SInv, SettlersOwnConfirmed
      <3> QED
        BY Zenon, <3>1, <3>2 DEF SettlersOwnConfirmed
    <2>9. SettledWasFinal'
      <3>1. wk[p].sig \in landed /\ finalNonce[wk[p].sig.a] > wk[p].sig.n
        BY Zenon, <1>1 DEF SInv, ConfirmersSawFinal, IsFinal
      <3>2. \E t \in landed : t.w = w /\ finalNonce[t.a] > t.n
        BY Zenon, <1>1, <3>1
      <3> QED
        BY Zenon, <1>1, <2>3, <3>2 DEF SInv, SettledWasFinal
    <2>10. SettledOnce'
      BY SMTT(30), <1>1, <1>3, <2>3 DEF SInv, SettledOnce
    <2> QED
      BY Zenon, <2>5, <2>8, <2>9, <2>10 DEF SInv
  <1> QED
    BY Zenon, <1>2, <1>3

\* The settlement of the only worker that settles this withdrawal.
LEMMA SettleSettle ==
    ASSUME TInv, TInv', SInv, NEW p \in Workers, Settle(p)
    PROVE  SInv'
  <1> DEFINE w == wk[p].w
  <1>1. /\ wk[p].at = "settle" /\ w \in W /\ row[w].status = "CONFIRMED"
        /\ UNCHANGED <<finalNonce, landed>> /\ Done(p)
    <2>1. wk[p].at = "settle" /\ UNCHANGED <<finalNonce, landed>> /\ Done(p)
      BY ZenonT(40) DEF Settle, At, chainVars
    <2> QED
      BY Zenon, <2>1, AtWork DEF SInv, SettlersOwnConfirmed
  <1>2. CASE UNCHANGED <<bal, settled, row, lease>>
    BY Zenon, <1>1, <1>2, PlainDone, PlainWorkerOnly
  <1>3. CASE /\ settled' = [settled EXCEPT ![w] = @ + 1]
             /\ Transition(w, "CONFIRMED", To(w, "SETTLED"))
    <2>1. To(w, "SETTLED").status = "SETTLED"
      BY Zenon, <1>1, ToRow DEF TInv, TypeOK, Statuses
    <2>2. /\ row'[w].status = "SETTLED"
          /\ \A v \in W : v # w => row'[v] = row[v]
      BY Zenon, <1>1, <1>3, <2>1 DEF Transition, TInv, TypeOK
    <2>3. /\ settled'[w] = settled[w] + 1
          /\ \A v \in W : v # w => settled'[v] = settled[v]
      BY SMTT(30), <1>1, <1>3 DEF TInv, TypeOK
    <2>4. /\ wk'[p].at = "idle"
          /\ \A q \in Workers : q # p => wk'[q] = wk[q]
      BY Zenon, <1>1 DEF Done, IdleWorker, TInv, TypeOK
    <2>5. ConfirmersSawFinal'
      <3> SUFFICES ASSUME NEW q \in Workers, wk'[q].at = "confirm"
                   PROVE  IsFinal(wk[q].sig)'
        BY Zenon DEF ConfirmersSawFinal
      <3>1. IsFinal(wk[q].sig) /\ wk'[q].sig = wk[q].sig
        BY SMTT(30), <2>4 DEF SInv, ConfirmersSawFinal
      <3> QED
        BY Zenon, <1>1, <3>1 DEF IsFinal
    <2>6. \A q \in Workers : q # p /\ wk[q].at = "settle" => wk[q].w # w /\ wk[q].w \in W
      BY SMTT(60), <1>1, AtWork DEF SInv, SettlersOwnConfirmed
    <2>7. SettlersOwnConfirmed'
      <3>1. ASSUME NEW q \in Workers, wk'[q].at = "settle"
            PROVE  row'[wk'[q].w].status = "CONFIRMED"
        BY SMTT(60), <2>2, <2>4, <2>6, <3>1 DEF SInv, SettlersOwnConfirmed
      <3>2. ASSUME NEW q \in Workers, NEW u \in Workers, wk'[q].at = "settle",
                   wk'[u].at = "settle", wk'[q].w = wk'[u].w
            PROVE  q = u
        BY Zenon, <2>4, <3>2 DEF SInv, SettlersOwnConfirmed
      <3> QED
        BY Zenon, <3>1, <3>2 DEF SettlersOwnConfirmed
    <2>8. SettledWasFinal'
      BY Zenon, <1>1, <2>2 DEF SInv, SettledWasFinal
    <2>9. SettledOnce'
      <3>1. settled[w] = 0
        BY Zenon, <1>1 DEF SInv, SettledOnce
      <3>2. settled'[w] = 1
        BY <2>3, <3>1
      <3> QED
        BY Zenon, <1>1, <2>2, <2>3, <3>2 DEF SInv, SettledOnce
    <2> QED
      BY Zenon, <2>5, <2>7, <2>8, <2>9 DEF SInv
  <1> QED
    BY SMTT(60), <1>2, <1>3 DEF Settle

\* Every step keeps the settlement invariant.
LEMMA SettleStep == TInv /\ SInv /\ [Next]_vars => (TInv /\ SInv)'
  <1> SUFFICES ASSUME TInv, SInv, [Next]_vars PROVE SInv' /\ TInv'
    BY Zenon
  <1>1. TInv'
    BY Zenon, TypeStep
  <1>2. CASE UNCHANGED vars
    <2>1. UNCHANGED <<row, wk, settled, finalNonce, landed>>
      BY Zenon, <1>2 DEF vars, dbVars, chainVars
    <2>2. PlainWorkers
      BY Zenon, <2>1 DEF PlainWorkers
    <2> QED
      BY Zenon, <1>1, <2>1, <2>2, PlainWorkerOnly
  <1>3. ASSUME NEW p \in Workers, Continue(p) \/ WorkerFault(p) PROVE SInv'
    BY Zenon, <1>1, <1>3, SettleWork, SettleReadStatus, SettleConfirm, SettleSettle,
       SettleRetry DEF Continue, WorkerFault
  <1> QED
    BY Zenon, <1>1, <1>2, <1>3, SettleHandler, SettlePick, SettleChain DEF Next

(* A withdrawal is CONFIRMED or SETTLED only when a transaction of its own   *)
(* has landed and is final (confirmOne of withdrawal-workers.ts), for any    *)
(* number of withdrawals, workers and nonce accounts and under every fault.  *)
THEOREM SettledWasFinalAlways == Spec => []SettledWasFinal
  <1>1. TInv /\ SInv => SettledWasFinal
    BY Zenon DEF SInv
  <1> QED
    BY <1>1, TypeInit, SettleInit, SettleStep, PTL DEF Spec

(* The settlement posting is made exactly once for a settled withdrawal and  *)
(* never for another, however many workers confirm at once: settle() ignores *)
(* its compare-and-set, but only the winner of the one before gets there.    *)
THEOREM SettledOnceAlways == Spec => []SettledOnce
  <1>1. TInv /\ SInv => SettledOnce
    BY Zenon DEF SInv
  <1> QED
    BY <1>1, TypeInit, SettleInit, SettleStep, PTL DEF Spec

(* A withdrawal is settled once and only for a final payment of its own      *)
(* (confirmOne, settle).                                                     *)
THEOREM SettlementIsRightAlways == Spec => []SettlementIsRight
BY SettledWasFinalAlways, SettledOnceAlways, PTL DEF SettlementIsRight

-----------------------------------------------------------------------------
(* One payment per withdrawal: the inductive invariant                       *)
(*                                                                           *)
(* With one worker that does not die half way, answers that are true and a   *)
(* chain that stands still between confirmOne's two reads, whatever was sent *)
(* for a withdrawal is what its row stores, and the row leaves BROADCAST for *)
(* a new attempt only once that can never land.  These are the faults the    *)
(* argument survives: rounds that fail, refused broadcasts, reads that       *)
(* throw, dropped and reverted transactions, locks that cannot be posted.    *)

Steady ==
    /\ \A p, q \in Workers : p = q
    /\ Faults \cap {"crash", "timeout", "race"} = {}

SentTx == landed \cup mempool

AtSign    == {"lease", "read", "sign"}
AtSend    == {"send", "note", "refused", "spent"}
AtConfirm == {"status", "nonce", "reverted", "confirm", "resend", "expire"}
AtRetry   == {"drop", "requeue", "unlock", "unlease", "fail"}
Unsent    == {"send", "refused", "spent", "reverted", "expire"}

\* The status of the row a worker is busy with.
StatusAt(s) ==
    CASE s.at \in AtSign               -> "SIGNING"
      [] s.at \in AtSend \cup AtConfirm -> "BROADCAST"
      [] s.at = "settle"               -> "CONFIRMED"
      [] OTHER                         -> s.from

ChainOK ==
    /\ \A a \in Accounts : finalNonce[a] <= nonce[a]
    /\ \A t \in mempool : nonce[t.a] = t.n
    /\ \A t \in landed \cup reverted : nonce[t.a] > t.n
    /\ landed \cap reverted = {}

Sending(w)  == \E p \in Workers : wk[p].w = w /\ wk[p].at \in AtSend
GivingUp(w) == \E p \in Workers : wk[p].w = w /\ wk[p].at \in {"unlease", "fail"}

RowOK(w) ==
    /\ \A t \in SentTx : t.w = w =>
         row[w].bytes = t /\ row[w].status \in {"BROADCAST", "CONFIRMED", "SETTLED"}
    /\ row[w].status \in {"SIGNED", "BROADCAST"} =>
         row[w].bytes.n <= finalNonce[row[w].bytes.a] /\ lease[row[w].bytes.a] = w
    /\ row[w].status = "BROADCAST" => row[w].sig = row[w].bytes \/ Sending(w)
    /\ \A a \in Accounts : lease[a] = w => row[w].status \in LOCKED
    /\ released[w] # 0 => released[w] = 1 /\ (row[w].status = "FAILED" \/ GivingUp(w))

WorkerOK(p) ==
    LET s == wk[p] IN
    s.at # "idle" =>
      /\ row[s.w].status = StatusAt(s)
      /\ s.at \in AtSend \cup AtConfirm => s.bytes = row[s.w].bytes
      /\ s.at = "status" => s.sig = s.bytes
      /\ s.at \in Unsent => s.bytes \notin SentTx
      /\ s.at = "nonce" /\ s.bytes \in landed => finalNonce[s.bytes.a] <= s.bytes.n
      /\ s.at = "sign" => s.bytes.n <= finalNonce[s.bytes.a]
      /\ s.at \in {"read", "sign"} => lease[s.bytes.a] = s.w
      /\ s.at = "fail" => \A a \in Accounts : lease[a] # s.w

PInv == ChainOK /\ (\A w \in W : RowOK(w)) /\ (\A p \in Workers : WorkerOK(p))

-----------------------------------------------------------------------------
\* Nothing is sent or held at the start.
LEMMA PaidInit == Init => PInv
  <1> SUFFICES ASSUME Init PROVE PInv
    BY Zenon
  <1>1. /\ mempool = {} /\ landed = {} /\ reverted = {}
        /\ \A a \in Accounts : finalNonce[a] = 0 /\ nonce[a] = 0 /\ lease[a] = 0
        /\ \A w \in W : row[w].status = "ABSENT" /\ released[w] = 0
        /\ \A p \in Workers : wk[p].at = "idle"
    BY Zenon DEF Init, Absent, IdleWorker
  <1>2. ChainOK
    BY <1>1 DEF ChainOK
  <1>3. ASSUME NEW w \in W PROVE RowOK(w)
    BY Zenon, <1>1, <1>3, WAssumption DEF RowOK, SentTx
  <1>4. ASSUME NEW p \in Workers PROVE WorkerOK(p)
    BY Zenon, <1>1, <1>4 DEF WorkerOK
  <1> QED
    BY Zenon, <1>2, <1>3, <1>4 DEF PInv

\* A step of the worker touches the row it is busy with, and no other.
LEMMA OneRow ==
    ASSUME Steady, PInv, NEW p \in Workers, NEW w \in W,
           wk[p].at = "idle" \/ wk[p].w = w,
           \A v \in W : v # w => row'[v] = row[v] /\ released'[v] = released[v],
           \A v \in W, a \in Accounts : v # w => (lease'[a] = v <=> lease[a] = v),
           UNCHANGED <<nonce, finalNonce, landed, reverted>>,
           \A t \in mempool' : t \in mempool \/ (t.w = w /\ nonce[t.a] = t.n),
           \A v \in W : row[v].status \in {"SIGNED", "BROADCAST"} => row[v].bytes.a \in Accounts,
           RowOK(w)', WorkerOK(p)'
    PROVE  PInv'
  <1>1. ChainOK'
    BY Zenon DEF PInv, ChainOK
  <1>2. \A q \in Workers : q = p
    BY Zenon DEF Steady
  <1>3. ASSUME NEW v \in W PROVE RowOK(v)'
    <2>1. CASE v = w
      BY Zenon, <2>1
    <2>2. CASE v # w
      <3>1. ~Sending(v) /\ ~GivingUp(v)
        BY Zenon, <1>2, <2>2 DEF Sending, GivingUp, AtSend
      <3>2. RowOK(v)
        BY Zenon DEF PInv
      <3>3. row'[v] = row[v] /\ released'[v] = released[v]
        BY Zenon, <2>2
      <3>4. \A t \in SentTx' : t.w = v => t \in SentTx
        BY Zenon, <2>2 DEF SentTx
      <3>5. \A a \in Accounts : lease'[a] = v <=> lease[a] = v
        BY Zenon, <2>2
      <3> QED
        BY Zenon, <3>1, <3>2, <3>3, <3>4, <3>5 DEF RowOK
    <2> QED
      BY Zenon, <2>1, <2>2
  <1> QED
    BY Zenon, <1>1, <1>2, <1>3 DEF PInv

\* The status by the stage.
LEMMA StatusByStage ==
    ASSUME NEW s
    PROVE  /\ s.at \in AtSign => StatusAt(s) = "SIGNING"
           /\ s.at \in AtSend \cup AtConfirm => StatusAt(s) = "BROADCAST"
           /\ s.at = "settle" => StatusAt(s) = "CONFIRMED"
           /\ s.at \in AtRetry => StatusAt(s) = s.from
  BY Zenon DEF StatusAt, AtSign, AtSend, AtConfirm, AtRetry

\* What is known of a worker at work and of the row it is busy with.
LEMMA Busy ==
    ASSUME Steady, TInv, PInv, NEW p \in Workers, wk[p].at # "idle",
           NEW w \in W, wk[p].w = w
    PROVE  /\ wk[p] \in WorkerState /\ row[w] \in Row
           /\ RowOK(w) /\ WorkerOK(p) /\ row[w].status = StatusAt(wk[p])
           /\ wk[p].at \notin AtSend => ~Sending(w)
           /\ wk[p].at \notin {"unlease", "fail"} => ~GivingUp(w)
           /\ wk[p].at \in AtRetry => wk[p].from \in RetryEdges
           /\ row[w].bytes \notin SentTx \/ row[w].status \notin {"BROADCAST", "CONFIRMED", "SETTLED"}
                => \A t \in SentTx : t.w # w
           /\ \A v \in W : row[v].status \in {"SIGNED", "BROADCAST"} =>
                row[v].bytes \in Tx /\ row[v].bytes.a \in Accounts /\ row[v].bytes.w = v
  <1>1. wk[p] \in WorkerState /\ wk[p] \in OwnWorker
    BY Zenon, AtWork
  <1>2. row[w] \in Row /\ RowOK(w) /\ WorkerOK(p)
    BY Zenon, <1>1 DEF TInv, TypeOK, PInv
  <1>3. \A q \in Workers : q = p
    BY Zenon DEF Steady
  <1>4. \A v \in W : row[v].status \in {"SIGNED", "BROADCAST"} =>
          row[v].bytes \in Tx /\ row[v].bytes.a \in Accounts /\ row[v].bytes.w = v
    BY Zenon, NoTxIsNone DEF TInv, Ownership, OwnRow, Tx
  <1>5. wk[p].at \in AtRetry => wk[p].from \in RetryEdges
    BY Zenon, <1>1 DEF OwnWorker, AtRetry
  <1>6. row[w].status = StatusAt(wk[p])
    BY Zenon, <1>2 DEF WorkerOK
  <1>7. row[w].bytes \notin SentTx \/ row[w].status \notin {"BROADCAST", "CONFIRMED", "SETTLED"}
          => \A t \in SentTx : t.w # w
    BY Zenon, <1>2 DEF RowOK
  <1>8. /\ wk[p].at \notin AtSend => ~Sending(w)
        /\ wk[p].at \notin {"unlease", "fail"} => ~GivingUp(w)
    BY Zenon, <1>3 DEF Sending, GivingUp
  <1> QED
    BY Zenon, <1>1, <1>2, <1>4, <1>5, <1>6, <1>7, <1>8

\* The worker writes its row and is done.
LEMMA RowWritten ==
    ASSUME Steady, TInv, PInv, NEW p \in Workers, wk[p].at # "idle",
           NEW w \in W, wk[p].w = w, NEW new \in Row,
           row' = [row EXCEPT ![w] = new], Done(p), UNCHANGED <<lease, released, chainVars>>,
           \/ \A t \in SentTx : t.w # w
           \/ new.status = row[w].status /\ new.bytes = row[w].bytes,
           new.status \in {"SIGNED", "BROADCAST"} =>
             new.bytes.n <= finalNonce[new.bytes.a] /\ lease[new.bytes.a] = w,
           new.status = "BROADCAST" => new.sig = new.bytes,
           new.status \in LOCKED \/ wk[p].at = "fail",
           wk[p].at \in {"unlease", "fail"} => new.status = "FAILED"
    PROVE  PInv'
  <1>1. /\ w \in W /\ row[w] \in Row /\ RowOK(w) /\ WorkerOK(p)
        /\ row[w].status = StatusAt(wk[p])
        /\ wk[p].at \notin {"unlease", "fail"} => ~GivingUp(w)
        /\ wk[p].at \in AtRetry => wk[p].from \in RetryEdges
        /\ \A v \in W : row[v].status \in {"SIGNED", "BROADCAST"} => row[v].bytes.a \in Accounts
    BY Zenon, Busy
  <1>2. wk'[p].at = "idle"
    BY Zenon DEF Done, IdleWorker, TInv, TypeOK
  <1>3. WorkerOK(p)'
    BY Zenon, <1>2 DEF WorkerOK
  <1>4. UNCHANGED <<nonce, finalNonce, mempool, landed, reverted>> /\ SentTx' = SentTx
    BY Zenon DEF chainVars, SentTx
  <1>5. row'[w] = new /\ \A v \in W : v # w => row'[v] = row[v]
    BY Zenon, <1>1 DEF TInv, TypeOK
  <1>6. row[w].status # "FAILED"
    BY Zenon, <1>1 DEF StatusAt, AtSign, AtSend, AtConfirm, AtRetry, RetryEdges, WorkerState, Stages,
                TInv, TypeOK
  <1>7. RowOK(w)'
    <2>1. \A t \in SentTx : t.w = w =>
            new.bytes = t /\ new.status \in {"BROADCAST", "CONFIRMED", "SETTLED"}
      BY Zenon, <1>1 DEF RowOK
    <2>2. \A a \in Accounts : lease[a] = w => new.status \in LOCKED
      BY Zenon, <1>1 DEF WorkerOK
    <2>3. released[w] # 0 => released[w] = 1 /\ new.status = "FAILED"
      BY Zenon, <1>1, <1>6 DEF RowOK
    <2> QED
      BY Zenon, <1>4, <1>5, <2>1, <2>2, <2>3 DEF RowOK
  <1> QED
    BY Zenon, <1>1, <1>3, <1>4, <1>5, <1>7, OneRow

\* The worker goes on, or is done, and its row stays; it may have sent its bytes.
LEMMA RowKept ==
    ASSUME Steady, TInv, PInv, NEW p \in Workers, wk[p].at # "idle",
           NEW w \in W, wk[p].w = w,
           UNCHANGED <<row, lease, released, nonce, finalNonce, landed, reverted>>,
           wk[p].at \in AtSend => wk'[p].w = w /\ wk'[p].at \in AtSend,
           wk[p].at \notin {"unlease", "fail"},
           \/ mempool' = mempool
           \/ /\ mempool' = Submitted(wk[p].bytes) /\ wk[p].bytes \in Tx
              /\ wk[p].at \in AtSend \cup AtConfirm,
           WorkerOK(p)'
    PROVE  PInv'
  <1> DEFINE b == wk[p].bytes
  <1>1. /\ w \in W /\ row[w] \in Row /\ RowOK(w) /\ WorkerOK(p)
        /\ row[w].status = StatusAt(wk[p])
        /\ wk[p].at \notin AtSend => ~Sending(w)
        /\ ~GivingUp(w)
        /\ \A v \in W : row[v].status \in {"SIGNED", "BROADCAST"} =>
             row[v].bytes \in Tx /\ row[v].bytes.a \in Accounts /\ row[v].bytes.w = v
    BY Zenon, Busy
  <1>2. \A t \in mempool' : \/ t \in mempool
                            \/ /\ t = row[w].bytes /\ row[w].status = "BROADCAST"
                               /\ t.w = w /\ nonce[t.a] = t.n
    <2>1. CASE mempool' = mempool
      BY Zenon, <2>1
    <2>2. CASE /\ mempool' = Submitted(b) /\ wk[p].at \in AtSend \cup AtConfirm
      <3>1. b = row[w].bytes /\ row[w].status = "BROADCAST"
        BY Zenon, <1>1, <2>2 DEF WorkerOK, StatusAt, AtSign, AtSend, AtConfirm
      <3>2. b.w = w
        BY Zenon, <1>1, <3>1
      <3> HIDE DEF b
      <3> QED
        BY Zenon, <2>2, <3>1, <3>2 DEF Submitted
    <2> QED
      BY Zenon, <2>1, <2>2
  <1>3. Sending(w) => Sending(w)'
    BY Zenon, <1>1 DEF Sending
  <1>4. RowOK(w)'
    <2>1. \A t \in SentTx' : t \in SentTx \/ (t = row[w].bytes /\ row[w].status = "BROADCAST")
      BY Zenon, <1>2 DEF SentTx
    <2> QED
      BY Zenon, <1>1, <1>3, <2>1 DEF RowOK
  <1> QED
    BY Zenon, <1>1, <1>2, <1>4, OneRow

\* The signing worker: nothing of the withdrawal is out while it is SIGNING.
LEMMA PaidSign ==
    ASSUME Steady, TInv, PInv, NEW p \in Workers,
           Lease(p) \/ ReadNonce(p) \/ StoreSigned(p) \/ SigningFails(p)
    PROVE  PInv'
  <1>1. wk[p].at \in AtSign
    BY Zenon DEF Lease, ReadNonce, StoreSigned, SigningFails, At, AtSign
  <1>2. PICK w \in W : wk[p].w = w
    BY Zenon, <1>1, AtWork DEF AtSign
  <1>3. /\ wk[p] \in WorkerState /\ row[w] \in Row /\ RowOK(w) /\ WorkerOK(p)
        /\ row[w].status = "SIGNING" /\ ~GivingUp(w)
        /\ \A t \in SentTx : t.w # w
        /\ \A v \in W : row[v].status \in {"SIGNED", "BROADCAST"} => row[v].bytes.a \in Accounts
    <2>1. wk[p].at # "idle" /\ wk[p].at \notin {"unlease", "fail"} /\ StatusAt(wk[p]) = "SIGNING"
      BY Zenon, <1>1, StatusByStage DEF AtSign
    <2> QED
      BY Zenon, <1>2, <2>1, Busy
  <1>4. ASSUME NEW new \in Row, new.status = "SIGN_FAILED",
               Transition(w, "SIGNING", new), Done(p), UNCHANGED <<lease, released, chainVars>>
        PROVE  PInv'
    <2>1. row' = [row EXCEPT ![w] = new]
      BY Zenon, <1>3, <1>4 DEF Transition
    <2> QED
      BY Zenon, <1>1, <1>2, <1>3, <1>4, <2>1, RowWritten DEF AtSign, LOCKED
  <1>5. CASE Lease(p)
    <2>1. CASE /\ Transition(w, "SIGNING", To(w, "SIGN_FAILED")) /\ Done(p) /\ UNCHANGED lease
      <3>1. To(w, "SIGN_FAILED") \in Row /\ To(w, "SIGN_FAILED").status = "SIGN_FAILED"
        BY Zenon, <1>3, ToRow DEF Statuses
      <3>2. UNCHANGED <<lease, released, chainVars>>
        BY Zenon, <1>5, <2>1 DEF Lease
      <3> QED
        BY Zenon, <1>4, <2>1, <3>1, <3>2
    <2>2. CASE \E a \in Accounts :
                 /\ lease[a] = w \/ lease[a] = 0
                 /\ lease' = [lease EXCEPT ![a] = w]
                 /\ wk' = [wk EXCEPT ![p].at = "read",
                                     ![p].bytes = [w |-> w, a |-> a, n |-> 0]]
                 /\ UNCHANGED row
      <3>1. PICK a \in Accounts :
                 /\ lease[a] = w \/ lease[a] = 0
                 /\ lease' = [lease EXCEPT ![a] = w]
                 /\ wk' = [wk EXCEPT ![p].at = "read",
                                     ![p].bytes = [w |-> w, a |-> a, n |-> 0]]
                 /\ UNCHANGED row
        BY Zenon, <2>2
      <3>2. /\ wk'[p].at = "read" /\ wk'[p].w = w /\ wk'[p].bytes.a = a
        BY Zenon, <1>2, <1>3, <3>1 DEF TInv, TypeOK, WorkerState
      <3>3. lease'[a] = w /\ \A c \in Accounts : c # a => lease'[c] = lease[c]
        BY Zenon, <3>1 DEF TInv, TypeOK
      <3>4. UNCHANGED <<released, nonce, finalNonce, mempool, landed, reverted>>
        BY Zenon, <1>5 DEF Lease, chainVars
      <3>5. WorkerOK(p)'
        BY Zenon, <1>3, <3>1, <3>2, <3>3 DEF WorkerOK, StatusAt, AtSign, AtSend, AtConfirm, Unsent
      <3>6. RowOK(w)'
        BY Zenon, <1>3, <3>1, <3>4 DEF RowOK, SentTx, LOCKED
      <3>7. \A v \in W, c \in Accounts : v # w => (lease'[c] = v <=> lease[c] = v)
        BY Zenon, <3>1, <3>3, WAssumption
      <3> QED
        BY Zenon, <1>2, <1>3, <3>1, <3>4, <3>5, <3>6, <3>7, OneRow
    <2> QED
      BY Zenon, <1>2, <1>5, <2>1, <2>2 DEF Lease, HeldBy
  <1>6. CASE ReadNonce(p)
    <2>1. UNCHANGED <<row, lease, released, nonce, finalNonce, mempool, landed, reverted>>
      BY Zenon, <1>6 DEF ReadNonce, dbVars, chainVars
    <2>2. wk[p].at = "read" /\ wk[p].bytes \in Tx
      BY Zenon, <1>2, <1>6, AtWork DEF ReadNonce, At, HoldsBytes
    <2>3. /\ wk'[p].at = "sign" /\ wk'[p].w = w /\ wk'[p].bytes.a = wk[p].bytes.a
          /\ wk'[p].bytes.n = finalNonce[wk[p].bytes.a]
      BY Zenon, <1>2, <1>3, <1>6, <2>2 DEF ReadNonce, TInv, TypeOK, WorkerState, Tx
    <2>4. finalNonce[wk[p].bytes.a] \in Nat
      BY Zenon, <2>2 DEF Tx, TInv, TypeOK
    <2>5. WorkerOK(p)'
      BY <1>2, <1>3, <2>1, <2>2, <2>3, <2>4
         DEF WorkerOK, StatusAt, AtSign, AtSend, AtConfirm, Unsent
    <2> QED
      BY Zenon, <1>2, <2>1, <2>2, <2>5, RowKept DEF AtSend
  <1>7. CASE StoreSigned(p)
    <2> DEFINE r == [To(w, "SIGNED") EXCEPT !.bytes = wk[p].bytes]
    <2>1. wk[p].at = "sign" /\ wk[p].bytes \in Tx
      BY Zenon, <1>2, <1>7, AtWork DEF StoreSigned, At, HoldsBytes
    <2>2. To(w, "SIGNED") \in Row /\ To(w, "SIGNED").status = "SIGNED"
      BY Zenon, <1>3, ToRow DEF Statuses
    <2>3. r \in Row /\ r.bytes = wk[p].bytes /\ r.status = "SIGNED"
      BY Zenon, <2>1, <2>2 DEF Row
    <2>4. row' = [row EXCEPT ![w] = r]
      BY Zenon, <1>2, <1>3, <1>7 DEF StoreSigned, Transition
    <2>5. Done(p) /\ UNCHANGED <<lease, released, chainVars>>
      BY Zenon, <1>7 DEF StoreSigned
    <2> HIDE DEF r
    <2> QED
      BY Zenon, <1>2, <1>3, <2>1, <2>3, <2>4, <2>5, RowWritten DEF WorkerOK, LOCKED
  <1>8. CASE SigningFails(p)
    <2>1. Failed(w, "SIGN_FAILED", "sign") \in Row
          /\ Failed(w, "SIGN_FAILED", "sign").status = "SIGN_FAILED"
      BY <1>3, FailedRow DEF Statuses
    <2> QED
      BY Zenon, <1>2, <1>4, <1>8, <2>1 DEF SigningFails
  <1> QED
    BY Zenon, <1>5, <1>6, <1>7, <1>8

\* The broadcast worker: until the bytes are submitted nothing is out, and a
\* refusal is true.
LEMMA PaidBroadcast ==
    ASSUME Steady, TInv, PInv, NEW p \in Workers,
           \/ Broadcast(p) \/ NoteSignature(p)
           \/ BroadcastRefused(p) \/ BroadcastSpent(p)
    PROVE  PInv'
  <1>1. wk[p].at \in AtSend /\ wk[p].at # "idle"
    BY Zenon DEF Broadcast, NoteSignature, BroadcastRefused, BroadcastSpent, At, AtSend
  <1>2. PICK w \in W : wk[p].w = w
    BY Zenon, <1>1, AtWork
  <1>3. /\ wk[p] \in WorkerState /\ row[w] \in Row /\ RowOK(w) /\ WorkerOK(p)
        /\ row[w].status = "BROADCAST" /\ wk[p].bytes = row[w].bytes
        /\ row[w].bytes \in Tx /\ row[w].bytes \notin SentTx => \A t \in SentTx : t.w # w
    <2>1. StatusAt(wk[p]) = "BROADCAST"
      BY Zenon, <1>1, StatusByStage
    <2>2. /\ wk[p] \in WorkerState /\ row[w] \in Row /\ RowOK(w) /\ WorkerOK(p)
          /\ row[w].status = "BROADCAST"
          /\ row[w].bytes \notin SentTx => \A t \in SentTx : t.w # w
      BY Zenon, <1>1, <1>2, <2>1, Busy
    <2> QED
      BY Zenon, <1>1, <1>2, <2>2 DEF WorkerOK
  <1>4. ASSUME NEW new \in Row, new.status \in {"BROADCAST_FAILED", "EXPIRED"},
               wk[p].at \in {"refused", "spent"}, Transition(w, "BROADCAST", new), Done(p),
               UNCHANGED <<lease, released, chainVars>>
        PROVE  PInv'
    <2>1. row' = [row EXCEPT ![w] = new]
      BY Zenon, <1>3, <1>4 DEF Transition
    <2>2. \A t \in SentTx : t.w # w
      BY Zenon, <1>1, <1>2, <1>3, <1>4, Busy DEF WorkerOK, Unsent
    <2> QED
      BY Zenon, <1>1, <1>2, <1>4, <2>1, <2>2, RowWritten DEF LOCKED
  <1>5. CASE Broadcast(p)
    <2> DEFINE b == wk[p].bytes
    <2>1. wk[p].at = "send" /\ b \in Tx /\ b \notin SentTx
      BY Zenon, <1>1, <1>2, <1>3, <1>5, AtWork DEF Broadcast, At, HoldsBytes, WorkerOK, Unsent
    <2>2. \/ mempool' = Submitted(b) /\ Goto(p, "note")
          \/ mempool' = mempool /\ \E at \in {"refused", "spent"} : Goto(p, at)
      BY Zenon, <1>5 DEF Broadcast, Steady
    <2>3. UNCHANGED <<row, lease, released, nonce, finalNonce, landed, reverted>>
      BY Zenon, <1>5 DEF Broadcast, dbVars
    <2>4. /\ wk'[p].w = w /\ wk'[p].bytes = b /\ wk'[p].at \in {"note", "refused", "spent"}
          /\ wk'[p].at # "note" => mempool' = mempool
      BY <1>2, <1>3, <2>2 DEF Goto, TInv, TypeOK, WorkerState
    <2>5. StatusAt(wk[p])' = "BROADCAST"
      BY Zenon, <2>4, StatusByStage DEF AtSend
    <2>6. WorkerOK(p)'
      BY Zenon, <1>3, <2>1, <2>3, <2>4, <2>5 DEF WorkerOK, SentTx, Unsent
    <2> QED
      BY Zenon, <1>1, <1>2, <2>1, <2>2, <2>3, <2>4, <2>6, RowKept DEF AtSend
  <1>6. CASE NoteSignature(p)
    <2> DEFINE r == [row[w] EXCEPT !.sig = wk[p].bytes]
    <2>1. row' = [row EXCEPT ![w] = r] /\ wk[p].at = "note" /\ wk[p].bytes \in Tx
      BY Zenon, <1>1, <1>2, <1>6, AtWork DEF NoteSignature, At, HoldsBytes, TInv, TypeOK
    <2>2. r \in Row /\ r.sig = wk[p].bytes /\ r.bytes = row[w].bytes /\ r.status = row[w].status
      BY Zenon, <1>3, <2>1 DEF Row
    <2>3. Done(p) /\ UNCHANGED <<lease, released, chainVars>>
      BY Zenon, <1>6 DEF NoteSignature
    <2> HIDE DEF r
    <2> QED
      BY Zenon, <1>1, <1>2, <1>3, <2>1, <2>2, <2>3, RowWritten DEF RowOK, LOCKED
  <1>7. CASE BroadcastRefused(p)
    <2>1. Failed(w, "BROADCAST_FAILED", "broadcast") \in Row
          /\ Failed(w, "BROADCAST_FAILED", "broadcast").status = "BROADCAST_FAILED"
      BY <1>3, FailedRow DEF Statuses
    <2> QED
      BY Zenon, <1>2, <1>4, <1>7, <2>1 DEF BroadcastRefused, At
  <1>8. CASE BroadcastSpent(p)
    <2>1. Failed(w, "EXPIRED", "expiry") \in Row /\ Failed(w, "EXPIRED", "expiry").status = "EXPIRED"
      BY <1>3, FailedRow DEF Statuses
    <2> QED
      BY Zenon, <1>2, <1>4, <1>8, <2>1 DEF BroadcastSpent, At
  <1> QED
    BY Zenon, <1>5, <1>6, <1>7, <1>8

\* The confirmation worker: a row leaves BROADCAST for a new attempt only when
\* its bytes failed on the chain or their nonce was spent without them.
LEMMA PaidConfirm ==
    ASSUME Steady, TInv, PInv, NEW p \in Workers,
           \/ ReadStatus(p) \/ Reverted(p) \/ Confirm(p)
           \/ ReadAdvanced(p) \/ Rebroadcast(p) \/ Expire(p)
    PROVE  PInv'
  <1>1. wk[p].at \in AtConfirm /\ wk[p].at # "idle"
    BY Zenon DEF ReadStatus, Reverted, Confirm, ReadAdvanced, Rebroadcast, Expire, At, AtConfirm
  <1>2. PICK w \in W : wk[p].w = w
    BY Zenon, <1>1, AtWork
  <1> DEFINE b == wk[p].bytes
  <1>3. /\ wk[p] \in WorkerState /\ row[w] \in Row /\ RowOK(w) /\ WorkerOK(p)
        /\ row[w].status = "BROADCAST" /\ b = row[w].bytes
        /\ ~GivingUp(w)
        /\ row[w].bytes \notin SentTx => \A t \in SentTx : t.w # w
        /\ b \in Tx /\ b.a \in Accounts /\ b.n \in Nat
        /\ nonce[b.a] \in Nat /\ finalNonce[b.a] \in Nat
        /\ b.n <= finalNonce[b.a] /\ finalNonce[b.a] <= nonce[b.a]
        /\ \A v \in W : row[v].status \in {"SIGNED", "BROADCAST"} => row[v].bytes.a \in Accounts
    <2>1. StatusAt(wk[p]) = "BROADCAST" /\ wk[p].at \notin {"unlease", "fail"}
      BY Zenon, <1>1, StatusByStage DEF AtConfirm
    <2>2. /\ wk[p] \in WorkerState /\ row[w] \in Row /\ RowOK(w) /\ WorkerOK(p)
          /\ row[w].status = "BROADCAST" /\ ~GivingUp(w)
          /\ row[w].bytes \notin SentTx => \A t \in SentTx : t.w # w
          /\ \A v \in W : row[v].status \in {"SIGNED", "BROADCAST"} =>
               row[v].bytes \in Tx /\ row[v].bytes.a \in Accounts
      BY Zenon, <1>1, <1>2, <2>1, Busy
    <2>3. b = row[w].bytes
      BY Zenon, <1>1, <1>2, <2>2 DEF WorkerOK
    <2>4. b \in Tx /\ b.a \in Accounts /\ b.n \in Nat
      BY Zenon, <2>2, <2>3 DEF Tx
    <2> HIDE DEF b
    <2>5. nonce[b.a] \in Nat /\ finalNonce[b.a] \in Nat /\ finalNonce[b.a] <= nonce[b.a]
      BY Zenon, <2>4 DEF TInv, TypeOK, PInv, ChainOK
    <2>6. b.n <= finalNonce[b.a]
      BY Zenon, <2>2, <2>3 DEF RowOK
    <2> QED
      BY Zenon, <2>2, <2>3, <2>4, <2>5, <2>6
  <1>4. ASSUME NEW new \in Row, new.status \in {"BROADCAST_FAILED", "EXPIRED"},
               wk[p].at \in {"reverted", "expire"}, Transition(w, "BROADCAST", new), Done(p),
               UNCHANGED <<lease, released, chainVars>>
        PROVE  PInv'
    <2>1. row' = [row EXCEPT ![w] = new]
      BY Zenon, <1>3, <1>4 DEF Transition
    <2>2. \A t \in SentTx : t.w # w
      BY Zenon, <1>1, <1>3, <1>4 DEF WorkerOK, Unsent
    <2> QED
      BY Zenon, <1>1, <1>2, <1>4, <2>1, <2>2, RowWritten DEF LOCKED
  <1>5. ASSUME NEW at \in AtConfirm, Goto(p, at), UNCHANGED <<dbVars, chainVars>>,
               at # "status", at \in Unsent => b \notin SentTx,
               at = "nonce" /\ b \in landed => finalNonce[b.a] <= b.n
        PROVE  PInv'
    <2>1. UNCHANGED <<row, lease, released, nonce, finalNonce, mempool, landed, reverted>>
      BY Zenon, <1>5 DEF dbVars, chainVars
    <2>2. wk'[p].w = w /\ wk'[p].bytes = b /\ wk'[p].at = at
      BY Zenon, <1>2, <1>3, <1>5 DEF Goto, TInv, TypeOK, WorkerState
    <2>3. StatusAt(wk[p])' = "BROADCAST"
      BY Zenon, <1>5, <2>2, StatusByStage
    <2>4. SentTx' = SentTx
      BY Zenon, <2>1 DEF SentTx
    <2> HIDE DEF b
    <2>5. WorkerOK(p)'
      BY Zenon, <1>3, <1>5, <2>1, <2>2, <2>3, <2>4 DEF WorkerOK, AtConfirm
    <2> QED
      BY Zenon, <1>1, <1>2, <2>1, <2>5, RowKept DEF AtConfirm, AtSend
  <1>6. CASE ReadStatus(p)
    <2>1. wk[p].sig = b /\ UNCHANGED <<dbVars, chainVars>>
      BY Zenon, <1>1, <1>3, <1>6 DEF ReadStatus, At, WorkerOK
    <2>2. \/ FinalStatus(b) = "final" /\ Goto(p, "confirm")
          \/ FinalStatus(b) = "failed" /\ Goto(p, "reverted")
          \/ FinalStatus(b) = "pending" /\ Goto(p, "nonce")
      BY <1>6, <2>1 DEF ReadStatus, FinalStatus
    <2> HIDE DEF b
    <2>3. CASE FinalStatus(b) = "final" /\ Goto(p, "confirm")
      BY Zenon, <1>5, <2>1, <2>3 DEF AtConfirm, Unsent
    <2>4. CASE FinalStatus(b) = "failed" /\ Goto(p, "reverted")
      <3>1. b \in reverted
        BY Zenon, <2>4 DEF FinalStatus
      <3>2. b \notin SentTx
        BY <1>3, <3>1 DEF SentTx, PInv, ChainOK
      <3> QED
        BY Zenon, <1>5, <2>1, <2>4, <3>2 DEF AtConfirm
    <2>5. CASE FinalStatus(b) = "pending" /\ Goto(p, "nonce")
      <3>1. b \in landed => ~(finalNonce[b.a] > b.n)
        BY Zenon, <2>5 DEF FinalStatus, PInv, ChainOK
      <3> QED
        BY <1>3, <1>5, <2>1, <2>5, <3>1 DEF AtConfirm, Unsent
    <2> QED
      BY Zenon, <2>2, <2>3, <2>4, <2>5
  <1>7. CASE ReadAdvanced(p)
    <2>1. wk[p].at = "nonce" /\ UNCHANGED <<dbVars, chainVars>>
      BY Zenon, <1>7 DEF ReadAdvanced, At
    <2>2. CASE finalNonce[b.a] = b.n /\ Goto(p, "resend")
      BY Zenon, <1>5, <2>1, <2>2 DEF AtConfirm, Unsent
    <2>3. CASE finalNonce[b.a] # b.n /\ Goto(p, "expire")
      <3>1. finalNonce[b.a] > b.n
        BY <1>3, <2>3
      <3>2. b \notin landed
        BY <1>1, <1>3, <2>1, <3>1 DEF WorkerOK
      <3>3. b \notin mempool
        BY <1>3, <3>1 DEF PInv, ChainOK
      <3> QED
        BY Zenon, <1>5, <2>1, <2>3, <3>2, <3>3 DEF AtConfirm, SentTx
    <2> QED
      BY Zenon, <1>7, <2>2, <2>3 DEF ReadAdvanced
  <1>8. CASE Rebroadcast(p)
    <2>1. /\ mempool' = mempool \/ mempool' = Submitted(b)
          /\ UNCHANGED <<row, lease, released, nonce, finalNonce, landed, reverted>>
      BY Zenon, <1>8 DEF Rebroadcast, dbVars
    <2>2. wk'[p].at = "idle"
      BY Zenon, <1>8 DEF Rebroadcast, Done, IdleWorker, TInv, TypeOK
    <2>3. WorkerOK(p)'
      BY Zenon, <2>2 DEF WorkerOK
    <2> QED
      BY Zenon, <1>1, <1>2, <1>3, <2>1, <2>3, RowKept DEF AtConfirm, AtSend
  <1>9. CASE Reverted(p) \/ Expire(p)
    <2>1. /\ Failed(w, "BROADCAST_FAILED", "broadcast") \in Row
          /\ Failed(w, "BROADCAST_FAILED", "broadcast").status = "BROADCAST_FAILED"
          /\ Failed(w, "EXPIRED", "expiry") \in Row
          /\ Failed(w, "EXPIRED", "expiry").status = "EXPIRED"
      BY <1>3, FailedRow DEF Statuses
    <2> QED
      BY Zenon, <1>2, <1>4, <1>9, <2>1 DEF Reverted, Expire, At
  <1>10. CASE Confirm(p)
    <2>1. /\ row' = [row EXCEPT ![w] = To(w, "CONFIRMED")] /\ Goto(p, "settle")
          /\ UNCHANGED <<lease, released, nonce, finalNonce, mempool, landed, reverted>>
      BY Zenon, <1>2, <1>3, <1>10 DEF Confirm, Transition, chainVars
    <2>2. /\ To(w, "CONFIRMED").status = "CONFIRMED" /\ To(w, "CONFIRMED").bytes = row[w].bytes
      BY Zenon, <1>3, ToRow DEF Statuses
    <2>3. /\ row'[w].status = "CONFIRMED" /\ row'[w].bytes = row[w].bytes
          /\ \A v \in W : v # w => row'[v] = row[v]
      BY Zenon, <2>1, <2>2 DEF TInv, TypeOK
    <2>4. wk'[p].w = w /\ wk'[p].at = "settle"
      BY Zenon, <1>2, <1>3, <2>1 DEF Goto, TInv, TypeOK, WorkerState
    <2>5. StatusAt(wk[p])' = "CONFIRMED"
      BY Zenon, <2>4, StatusByStage
    <2>6. WorkerOK(p)'
      BY Zenon, <2>3, <2>4, <2>5 DEF WorkerOK, AtSend, AtConfirm, Unsent
    <2>7. RowOK(w)'
      BY Zenon, <1>3, <2>1, <2>3 DEF RowOK, SentTx, LOCKED
    <2> QED
      BY Zenon, <1>2, <1>3, <2>1, <2>3, <2>6, <2>7, OneRow
  <1> QED
    BY Zenon, <1>6, <1>7, <1>8, <1>9, <1>10

\* Settling ends the withdrawal and its lease at once; a read that throws ends
\* the cycle and nothing else.
LEMMA PaidSettle ==
    ASSUME Steady, TInv, PInv, NEW p \in Workers, Settle(p) \/ ReadFails(p)
    PROVE  PInv'
  <1>1. wk[p].at \in {"status", "nonce", "settle"} /\ wk[p].at # "idle"
    BY Zenon DEF Settle, ReadFails, At
  <1>2. PICK w \in W : wk[p].w = w
    BY Zenon, <1>1, AtWork
  <1>3. wk'[p].at = "idle" /\ UNCHANGED <<released, chainVars>>
    BY DEF Settle, ReadFails, Done, IdleWorker, TInv, TypeOK, dbVars
  <1>4. WorkerOK(p)'
    BY Zenon, <1>3 DEF WorkerOK
  <1>5. CASE UNCHANGED <<row, lease>>
    BY Zenon, <1>1, <1>2, <1>3, <1>4, <1>5, RowKept DEF AtSend, chainVars
  <1>6. CASE /\ wk[p].at = "settle" /\ Transition(w, "CONFIRMED", To(w, "SETTLED"))
             /\ lease' = Unleased(w)
    <2>1. StatusAt(wk[p]) = "CONFIRMED"
      BY Zenon, <1>6, StatusByStage
    <2>2. /\ row[w] \in Row /\ RowOK(w) /\ row[w].status = "CONFIRMED" /\ ~GivingUp(w)
          /\ \A v \in W : row[v].status \in {"SIGNED", "BROADCAST"} => row[v].bytes.a \in Accounts
      BY Zenon, <1>2, <1>6, <2>1, Busy
    <2>3. To(w, "SETTLED").status = "SETTLED" /\ To(w, "SETTLED").bytes = row[w].bytes
      BY Zenon, <2>2, ToRow DEF Statuses
    <2>4. /\ row'[w].status = "SETTLED" /\ row'[w].bytes = row[w].bytes
          /\ \A v \in W : v # w => row'[v] = row[v]
      BY Zenon, <1>6, <2>2, <2>3 DEF Transition, TInv, TypeOK
    <2>5. \A a \in Accounts : /\ lease'[a] # w
                              /\ \A v \in W : v # w => (lease'[a] = v <=> lease[a] = v)
      BY <1>6, WAssumption DEF Unleased
    <2>6. RowOK(w)'
      BY Zenon, <1>3, <2>2, <2>4, <2>5 DEF RowOK, SentTx, chainVars
    <2> QED
      BY Zenon, <1>2, <1>3, <1>4, <2>2, <2>4, <2>5, <2>6, OneRow DEF chainVars
  <1> QED
    BY Zenon, <1>2, <1>5, <1>6 DEF Settle, ReadFails, At, dbVars

\* The retry worker: nothing is out, and what is given up is given up once.
LEMMA PaidRetry ==
    ASSUME Steady, TInv, PInv, NEW p \in Workers,
           DropLease(p) \/ Requeue(p) \/ ReleaseLock(p) \/ ReleaseLease(p) \/ Fail(p)
    PROVE  PInv'
  <1>1. wk[p].at \in AtRetry /\ wk[p].at # "idle"
    BY Zenon DEF DropLease, Requeue, ReleaseLock, ReleaseLease, Fail, At, AtRetry
  <1>2. PICK w \in W : wk[p].w = w
    BY Zenon, <1>1, AtWork
  <1>3. /\ wk[p] \in WorkerState /\ row[w] \in Row /\ RowOK(w) /\ WorkerOK(p)
        /\ row[w].status = wk[p].from /\ wk[p].from \in RetryEdges
        /\ wk[p].at \notin {"unlease", "fail"} => ~GivingUp(w)
        /\ \A t \in SentTx : t.w # w
        /\ \A v \in W : row[v].status \in {"SIGNED", "BROADCAST"} => row[v].bytes.a \in Accounts
    <2>1. StatusAt(wk[p]) = wk[p].from
      BY Zenon, <1>1, StatusByStage
    <2>2. row[w].status = wk[p].from /\ wk[p].from \in RetryEdges
      BY Zenon, <1>1, <1>2, <2>1, Busy
    <2>3. row[w].status \notin {"BROADCAST", "CONFIRMED", "SETTLED"}
      BY Zenon, <2>2 DEF RetryEdges
    <2> QED
      BY Zenon, <1>1, <1>2, <2>2, <2>3, Busy
  <1>4. row[w].status \in LOCKED /\ row[w].status # "FAILED" /\ row[w].status \notin {"SIGNED", "BROADCAST"}
    BY Zenon, <1>3 DEF RetryEdges, LOCKED
  <1>5. ASSUME NEW at \in AtRetry, Goto(p, at), UNCHANGED <<row, chainVars>>,
               \A v \in W, a \in Accounts : v # w => (lease'[a] = v <=> lease[a] = v),
               \A v \in W : v # w => released'[v] = released[v],
               released'[w] # 0 => released'[w] = 1 /\ at \in {"unlease", "fail"},
               at = "fail" => \A a \in Accounts : lease'[a] # w
        PROVE  PInv'
    <2>1. wk'[p].w = w /\ wk'[p].at = at /\ wk'[p].from = wk[p].from
      BY Zenon, <1>2, <1>3, <1>5 DEF Goto, TInv, TypeOK, WorkerState
    <2>2. StatusAt(wk[p])' = wk[p].from
      BY Zenon, <1>5, <2>1, StatusByStage
    <2>3. WorkerOK(p)'
      BY Zenon, <1>3, <1>5, <2>1, <2>2 DEF WorkerOK, AtRetry, AtSend, AtConfirm, Unsent
    <2>4. GivingUp(w)' \/ at \notin {"unlease", "fail"}
      BY Zenon, <2>1 DEF GivingUp
    <2>5. UNCHANGED <<nonce, finalNonce, mempool, landed, reverted>> /\ SentTx' = SentTx
      BY Zenon, <1>5 DEF chainVars, SentTx
    <2>6. RowOK(w)'
      BY Zenon, <1>3, <1>4, <1>5, <2>4, <2>5 DEF RowOK
    <2> QED
      BY Zenon, <1>2, <1>3, <1>5, <2>3, <2>5, <2>6, OneRow
  <1>6. \A a \in Accounts : /\ Unleased(w)[a] # w
                            /\ \A v \in W : v # w => (Unleased(w)[a] = v <=> lease[a] = v)
    BY WAssumption DEF Unleased
  <1>7. released[w] # 0 => wk[p].at \in {"unlease", "fail"} /\ released[w] = 1
    BY Zenon, <1>3, <1>4 DEF RowOK
  <1>8. CASE DropLease(p)
    <2>1. /\ Goto(p, "requeue") /\ UNCHANGED <<row, released, chainVars>> /\ lease' = Unleased(w)
          /\ wk[p].at = "drop"
      BY Zenon, <1>2, <1>8 DEF DropLease, At
    <2> QED
      BY Zenon, <1>5, <1>6, <1>7, <2>1 DEF AtRetry
  <1>9. CASE ReleaseLease(p)
    <2>1. /\ Goto(p, "fail") /\ UNCHANGED <<row, released, chainVars>> /\ lease' = Unleased(w)
      BY Zenon, <1>2, <1>9 DEF ReleaseLease
    <2> QED
      BY Zenon, <1>5, <1>6, <1>7, <2>1 DEF AtRetry
  <1>10. CASE ReleaseLock(p)
    <2>1. wk[p].at = "unlock" /\ released[w] = 0
      BY Zenon, <1>7, <1>10 DEF ReleaseLock, At
    <2>2. CASE Goto(p, "unlease") /\ released' = [released EXCEPT ![w] = @ + 1]
      <3>1. released'[w] = 1 /\ \A v \in W : v # w => released'[v] = released[v]
        BY <2>1, <2>2 DEF TInv, TypeOK
      <3>2. UNCHANGED <<row, lease, chainVars>>
        BY Zenon, <1>10 DEF ReleaseLock
      <3> QED
        BY Zenon, <1>5, <2>2, <3>1, <3>2 DEF AtRetry
    <2>3. CASE Done(p) /\ UNCHANGED released
      <3>1. wk'[p].at = "idle"
        BY Zenon, <2>3 DEF Done, IdleWorker, TInv, TypeOK
      <3>2. WorkerOK(p)'
        BY Zenon, <3>1 DEF WorkerOK
      <3>3. UNCHANGED <<row, lease, released, nonce, finalNonce, mempool, landed, reverted>>
        BY Zenon, <1>10, <2>3 DEF ReleaseLock, chainVars
      <3> QED
        BY Zenon, <1>1, <1>2, <2>1, <3>2, <3>3, RowKept DEF AtSend
    <2> QED
      BY Zenon, <1>2, <1>10, <2>2, <2>3 DEF ReleaseLock
  <1>11. CASE Requeue(p)
    <2>1. /\ row' = [row EXCEPT ![w] = To(w, "FUNDS_LOCKED")] /\ wk[p].at = "requeue"
          /\ Done(p) /\ UNCHANGED <<lease, released, chainVars>>
      BY Zenon, <1>2, <1>3, <1>11 DEF Requeue, Transition, At
    <2>2. To(w, "FUNDS_LOCKED") \in Row /\ To(w, "FUNDS_LOCKED").status = "FUNDS_LOCKED"
      BY Zenon, <1>3, ToRow DEF Statuses
    <2> QED
      BY Zenon, <1>1, <1>2, <1>3, <2>1, <2>2, RowWritten DEF LOCKED
  <1>12. CASE Fail(p)
    <2>1. /\ row' = [row EXCEPT ![w] = To(w, "FAILED")] /\ wk[p].at = "fail"
          /\ Done(p) /\ UNCHANGED <<lease, released, chainVars>>
      BY Zenon, <1>2, <1>3, <1>12 DEF Fail, Transition, At
    <2>2. To(w, "FAILED") \in Row /\ To(w, "FAILED").status = "FAILED"
      BY Zenon, <1>3, ToRow DEF Statuses
    <2> QED
      BY Zenon, <1>1, <1>2, <1>3, <2>1, <2>2, RowWritten
  <1> QED
    BY Zenon, <1>8, <1>9, <1>10, <1>11, <1>12

\* An idle worker takes a row up.
LEMMA PaidPick ==
    ASSUME Steady, TInv, PInv, NEW p \in Workers, NEW w \in W, Pick(p, w)
    PROVE  PInv'
  <1>1. /\ wk[p].at = "idle" /\ row[w] \in Row /\ RowOK(w)
        /\ UNCHANGED <<lease, released, nonce, finalNonce, mempool, landed, reverted>>
        /\ SentTx' = SentTx
    BY Zenon DEF Pick, ClaimSigning, ClaimBroadcast, ListBroadcast, ListRetry, At, dbVars, chainVars,
           TInv, TypeOK, PInv, SentTx
  <1>2. ~Sending(w) /\ ~GivingUp(w)
    BY Zenon, <1>1 DEF Sending, GivingUp, AtSend, Steady
  <1>3. \A v \in W : row[v].status \in {"SIGNED", "BROADCAST"} =>
          row[v].bytes \in Tx /\ row[v].bytes.a \in Accounts /\ row[v].bytes.w = v
    BY Zenon, NoTxIsNone DEF TInv, Ownership, OwnRow, Tx
  <1>4. CASE ClaimSigning(p, w)
    <2>1. /\ row' = [row EXCEPT ![w] = To(w, "SIGNING")] /\ row[w].status = "FUNDS_LOCKED"
          /\ wk' = [wk EXCEPT ![p] = [IdleWorker EXCEPT !.at = "lease", !.w = w]]
      BY Zenon, <1>4 DEF ClaimSigning, Oldest
    <2>2. To(w, "SIGNING").status = "SIGNING"
      BY Zenon, <1>1, ToRow DEF Statuses
    <2>3. row'[w].status = "SIGNING" /\ \A v \in W : v # w => row'[v] = row[v]
      BY Zenon, <2>1, <2>2 DEF TInv, TypeOK
    <2>4. wk'[p].at = "lease" /\ wk'[p].w = w
      BY Zenon, <2>1 DEF IdleWorker, TInv, TypeOK
    <2>5. StatusAt(wk[p])' = "SIGNING"
      BY Zenon, <2>4, StatusByStage DEF AtSign
    <2>6. WorkerOK(p)'
      BY Zenon, <2>3, <2>4, <2>5 DEF WorkerOK, AtSend, AtConfirm, Unsent
    <2>7. RowOK(w)'
      BY Zenon, <1>1, <1>2, <2>1, <2>3 DEF RowOK, LOCKED
    <2> QED
      BY Zenon, <1>1, <1>3, <2>3, <2>6, <2>7, OneRow
  <1>5. CASE ClaimBroadcast(p, w)
    <2>1. /\ row' = [row EXCEPT ![w] = To(w, "BROADCAST")] /\ row[w].status = "SIGNED"
          /\ wk' = [wk EXCEPT ![p] = [IdleWorker EXCEPT
                      !.at = "send", !.w = w, !.bytes = row[w].bytes]]
      BY Zenon, <1>5 DEF ClaimBroadcast, Oldest
    <2>2. To(w, "BROADCAST").status = "BROADCAST" /\ To(w, "BROADCAST").bytes = row[w].bytes
      BY Zenon, <1>1, ToRow DEF Statuses
    <2>3. /\ row'[w].status = "BROADCAST" /\ row'[w].bytes = row[w].bytes
          /\ \A v \in W : v # w => row'[v] = row[v]
      BY Zenon, <2>1, <2>2 DEF TInv, TypeOK
    <2>4. wk'[p].at = "send" /\ wk'[p].w = w /\ wk'[p].bytes = row[w].bytes
      BY Zenon, <2>1 DEF IdleWorker, TInv, TypeOK
    <2>5. StatusAt(wk[p])' = "BROADCAST"
      BY Zenon, <2>4, StatusByStage DEF AtSend
    <2>6. (\A t \in SentTx : t.w # w) /\ row[w].bytes \notin SentTx
      BY Zenon, <1>1, <1>3, <2>1 DEF RowOK
    <2>7. WorkerOK(p)'
      BY Zenon, <1>1, <2>3, <2>4, <2>5, <2>6 DEF WorkerOK
    <2>8. Sending(w)'
      BY Zenon, <2>4 DEF Sending, AtSend
    <2>9. RowOK(w)'
      BY Zenon, <1>1, <1>2, <2>1, <2>3, <2>6, <2>8 DEF RowOK, LOCKED
    <2> QED
      BY Zenon, <1>1, <1>3, <2>3, <2>7, <2>9, OneRow
  <1>6. ASSUME NEW s, wk' = [wk EXCEPT ![p] = s], UNCHANGED row, WorkerOK(p)'
        PROVE  PInv'
    <2>1. RowOK(w)'
      BY Zenon, <1>1, <1>2, <1>6 DEF RowOK
    <2> QED
      BY Zenon, <1>1, <1>3, <1>6, <2>1, OneRow
  <1>7. CASE ListBroadcast(p, w)
    <2>1. row[w].status = "BROADCAST" /\ row[w].sig = row[w].bytes /\ row[w].bytes # NoTx
      BY Zenon, <1>1, <1>2, <1>3, <1>7, NoTxIsNone DEF ListBroadcast, RowOK
    <2> DEFINE s == [at |-> "status", w |-> w, from |-> "BROADCAST",
                     bytes |-> row[w].bytes, sig |-> row[w].sig]
    <2>2. wk' = [wk EXCEPT ![p] = s] /\ UNCHANGED row
      BY Zenon, <1>7, <2>1 DEF ListBroadcast, dbVars
    <2>3. wk'[p].at = "status" /\ wk'[p].w = w /\ wk'[p].bytes = row[w].bytes /\ wk'[p].sig = row[w].sig
      BY Zenon, <2>2 DEF TInv, TypeOK
    <2>4. StatusAt(wk[p])' = "BROADCAST"
      BY Zenon, <2>3, StatusByStage DEF AtConfirm
    <2>5. WorkerOK(p)'
      BY Zenon, <2>1, <2>2, <2>3, <2>4 DEF WorkerOK, Unsent
    <2> QED
      BY Zenon, <1>6, <2>2, <2>5
  <1>8. CASE ListRetry(p, w)
    <2>1. row[w].status \in RetryEdges
      BY Zenon, <1>8 DEF ListRetry
    <2>2. PICK at \in {"unlock", "drop", "requeue"} :
            wk' = [wk EXCEPT ![p] = [at |-> at, w |-> w, from |-> row[w].status,
                                     bytes |-> row[w].bytes, sig |-> row[w].sig]]
      BY Zenon, <1>8 DEF ListRetry
    <2>3. wk'[p].at = at /\ wk'[p].w = w /\ wk'[p].from = row[w].status
      BY Zenon, <2>2 DEF TInv, TypeOK
    <2>4. StatusAt(wk[p])' = row[w].status
      BY Zenon, <2>3, StatusByStage DEF AtRetry
    <2>5. UNCHANGED row
      BY Zenon, <1>8 DEF ListRetry, dbVars
    <2>6. WorkerOK(p)'
      BY Zenon, <2>3, <2>4, <2>5 DEF WorkerOK, AtSend, AtConfirm, Unsent
    <2> QED
      BY Zenon, <1>6, <2>2, <2>5, <2>6
  <1> QED
    BY Zenon, <1>4, <1>5, <1>7, <1>8 DEF Pick

\* Requests and approvals touch rows no worker has seen.
Early == {"ABSENT", "REQUESTED", "RISK_EVALUATING", "MANUAL_REVIEW", "APPROVED"}

LEMMA PaidHandler ==
    ASSUME Steady, TInv, PInv, NEW w \in W,
           Create(w) \/ Handler(w) \/ Operator(w) \/ HandlerDies(w)
    PROVE  PInv'
  <1>1. /\ UNCHANGED <<lease, released, wk, nonce, finalNonce, mempool, landed, reverted>>
        /\ SentTx' = SentTx
    BY Zenon DEF Create, Handler, Operator, Evaluate, Decide, LockFunds, Approve, Reject, HandlerDies,
           chainVars, SentTx
  <1>2. \/ row' = row
        \/ /\ row[w].status \in Early
           /\ \E s \in (Early \cup {"REJECTED", "FUNDS_LOCKED"}) : row' = [row EXCEPT ![w] = To(w, s)]
    BY Zenon DEF Create, Handler, Operator, Evaluate, Decide, LockFunds, Approve, Reject, HandlerDies,
           Early
  <1>3. CASE row' = row
    BY <1>1, <1>3 DEF PInv, ChainOK, RowOK, WorkerOK, Sending, GivingUp, StatusAt
  <1>4. ASSUME row[w].status \in Early,
               NEW s \in (Early \cup {"REJECTED", "FUNDS_LOCKED"}), row' = [row EXCEPT ![w] = To(w, s)]
        PROVE  PInv'
    <2>1. row[w] \in Row /\ s \in Statuses /\ RowOK(w)
      BY Zenon DEF TInv, TypeOK, Early, Statuses, PInv
    <2>2. row'[w].status = s /\ \A v \in W : v # w => row'[v] = row[v]
      BY Zenon, <1>4, <2>1, ToRow DEF TInv, TypeOK
    <2>3. ChainOK'
      BY Zenon, <1>1 DEF PInv, ChainOK
    <2>4. /\ \A t \in SentTx : t.w # w
          /\ \A a \in Accounts : lease[a] # w
      BY Zenon, <1>4, <2>1 DEF RowOK, Early, LOCKED
    <2>5. released[w] = 0
      <3>1. ~GivingUp(w)
        <4> SUFFICES ASSUME NEW p \in Workers, wk[p].w = w, wk[p].at \in {"unlease", "fail"}
                     PROVE  FALSE
          BY Zenon DEF GivingUp
        <4>1. StatusAt(wk[p]) = wk[p].from
          BY Zenon, StatusByStage DEF AtRetry
        <4>2. row[w].status = wk[p].from /\ wk[p].from \in RetryEdges
          BY Zenon, <4>1, Busy DEF AtRetry
        <4> QED
          BY Zenon, <1>4, <4>2 DEF Early, RetryEdges
      <3> QED
        BY Zenon, <1>4, <2>1, <3>1 DEF RowOK, Early
    <2>6. RowOK(w)'
      BY Zenon, <1>1, <2>2, <2>4, <2>5 DEF RowOK, Early
    <2>7. ASSUME NEW v \in W PROVE RowOK(v)'
      BY <1>1, <2>2, <2>6 DEF PInv, RowOK, Sending, GivingUp
    <2>8. ASSUME NEW p \in Workers PROVE WorkerOK(p)'
      <3>1. CASE wk[p].at = "idle"
        BY Zenon, <1>1, <3>1 DEF WorkerOK
      <3>2. CASE wk[p].at # "idle"
        <4>1. PICK u \in W : wk[p].w = u
          BY Zenon, <3>2, AtWork
        <4>2. row[u].status = StatusAt(wk[p]) /\ WorkerOK(p) /\ wk[p] \in WorkerState
              /\ (wk[p].at \in AtRetry => wk[p].from \in RetryEdges)
          BY Zenon, <3>2, <4>1, Busy
        <4>3. wk[p].at \in AtSign \cup AtSend \cup AtConfirm \cup AtRetry \cup {"settle"}
          BY Zenon, <3>2, <4>2 DEF WorkerState, Stages, AtSign, AtSend, AtConfirm, AtRetry
        <4>4. row[u].status \notin Early
          BY Zenon, <4>2, <4>3, StatusByStage DEF Early, RetryEdges
        <4>5. u # w
          BY Zenon, <1>4, <4>4
        <4> QED
          BY Zenon, <1>1, <2>2, <4>1, <4>2, <4>5 DEF WorkerOK, StatusAt
      <3> QED
        BY Zenon, <3>1, <3>2
    <2> QED
      BY Zenon, <2>3, <2>7, <2>8 DEF PInv
  <1> QED
    BY Zenon, <1>2, <1>3, <1>4

\* The chain lands, finalizes or forgets what was sent, and never between the
\* worker's two reads.
LEMMA PaidChain ==
    ASSUME Steady, TInv, PInv, Chain
    PROVE  PInv'
  <1>1. UNCHANGED <<row, lease, released, wk>>
    BY Zenon DEF Chain, Land, Drop, Finalize, dbVars
  <1>2. TInv'
    BY Zenon, TypeChain
  <1>3. ASSUME ChainOK', SentTx' \subseteq SentTx, landed' \subseteq landed \cup mempool,
               \A a \in Accounts : finalNonce'[a] >= finalNonce[a],
               (UNCHANGED <<landed, finalNonce>>) \/ (\A p \in Workers : wk[p].at # "nonce")
        PROVE  PInv'
    <2>1. ASSUME NEW w \in W PROVE RowOK(w)'
      <3>1. RowOK(w) /\ row[w] \in OwnRow(w)
        BY Zenon DEF PInv, TInv, Ownership
      <3>2. row[w].status \in {"SIGNED", "BROADCAST"} => row[w].bytes.n <= finalNonce'[row[w].bytes.a]
        <4> SUFFICES ASSUME row[w].status \in {"SIGNED", "BROADCAST"}
                     PROVE  row[w].bytes.n <= finalNonce'[row[w].bytes.a]
          BY Zenon
        <4>1. row[w].bytes.n \in Nat /\ row[w].bytes.a \in Accounts
          BY Zenon, <3>1 DEF OwnRow, Tx
        <4>2. finalNonce[row[w].bytes.a] \in Nat /\ finalNonce'[row[w].bytes.a] \in Nat
          BY Zenon, <1>2, <4>1 DEF TInv, TypeOK
        <4> QED
          BY <1>3, <3>1, <4>1, <4>2 DEF RowOK
      <3> QED
        BY Zenon, <1>1, <1>3, <3>1, <3>2 DEF RowOK, Sending, GivingUp
    <2>2. ASSUME NEW p \in Workers PROVE WorkerOK(p)'
      <3>1. WorkerOK(p) /\ wk[p] \in OwnWorker
        BY Zenon DEF PInv, TInv, Ownership
      <3>2. wk[p].at = "sign" => wk[p].bytes.n <= finalNonce'[wk[p].bytes.a]
        <4> SUFFICES ASSUME wk[p].at = "sign" PROVE wk[p].bytes.n <= finalNonce'[wk[p].bytes.a]
          BY Zenon
        <4>1. wk[p].bytes.n \in Nat /\ wk[p].bytes.a \in Accounts
          BY Zenon, <3>1 DEF OwnWorker, HoldsBytes, Tx
        <4>2. finalNonce[wk[p].bytes.a] \in Nat /\ finalNonce'[wk[p].bytes.a] \in Nat
          BY Zenon, <1>2, <4>1 DEF TInv, TypeOK
        <4> QED
          BY <1>3, <3>1, <4>1, <4>2 DEF WorkerOK
      <3> QED
        BY Zenon, <1>1, <1>3, <3>1, <3>2 DEF WorkerOK, StatusAt
    <2> QED
      BY Zenon, <1>3, <2>1, <2>2 DEF PInv
  <1>4. ASSUME ChainMoves PROVE \A p \in Workers : wk[p].at # "nonce"
    BY Zenon, <1>4 DEF ChainMoves, Steady, At
  <1>5. ASSUME NEW t \in mempool, Land(t) PROVE PInv'
    <2>1. /\ ChainMoves /\ nonce[t.a] = t.n /\ nonce' = [nonce EXCEPT ![t.a] = @ + 1]
          /\ mempool' = {u \in mempool : u.a # t.a} /\ finalNonce' = finalNonce
          /\ \/ landed' = landed \cup {t} /\ reverted' = reverted
             \/ landed' = landed /\ reverted' = reverted \cup {t}
      BY Zenon, <1>5 DEF Land
    <2>2. t \in Tx /\ t.a \in Accounts /\ t.n \in Nat
      BY Zenon DEF TInv, TypeOK, Tx
    <2>3. /\ nonce \in [Accounts -> Nat] /\ finalNonce \in [Accounts -> Nat]
          /\ landed \subseteq Tx /\ reverted \subseteq Tx /\ mempool \subseteq Tx
      BY Zenon DEF TInv, TypeOK
    <2>4. nonce'[t.a] = t.n + 1 /\ \A a \in Accounts : a # t.a => nonce'[a] = nonce[a]
      BY Zenon, <2>1, <2>2, <2>3
    <2>5. t \notin landed \cup reverted
      BY <2>1, <2>2 DEF PInv, ChainOK
    <2>6. ChainOK'
      <3>1. \A a \in Accounts : finalNonce'[a] <= nonce'[a]
        BY <2>1, <2>2, <2>3, <2>4 DEF PInv, ChainOK
      <3>2. \A u \in mempool' : nonce'[u.a] = u.n
        BY Zenon, <2>1, <2>3, <2>4 DEF PInv, ChainOK, Tx
      <3>3. \A u \in landed' \cup reverted' : nonce'[u.a] > u.n
        <4> SUFFICES ASSUME NEW u \in landed \cup reverted \cup {t} PROVE nonce'[u.a] > u.n
          BY Zenon, <2>1
        <4>1. u.a \in Accounts /\ u.n \in Nat /\ nonce[u.a] \in Nat
          BY Zenon, <2>2, <2>3 DEF Tx
        <4>2. CASE u = t
          BY <2>2, <2>4, <4>2
        <4>3. CASE u # t
          <5>1. nonce[u.a] > u.n
            BY Zenon, <4>3 DEF PInv, ChainOK
          <5> QED
            BY <2>1, <2>2, <2>4, <4>1, <5>1
        <4> QED
          BY Zenon, <4>2, <4>3
      <3>4. landed' \cap reverted' = {}
        BY Zenon, <2>1, <2>5 DEF PInv, ChainOK
      <3> QED
        BY Zenon, <3>1, <3>2, <3>3, <3>4 DEF ChainOK
    <2>7. SentTx' \subseteq SentTx /\ landed' \subseteq landed \cup mempool
      BY Zenon, <2>1 DEF SentTx
    <2>8. \A a \in Accounts : finalNonce'[a] >= finalNonce[a]
      BY <2>1, <2>3
    <2> QED
      BY Zenon, <1>3, <1>4, <2>1, <2>6, <2>7, <2>8
  <1>6. ASSUME NEW a \in Accounts, Finalize(a) PROVE PInv'
    <2>1. /\ ChainMoves /\ finalNonce[a] < nonce[a] /\ finalNonce' = [finalNonce EXCEPT ![a] = @ + 1]
          /\ UNCHANGED <<nonce, mempool, landed, reverted>>
      BY Zenon, <1>6 DEF Finalize
    <2>2. nonce \in [Accounts -> Nat] /\ finalNonce \in [Accounts -> Nat]
      BY Zenon DEF TInv, TypeOK
    <2>3. \A c \in Accounts : finalNonce'[c] >= finalNonce[c] /\ finalNonce'[c] <= nonce[c]
      BY <2>1, <2>2 DEF PInv, ChainOK
    <2>4. ChainOK'
      BY Zenon, <2>1, <2>3 DEF PInv, ChainOK
    <2> QED
      BY Zenon, <1>3, <1>4, <2>1, <2>3, <2>4 DEF SentTx
  <1>7. ASSUME NEW t \in mempool, Drop(t) PROVE PInv'
    <2>1. mempool' = mempool \ {t} /\ UNCHANGED <<nonce, finalNonce, landed, reverted>>
      BY Zenon, <1>7 DEF Drop
    <2>2. ChainOK'
      BY Zenon, <2>1 DEF PInv, ChainOK
    <2>3. \A a \in Accounts : finalNonce'[a] >= finalNonce[a]
      BY <2>1 DEF TInv, TypeOK
    <2> QED
      BY Zenon, <1>3, <2>1, <2>2, <2>3 DEF SentTx
  <1> QED
    BY Zenon, <1>5, <1>6, <1>7 DEF Chain

LEMMA PaidStep ==
    ASSUME Steady, TInv, PInv, [Next]_vars
    PROVE  PInv'
  <1>1. CASE UNCHANGED vars
    BY <1>1 DEF vars, dbVars, chainVars, PInv, ChainOK, RowOK, WorkerOK, SentTx, Sending, GivingUp,
                StatusAt
  <1>2. ASSUME NEW p \in Workers, Continue(p) \/ WorkerFault(p) PROVE PInv'
    <2>1. ~WorkerDies(p)
      BY Zenon DEF WorkerDies, Steady
    <2> QED
      BY Zenon, <1>2, <2>1, PaidSign, PaidBroadcast, PaidConfirm, PaidSettle, PaidRetry
         DEF Continue, WorkerFault
  <1> QED
    BY Zenon, <1>1, <1>2, PaidHandler, PaidPick, PaidChain DEF Next

LEMMA PaidInvariant ==
    ASSUME Steady
    PROVE  Spec => [](TInv /\ PInv)
  <1>1. Init => TInv /\ PInv
    BY Zenon, TypeInit, PaidInit
  <1>2. TInv /\ PInv /\ [Next]_vars => (TInv /\ PInv)'
    BY Zenon, PaidStep, TypeStep
  <1> QED
    BY <1>1, <1>2, PTL DEF Spec

(* One worker that survives its cycles, told the truth by the chain, pays no *)
(* withdrawal twice, for any withdrawals, accounts, budgets and any of the   *)
(* other faults (resolveAmbiguity, ADR-0012).                                *)
THEOREM SteadyPaysOnceAlways ==
    ASSUME Steady
    PROVE  Spec => []PaidAtMostOnce
  <1>1. TInv /\ PInv => PaidAtMostOnce
    BY DEF TInv, TypeOK, Tx, PInv, RowOK, SentTx, PaidAtMostOnce
  <1> QED
    BY <1>1, PaidInvariant, PTL

(* Under the same conditions a nonce account stays with the withdrawal whose *)
(* bytes use it, a withdrawal that ended holds none, and no lock is given    *)
(* back twice (lease, release, giveUp; ADR-0009).                            *)
THEOREM SteadyLeasesAlways ==
    ASSUME Steady
    PROVE  Spec => [](LeaseCoversBytes /\ TerminalHoldsNoLease /\ ReleasedAtMostOnce)
  <1>1. ASSUME TInv, PInv PROVE LeaseCoversBytes /\ TerminalHoldsNoLease /\ ReleasedAtMostOnce
    <2>1. LeaseCoversBytes
      BY Zenon, <1>1 DEF PInv, RowOK, LeaseCoversBytes
    <2>2. TerminalHoldsNoLease
      BY <1>1 DEF PInv, RowOK, TerminalHoldsNoLease, HeldBy, TERMINAL, LOCKED
    <2>3. ReleasedAtMostOnce
      BY <1>1 DEF TInv, TypeOK, PInv, RowOK, ReleasedAtMostOnce
    <2> QED
      BY Zenon, <2>1, <2>2, <2>3
  <1> QED
    BY <1>1, PaidInvariant, PTL

=============================================================================
