---------------------------- MODULE PayoutProofs ----------------------------
(***************************************************************************)
(* Proofs about Payouts, for any number of earnings, invocations and       *)
(* recovery runs, any fees, and every choice of what may fail.             *)
(***************************************************************************)
EXTENDS Payouts, TLAPS

-----------------------------------------------------------------------------
(* The inductive invariant. *)

(* A worker has a payout in hand; before the checkpoint; after it. *)
Unsigned == {"preflight", "reject", "nonce", "checkpoint"}
Signed == {"broadcast", "wait", "finalize", "mark_failed"}
Busy == Unsigned \cup Signed \cup {"release"}

(* What the position of a worker says of its payout and its transaction. *)
Positions ==
  \A w \in Workers :
    /\ pc[w] \in {"idle", "next"} => job[w] = NoEarning
    /\ pc[w] \notin {"idle", "next"} => job[w] \in Earnings
    /\ pc[w] \in Busy => payout[job[w]].status # "NONE"
    /\ pc[w] \in Unsigned => payout[job[w]].status = "PENDING"
    /\ pc[w] \in Signed \cup {"checkpoint"} =>
         tx[w] \in Tx /\ tx[w].pays = PayeeOf[job[w]]
    /\ pc[w] \in Signed => payout[job[w]].hash = tx[w]
    /\ pc[w] = "finalize" => tx[w] \in succeeded

(* A reserved payout is queued by, or in the hands of, one worker. *)
Exclusive ==
  /\ \A w \in Workers : \A e \in queue[w] : payout[e].status = "PENDING"
  /\ \A v, w \in Workers :
       /\ v # w => queue[v] \cap queue[w] = {}
       /\ pc[v] \in Busy => job[v] \notin queue[w]
       /\ v # w /\ pc[v] \in Busy /\ pc[w] \in Busy => job[v] # job[w]

(* Hashes: one payout each, written once, before the network sees them. *)
Recorded ==
  /\ \A e \in Earnings :
       /\ payout[e].status \in {"NONE", "PENDING"} => payout[e].hash = NoTx
       /\ payout[e].hash # NoTx => payout[e].hash.pays = PayeeOf[e]
       /\ payout[e].status = "CONFIRMED" => payout[e].hash \in succeeded
  /\ \A e, f \in Earnings :
       payout[e].hash # NoTx /\ payout[e].hash = payout[f].hash => e = f
  /\ \A t \in sent : \E e \in Earnings : payout[e].hash = t
  /\ \A t \in succeeded \cup reverted : t.nonce < nextNonce

(* What a recovery run has read stays true. *)
Learnt ==
  \A p \in Recoverers :
    /\ \A row \in todo[p] :
         row.hash # NoTx => payout[row.earning].hash = row.hash
    /\ rpc[p] \in {"finalize", "mark_failed"} =>
         cur[p] \in Earnings /\ payout[cur[p]].hash # NoTx
    /\ rpc[p] = "finalize" => payout[cur[p]].hash \in succeeded

Inv == TypeOK /\ Positions /\ Exclusive /\ Recorded /\ Learnt

-----------------------------------------------------------------------------
USE DEF Goto, database, workers, network, recovery

LEMMA InvInit == Init => Inv
<1> SUFFICES ASSUME Init PROVE Inv
  OBVIOUS
<1>1. TypeOK
  BY DEF Init, TypeOK, NoPayout, Payout, Steps
<1>2. Positions /\ Exclusive /\ Recorded /\ Learnt
  BY DEF Init, NoPayout, Positions, Exclusive, Recorded, Learnt,
         Unsigned, Signed, Busy
<1> QED
  BY <1>1, <1>2 DEF Inv

-----------------------------------------------------------------------------
(* Rows of the payouts table. *)

(* No transaction is the absent one. *)
LEMMA TxIsNot == NoTx \notin Tx
  BY PayoutConstants DEF Tx

(* Writing one row by its id. *)
LEMMA RowWrite ==
  ASSUME NEW rows \in [Earnings -> Payout], NEW e \in Earnings, NEW row \in Payout
  PROVE  /\ [rows EXCEPT ![e] = row] \in [Earnings -> Payout]
         /\ [rows EXCEPT ![e] = row][e] = row
         /\ \A f \in Earnings : f # e => [rows EXCEPT ![e] = row][f] = rows[f]
  OBVIOUS

(* Every row the code writes is a row of the table. *)
LEMMA RowsTyped ==
  ASSUME NEW row \in Payout
  PROVE  /\ \A s \in {"PENDING", "CONFIRMED", "FAILED"} :
              /\ [row EXCEPT !.status = s] \in Payout
              /\ [row EXCEPT !.status = s].status = s
              /\ [row EXCEPT !.status = s].hash = row.hash
         /\ \A t \in Tx :
              /\ [status |-> "SUBMITTED", hash |-> t] \in Payout
              /\ [status |-> "SUBMITTED", hash |-> t].status = "SUBMITTED"
              /\ [status |-> "SUBMITTED", hash |-> t].hash = t
  BY DEF Payout

(* The status of one payout is written, its hash is kept. *)
StatusWritten(e, s) ==
  /\ payout' \in [Earnings -> Payout]
  /\ payout'[e].status = s
  /\ payout'[e].hash = payout[e].hash
  /\ \A f \in Earnings \ {e} : payout'[f] = payout[f]

LEMMA WriteStatus ==
  ASSUME TypeOK, NEW e \in Earnings, NEW s \in {"PENDING", "CONFIRMED", "FAILED"},
         payout' = [payout EXCEPT ![e].status = s]
  PROVE  StatusWritten(e, s)
<1>1. payout[e] \in Payout /\ payout \in [Earnings -> Payout]
  BY DEF TypeOK
<1> DEFINE row == [payout[e] EXCEPT !.status = s]
<1>2. payout' = [payout EXCEPT ![e] = row]
  OBVIOUS
<1>3. row \in Payout /\ row.status = s /\ row.hash = payout[e].hash
  BY <1>1, RowsTyped
<1> HIDE DEF row
<1>4. /\ payout' \in [Earnings -> Payout]
      /\ payout'[e] = row
      /\ \A f \in Earnings : f # e => payout'[f] = payout[f]
  BY <1>1, <1>2, <1>3, RowWrite
<1> QED
  BY <1>3, <1>4 DEF StatusWritten

-----------------------------------------------------------------------------
(* Steps that leave the table and the network alone. *)

QuietWork(w) ==
  \/ \E e \in Earnings : Handoff(w, e) \/ AcquireWalletLock(w, e)
  \/ Preflight(w) \/ SignTransfer(w) \/ AwaitReceipt(w)
  \/ ReleaseWalletLock(w) \/ Throw(w) \/ Crash(w)

(* The nonce a node answers is a natural number. *)
LEMMA NoncesNat == TypeOK => Nonces \subseteq Nat
  BY DEF TypeOK, Nonces, Tx

LEMMA TypeQuiet ==
  ASSUME Inv, NEW w \in Workers, QuietWork(w)
  PROVE  TypeOK'
<1> USE DEF Inv, TypeOK, Steps
<1>1. CASE \E e \in Earnings : Handoff(w, e)
  BY <1>1 DEF Handoff
<1>2. ASSUME NEW e \in Earnings, AcquireWalletLock(w, e) PROVE TypeOK'
  <2>1. walletLock' \in Workers \cup {Nobody} /\ holds' \in [Workers -> BOOLEAN]
    BY <1>2 DEF AcquireWalletLock
  <2>2. /\ pc' \in [Workers -> Steps]
        /\ queue' \in [Workers -> SUBSET Earnings]
        /\ job' \in [Workers -> Earnings \cup {NoEarning}]
    BY <1>2 DEF AcquireWalletLock
  <2> QED
    BY <1>2, <2>1, <2>2 DEF AcquireWalletLock
<1>3. CASE Preflight(w)
  BY <1>3 DEF Preflight
<1>4. CASE SignTransfer(w)
  <2>1. job[w] \in Earnings
    BY <1>4 DEF SignTransfer, Positions
  <2>2. \A n \in Nonces, f \in Fees :
          [pays |-> PayeeOf[job[w]], nonce |-> n, fee |-> f] \in Tx
    BY <2>1, NoncesNat, PayoutConstants DEF Tx
  <2> QED
    BY <1>4, <2>2 DEF SignTransfer
<1>5. CASE AwaitReceipt(w)
  BY <1>5 DEF AwaitReceipt
<1>6. CASE ReleaseWalletLock(w)
  BY <1>6 DEF ReleaseWalletLock, Unlock
<1>7. CASE Throw(w)
  BY <1>7 DEF Throw, Forget, Unlock
<1>8. CASE Crash(w)
  BY <1>8 DEF Crash, Forget
<1> QED
  BY <1>1, <1>2, <1>3, <1>4, <1>5, <1>6, <1>7, <1>8 DEF QuietWork

LEMMA QuietStep ==
  ASSUME Inv, NEW w \in Workers, QuietWork(w)
  PROVE  Positions' /\ Exclusive' /\ Recorded' /\ Learnt'
<1>1. Recorded' /\ Learnt'
  BY DEF Inv, QuietWork, Handoff, AcquireWalletLock, Preflight, SignTransfer,
         AwaitReceipt, ReleaseWalletLock, Throw, Crash, Forget, Recorded, Learnt
<1> USE DEF Inv, TypeOK, Positions, Exclusive, Unsigned, Signed, Busy
<1>2. CASE \E e \in Earnings : Handoff(w, e)
  BY <1>1, <1>2, PayoutConstants DEF Handoff
<1>3. CASE \E e \in Earnings : AcquireWalletLock(w, e)
  BY <1>1, <1>3, PayoutConstants DEF AcquireWalletLock
<1>4. CASE Preflight(w)
  BY <1>1, <1>4 DEF Preflight
<1>5. CASE SignTransfer(w)
  <2>1. job[w] \in Earnings
    BY <1>5 DEF SignTransfer
  <2>2. \A n \in Nonces, f \in Fees :
          [pays |-> PayeeOf[job[w]], nonce |-> n, fee |-> f] \in Tx
    BY <2>1, NoncesNat, PayoutConstants DEF Tx
  <2> QED
    BY <1>1, <1>5, <2>1, <2>2 DEF SignTransfer
<1>6. CASE AwaitReceipt(w)
  BY <1>1, <1>6 DEF AwaitReceipt, Assessments
<1>7. CASE ReleaseWalletLock(w)
  BY <1>1, <1>7 DEF ReleaseWalletLock
<1>8. CASE Throw(w) \/ Crash(w)
  BY <1>1, <1>8 DEF Throw, Crash, Forget
<1> QED
  BY <1>1, <1>2, <1>3, <1>4, <1>5, <1>6, <1>7, <1>8 DEF QuietWork

-----------------------------------------------------------------------------
(* Reservation: rows without a payout become PENDING. *)

LEMMA ReserveEarningStep ==
  ASSUME Inv, NEW w \in Workers, ReserveEarning(w)
  PROVE  Inv'
<1> DEFINE e == job[w]
<1>1. e \in Earnings /\ pc[w] = "reserve"
  BY DEF Inv, Positions, ReserveEarning
<1>2. CASE payout[e].status # "NONE"
  <2>1. /\ UNCHANGED <<ledger, payout, queue, walletLock, holds, tx, network, recovery>>
        /\ pc' = [pc EXCEPT ![w] = "idle"]
        /\ job' = [job EXCEPT ![w] = NoEarning]
    BY <1>2 DEF ReserveEarning
  <2>2. TypeOK'
    BY <2>1 DEF Inv, TypeOK, Steps
  <2>3. Positions' /\ Exclusive'
    BY <2>1 DEF Inv, TypeOK, Positions, Exclusive, Unsigned, Signed, Busy
  <2>4. Recorded' /\ Learnt'
    BY <2>1 DEF Inv, Recorded, Learnt
  <2> QED
    BY <2>2, <2>3, <2>4 DEF Inv
<1>3. CASE payout[e].status = "NONE"
  <2>1. /\ UNCHANGED <<ledger, walletLock, holds, tx, network, recovery>>
        /\ pc' = [pc EXCEPT ![w] = "next"]
        /\ job' = [job EXCEPT ![w] = NoEarning]
        /\ queue' = [queue EXCEPT ![w] = {e}]
        /\ payout' = [payout EXCEPT ![e].status = "PENDING"]
    BY <1>3 DEF ReserveEarning
  <2>2. StatusWritten(e, "PENDING")
    BY <1>1, <2>1, WriteStatus DEF Inv
  <2> HIDE DEF e
  <2>3. TypeOK'
    BY <1>1, <2>1, <2>2 DEF Inv, TypeOK, Steps, StatusWritten
  <2>4. Positions'
    BY <1>1, <1>3, <2>1, <2>2
    DEF Inv, TypeOK, Positions, StatusWritten, Unsigned, Signed, Busy
  <2>5. Exclusive'
    BY <1>1, <1>3, <2>1, <2>2
    DEF Inv, TypeOK, Positions, Exclusive, StatusWritten, Unsigned, Signed, Busy
  <2>6. Recorded'
    BY <1>1, <1>3, <2>1, <2>2 DEF Inv, TypeOK, Recorded, StatusWritten
  <2>7. Learnt'
    BY <1>1, <1>3, <2>1, <2>2 DEF Inv, TypeOK, Recorded, Learnt, StatusWritten
  <2> QED
    BY <2>3, <2>4, <2>5, <2>6, <2>7 DEF Inv
<1> QED
  BY <1>2, <1>3

LEMMA ReserveOutstandingStep ==
  ASSUME Inv, NEW w \in Workers, ReserveOutstanding(w)
  PROVE  Inv'
<1>0. ledger \subseteq Earnings
  BY DEF Inv, TypeOK
<1>1. PICK E \in SUBSET Earnings :
        /\ \A e \in E : payout[e].status = "NONE"
        /\ Goto(w, "idle", "next")
        /\ payout' = [e \in Earnings |->
             IF e \in E THEN [payout[e] EXCEPT !.status = "PENDING"] ELSE payout[e]]
        /\ queue' = [queue EXCEPT ![w] = E]
        /\ UNCHANGED <<ledger, walletLock, job, holds, tx, network, recovery>>
  BY <1>0 DEF ReserveOutstanding
<1>2. /\ payout' \in [Earnings -> Payout]
      /\ \A e \in Earnings : payout'[e].hash = payout[e].hash
      /\ \A e \in E : payout'[e].status = "PENDING"
      /\ \A e \in Earnings \ E : payout'[e] = payout[e]
  <2>1. \A e \in Earnings :
          /\ payout[e] \in Payout
          /\ [payout[e] EXCEPT !.status = "PENDING"] \in Payout
          /\ [payout[e] EXCEPT !.status = "PENDING"].status = "PENDING"
          /\ [payout[e] EXCEPT !.status = "PENDING"].hash = payout[e].hash
    BY RowsTyped DEF Inv, TypeOK
  <2> QED
    BY <1>1, <2>1
<1>3. TypeOK'
  BY <1>1, <1>2 DEF Inv, TypeOK, Steps
<1>4. Positions'
  BY <1>1, <1>2 DEF Inv, TypeOK, Positions, Unsigned, Signed, Busy
<1>5. Exclusive'
  BY <1>1, <1>2 DEF Inv, TypeOK, Positions, Exclusive, Unsigned, Signed, Busy
<1>6. Recorded'
  BY <1>1, <1>2 DEF Inv, TypeOK, Recorded
<1>7. Learnt'
  BY <1>1, <1>2 DEF Inv, TypeOK, Recorded, Learnt
<1> QED
  BY <1>3, <1>4, <1>5, <1>6, <1>7 DEF Inv

-----------------------------------------------------------------------------
(* The checkpoint and the network. *)

(* Before its checkpoint a signed transaction is not on the network. *)
LEMMA UnsignedNotSent ==
  ASSUME Inv, NEW w \in Workers, MarkSubmitted(w)
  PROVE  tx[w] \notin sent
  BY TxIsNot DEF Inv, TypeOK, MarkSubmitted, Positions, Recorded, Unsigned

LEMMA MarkSubmittedStep ==
  ASSUME Inv, NEW w \in Workers, MarkSubmitted(w)
  PROVE  Inv'
<1> DEFINE e == job[w]
           row == [status |-> "SUBMITTED", hash |-> tx[w]]
<1>1. /\ e \in Earnings /\ tx[w] \in Tx /\ tx[w].pays = PayeeOf[e]
      /\ payout[e].status = "PENDING" /\ payout[e].hash = NoTx
      /\ payout \in [Earnings -> Payout]
  BY DEF Inv, TypeOK, Positions, Recorded, Unsigned, MarkSubmitted
<1>2. row \in Payout /\ row.status = "SUBMITTED" /\ row.hash = tx[w]
  BY <1>1, RowsTyped DEF Payout
<1>3. payout' = [payout EXCEPT ![e] = row]
  BY DEF MarkSubmitted
<1>4. \A f \in Earnings : f # e => payout[f].hash # tx[w]
  BY DEF MarkSubmitted
<1>5. /\ pc[w] = "checkpoint" /\ pc' = [pc EXCEPT ![w] = "broadcast"]
      /\ UNCHANGED <<ledger, walletLock, queue, job, holds, tx, network, recovery>>
  BY DEF MarkSubmitted
<1> HIDE DEF e, row
<1>6. /\ payout' \in [Earnings -> Payout]
      /\ payout'[e].status = "SUBMITTED" /\ payout'[e].hash = tx[w]
      /\ \A f \in Earnings : f # e => payout'[f] = payout[f]
  BY <1>1, <1>2, <1>3, RowWrite
<1>7. TypeOK'
  BY <1>1, <1>5, <1>6, TxIsNot DEF Inv, TypeOK, Steps
<1>8. Positions'
  BY <1>1, <1>5, <1>6 DEF Inv, TypeOK, Positions, Exclusive, Unsigned, Signed, Busy, e
<1>9. Exclusive'
  BY <1>1, <1>5, <1>6 DEF Inv, TypeOK, Exclusive, Unsigned, Signed, Busy, e
<1>10. Recorded'
  BY <1>1, <1>4, <1>5, <1>6, TxIsNot DEF Inv, TypeOK, Recorded
<1>11. Learnt'
  BY <1>1, <1>5, <1>6 DEF Inv, TypeOK, Learnt
<1> QED
  BY <1>7, <1>8, <1>9, <1>10, <1>11 DEF Inv

LEMMA BroadcastStep ==
  ASSUME Inv, NEW w \in Workers, Broadcast(w)
  PROVE  Inv'
<1>1. /\ pc[w] = "broadcast" /\ job[w] \in Earnings /\ tx[w] \in Tx
      /\ payout[job[w]].hash = tx[w]
  BY DEF Inv, Positions, Signed, Broadcast
<1>2. /\ pc' = [pc EXCEPT ![w] = "wait"] \/ pc' = [pc EXCEPT ![w] = "release"]
      /\ sent' = sent \/ sent' = sent \cup {tx[w]}
      /\ UNCHANGED <<database, queue, job, holds, tx, succeeded, reverted,
                     nextNonce, recovery>>
  BY DEF Broadcast
<1>3. TypeOK'
  BY <1>1, <1>2 DEF Inv, TypeOK, Steps
<1>4. Positions' /\ Exclusive'
  BY <1>1, <1>2 DEF Inv, TypeOK, Positions, Exclusive, Unsigned, Signed, Busy
<1>5. Recorded'
  BY <1>1, <1>2 DEF Inv, Recorded
<1>6. Learnt'
  BY <1>2 DEF Inv, Learnt
<1> QED
  BY <1>3, <1>4, <1>5, <1>6 DEF Inv

LEMMA IncludeStep ==
  ASSUME Inv, NEW t \in sent, Include(t)
  PROVE  Inv'
<1>1. /\ t \in Tx /\ t.nonce \in Nat /\ t.nonce = nextNonce /\ nextNonce' = nextNonce + 1
      /\ succeeded \subseteq succeeded' /\ succeeded' \subseteq succeeded \cup {t}
      /\ reverted \subseteq reverted' /\ reverted' \subseteq reverted \cup {t}
      /\ UNCHANGED <<database, workers, sent, recovery>>
  BY DEF Inv, TypeOK, Include, Tx
<1>2. TypeOK'
  BY <1>1 DEF Inv, TypeOK
<1>3. Positions' /\ Exclusive'
  BY <1>1 DEF Inv, Positions, Exclusive
<1>4. Recorded'
  <2>1. \A u \in succeeded \cup reverted : u.nonce < nextNonce /\ u.nonce \in Nat
    BY DEF Inv, TypeOK, Recorded, Tx
  <2>2. nextNonce \in Nat
    BY DEF Inv, TypeOK
  <2>3. \A u \in succeeded' \cup reverted' : u.nonce < nextNonce'
    BY <1>1, <2>1, <2>2
  <2> QED
    BY <1>1, <2>3 DEF Inv, Recorded
<1>5. Learnt'
  BY <1>1 DEF Inv, Learnt
<1> QED
  BY <1>2, <1>3, <1>4, <1>5 DEF Inv

-----------------------------------------------------------------------------
(* Final statuses: by the worker and by recovery. *)

(* Finalizing what was paid, or failing, keeps the records and what        *)
(* recovery runs have learnt.                                              *)
LEMMA StatusKeepsRecords ==
  ASSUME Inv, NEW e \in Earnings, NEW s \in {"CONFIRMED", "FAILED"},
         StatusWritten(e, s), s = "CONFIRMED" => payout[e].hash \in succeeded,
         UNCHANGED network
  PROVE  /\ Recorded'
         /\ payout' \in [Earnings -> Payout]
         /\ \A f \in Earnings : payout'[f].hash = payout[f].hash
         /\ s = "CONFIRMED" => payout[e].hash # NoTx
<1>1. s = "CONFIRMED" => payout[e].hash # NoTx
  BY TxIsNot DEF Inv, TypeOK
<1>2. \A f \in Earnings : payout'[f].hash = payout[f].hash
  BY DEF StatusWritten
<1>3. Recorded'
  <2>1. \A f \in Earnings :
          /\ payout'[f].status \in {"NONE", "PENDING"} => payout'[f].hash = NoTx
          /\ payout'[f].hash # NoTx => payout'[f].hash.pays = PayeeOf[f]
          /\ payout'[f].status = "CONFIRMED" => payout'[f].hash \in succeeded
    BY DEF Inv, Recorded, StatusWritten
  <2> QED
    BY <1>2, <2>1 DEF Inv, Recorded
<1> QED
  BY <1>1, <1>2, <1>3 DEF StatusWritten

(* A payout with a hash is in no queue and before no checkpoint. *)
LEMMA WithHash ==
  ASSUME Inv, NEW e \in Earnings, payout[e].hash # NoTx
  PROVE  /\ payout[e].status \notin {"NONE", "PENDING"}
         /\ \A w \in Workers : e \notin queue[w]
         /\ \A w \in Workers : pc[w] \in Unsigned => job[w] # e
  BY DEF Inv, Recorded, Exclusive, Positions

LEMMA FinalizeStep ==
  ASSUME Inv, NEW w \in Workers, Finalize(w)
  PROVE  Inv'
<1> DEFINE e == job[w]
<1>1. /\ e \in Earnings /\ pc[w] = "finalize" /\ payout[e].hash \in succeeded
      /\ payout[e].hash = tx[w] /\ payout[e].hash # NoTx
  BY TxIsNot DEF Inv, TypeOK, Positions, Signed, Finalize
<1>2. /\ payout' = [payout EXCEPT ![e].status = "CONFIRMED"]
      /\ pc' = [pc EXCEPT ![w] = "release"]
      /\ UNCHANGED <<ledger, walletLock, queue, job, holds, tx, network, recovery>>
  BY DEF Finalize, FinalizeConfirmed
<1>3. StatusWritten(e, "CONFIRMED")
  BY <1>1, <1>2, WriteStatus DEF Inv
<1> HIDE DEF e
<1>4. /\ Recorded' /\ payout' \in [Earnings -> Payout]
      /\ \A f \in Earnings : payout'[f].hash = payout[f].hash
  BY <1>1, <1>2, <1>3, StatusKeepsRecords
<1>5. /\ \A v \in Workers : e \notin queue[v]
      /\ \A v \in Workers : pc[v] \in Unsigned => job[v] # e
  BY <1>1, WithHash
<1>6. TypeOK'
  BY <1>1, <1>2, <1>3, <1>4 DEF Inv, TypeOK, Steps, StatusWritten
<1>7. Positions'
  BY <1>1, <1>2, <1>3, <1>4, <1>5
  DEF Inv, TypeOK, Positions, StatusWritten, Unsigned, Signed, Busy, e
<1>8. Exclusive'
  BY <1>1, <1>2, <1>3, <1>5
  DEF Inv, TypeOK, Exclusive, StatusWritten, Unsigned, Signed, Busy, e
<1>9. Learnt'
  BY <1>2, <1>4 DEF Inv, TypeOK, Learnt
<1> QED
  BY <1>4, <1>6, <1>7, <1>8, <1>9 DEF Inv

LEMMA MarkFailedStep ==
  ASSUME Inv, NEW w \in Workers, MarkFailed(w)
  PROVE  Inv'
<1> DEFINE e == job[w]
<1>1. e \in Earnings /\ pc[w] \in {"reject", "mark_failed"}
  BY DEF Inv, Positions, MarkFailed
<1>2. /\ payout' = [payout EXCEPT ![e].status = "FAILED"]
      /\ pc' = [pc EXCEPT ![w] = "release"]
      /\ UNCHANGED <<ledger, walletLock, queue, job, holds, tx, network, recovery>>
  BY DEF MarkFailed, MarkPayoutFailed
<1>3. StatusWritten(e, "FAILED")
  BY <1>1, <1>2, WriteStatus DEF Inv
<1>4. /\ \A v \in Workers : e \notin queue[v]
      /\ \A v \in Workers \ {w} : pc[v] \in Busy => job[v] # e
  BY <1>1 DEF Inv, Exclusive, Unsigned, Signed, Busy
<1> HIDE DEF e
<1>5. /\ Recorded' /\ payout' \in [Earnings -> Payout]
      /\ \A f \in Earnings : payout'[f].hash = payout[f].hash
  BY <1>1, <1>2, <1>3, StatusKeepsRecords
<1>6. TypeOK'
  BY <1>1, <1>2, <1>3, <1>5 DEF Inv, TypeOK, Steps, StatusWritten
<1>7. Positions'
  BY <1>1, <1>2, <1>3, <1>4, <1>5
  DEF Inv, TypeOK, Positions, StatusWritten, Unsigned, Signed, Busy, e
<1>8. Exclusive'
  BY <1>1, <1>2, <1>3, <1>4
  DEF Inv, TypeOK, Exclusive, StatusWritten, Unsigned, Signed, Busy, e
<1>9. Learnt'
  BY <1>2, <1>5 DEF Inv, TypeOK, Learnt
<1> QED
  BY <1>5, <1>6, <1>7, <1>8, <1>9 DEF Inv

LEMMA RecoverStep ==
  ASSUME Inv, NEW p \in Recoverers, RecoverConfirmed(p) \/ RecoverFailed(p)
  PROVE  Inv'
<1> DEFINE e == cur[p]
<1>1. e \in Earnings /\ payout[e].hash # NoTx
  BY DEF Inv, Learnt, RecoverConfirmed, RecoverFailed
<1>2. PICK s \in {"CONFIRMED", "FAILED"} :
        /\ payout' = [payout EXCEPT ![e].status = s]
        /\ s = "CONFIRMED" => payout[e].hash \in succeeded
  BY DEF Inv, Learnt, RecoverConfirmed, RecoverFailed, FinalizeConfirmed,
         MarkPayoutFailed
<1>3. /\ rpc' = [rpc EXCEPT ![p] = "scan"]
      /\ cur' = [cur EXCEPT ![p] = NoEarning]
      /\ UNCHANGED <<ledger, walletLock, workers, network, todo>>
  BY DEF RecoverConfirmed, RecoverFailed
<1>4. StatusWritten(e, s)
  BY <1>1, <1>2, WriteStatus DEF Inv
<1> HIDE DEF e
<1>5. /\ Recorded' /\ payout' \in [Earnings -> Payout]
      /\ \A f \in Earnings : payout'[f].hash = payout[f].hash
  BY <1>1, <1>2, <1>3, <1>4, StatusKeepsRecords
<1>6. /\ \A v \in Workers : e \notin queue[v]
      /\ \A v \in Workers : pc[v] \in Unsigned => job[v] # e
  BY <1>1, WithHash
<1>7. TypeOK'
  BY <1>1, <1>3, <1>4, <1>5 DEF Inv, TypeOK, StatusWritten
<1>8. Positions'
  <2>1. \A f \in Earnings :
          /\ payout[f].status # "NONE" => payout'[f].status # "NONE"
          /\ f # e => payout'[f] = payout[f]
    BY <1>4 DEF StatusWritten
  <2>2. \A v \in Workers : pc[v] \in Unsigned => payout'[job[v]] = payout[job[v]]
    BY <1>6, <2>1 DEF Inv, Positions, Unsigned
  <2> QED
    BY <1>3, <1>5, <2>1, <2>2 DEF Inv, Positions, Unsigned, Signed, Busy
<1>9. Exclusive'
  BY <1>1, <1>3, <1>4, <1>6 DEF Inv, TypeOK, Exclusive, StatusWritten
<1>10. Learnt'
  BY <1>3, <1>5 DEF Inv, TypeOK, Learnt
<1> QED
  BY <1>5, <1>7, <1>8, <1>9, <1>10 DEF Inv

(* The steps of recovery that only read. *)
LEMMA RecoveryReads ==
  ASSUME Inv, NEW p \in Recoverers,
         \/ ListNonFinal(p) \/ FinishRecovery(p) \/ AbortRecovery(p)
         \/ \E row \in todo[p] : Examine(p, row) \/ KeepReserved(p, row)
  PROVE  Inv'
<1>1. UNCHANGED <<database, workers, network>>
  BY DEF ListNonFinal, FinishRecovery, AbortRecovery, EndRecovery, Examine,
         KeepReserved
<1>2. Positions' /\ Exclusive' /\ Recorded'
  BY <1>1 DEF Inv, Positions, Exclusive, Recorded
<1>3. CASE ListNonFinal(p)
  <2>1. \A e \in Earnings : payout[e].hash \in Tx \cup {NoTx}
    BY DEF Inv, TypeOK, Payout
  <2>2. {[earning |-> e, hash |-> payout[e].hash] : e \in {f \in Earnings : NonFinal(f)}}
          \in SUBSET [earning: Earnings, hash: Tx \cup {NoTx}]
    BY <2>1
  <2>3. TypeOK'
    BY <1>1, <1>3, <2>2 DEF Inv, TypeOK, ListNonFinal
  <2>4. Learnt'
    BY <1>1, <1>3 DEF Inv, TypeOK, Learnt, ListNonFinal
  <2> QED
    BY <1>2, <2>3, <2>4 DEF Inv
<1>4. ASSUME NEW row \in todo[p], Examine(p, row) PROVE Inv'
  <2>1. row.hash \in succeeded \/ row.hash \in reverted
    BY <1>4 DEF Examine, Assessments
  <2>2. /\ row.earning \in Earnings /\ row.hash # NoTx
        /\ payout[row.earning].hash = row.hash
    BY <2>1, TxIsNot DEF Inv, TypeOK, Learnt
  <2>3. TypeOK'
    BY <1>1, <1>4, <2>2 DEF Inv, TypeOK, Examine
  <2>4. Learnt'
    BY <1>1, <1>4, <2>2 DEF Inv, TypeOK, Learnt, Examine, Assessments
  <2> QED
    BY <1>2, <2>3, <2>4 DEF Inv
<1>5. ASSUME NEW row \in todo[p], KeepReserved(p, row) PROVE Inv'
  <2>1. TypeOK' /\ Learnt'
    BY <1>1, <1>5 DEF Inv, TypeOK, Learnt, KeepReserved
  <2> QED
    BY <1>2, <2>1 DEF Inv
<1>6. CASE FinishRecovery(p) \/ AbortRecovery(p)
  <2>1. TypeOK' /\ Learnt'
    BY <1>1, <1>6 DEF Inv, TypeOK, Learnt, FinishRecovery, AbortRecovery, EndRecovery
  <2> QED
    BY <1>2, <2>1 DEF Inv
<1> QED
  BY <1>3, <1>4, <1>5, <1>6

-----------------------------------------------------------------------------
(* The inductive step. *)
LEMMA InvNext ==
  ASSUME Inv, [Next]_vars
  PROVE  Inv'
<1>1. ASSUME NEW w \in Workers, Work(w) PROVE Inv'
  <2>1. CASE QuietWork(w)
    BY <2>1, TypeQuiet, QuietStep DEF Inv
  <2>2. CASE ReserveEarning(w)
    BY <2>2, ReserveEarningStep
  <2>3. CASE ReserveOutstanding(w)
    BY <2>3, ReserveOutstandingStep
  <2>4. CASE MarkSubmitted(w)
    BY <2>4, MarkSubmittedStep
  <2>5. CASE Broadcast(w)
    BY <2>5, BroadcastStep
  <2>6. CASE Finalize(w)
    BY <2>6, FinalizeStep
  <2>7. CASE MarkFailed(w)
    BY <2>7, MarkFailedStep
  <2> QED
    BY <1>1, <2>1, <2>2, <2>3, <2>4, <2>5, <2>6, <2>7 DEF Work, Proceed, QuietWork
<1>2. CASE LockLapses
  BY <1>2 DEF LockLapses, Inv, TypeOK, Positions, Exclusive, Recorded, Learnt
<1>3. ASSUME NEW t \in sent, Include(t) PROVE Inv'
  BY <1>3, IncludeStep
<1>4. ASSUME NEW p \in Recoverers, Recovery(p) PROVE Inv'
  BY <1>4, RecoverStep, RecoveryReads DEF Recovery
<1>5. CASE UNCHANGED vars
  BY <1>5 DEF vars, Inv, TypeOK, Positions, Exclusive, Recorded, Learnt
<1>6. ASSUME NEW e \in Earnings, Earn(e) PROVE Inv'
  BY <1>6 DEF Earn, workers, Inv, TypeOK, Positions, Exclusive, Recorded, Learnt
<1> QED
  BY <1>1, <1>2, <1>3, <1>4, <1>5, <1>6 DEF Next

(* The inductive invariant holds in every reachable state. *)
THEOREM Invariance == Spec => []Inv
<1>1. Init => Inv
  BY InvInit
<1>2. Inv /\ [Next]_vars => Inv'
  BY InvNext
<1> QED
  BY <1>1, <1>2, PTL DEF Spec

-----------------------------------------------------------------------------
(* The properties. *)

(* Every variable keeps its type, and what was submitted has a hash. *)
THEOREM TypeCorrect == Spec => []TypeOK
<1>1. Inv => TypeOK
  BY DEF Inv
<1> QED
  BY <1>1, Invariance, PTL

(* An earning is in the hands of one invocation (README.md:426). *)
THEOREM OnePayoutPerEarningHolds == Spec => []OnePayoutPerEarning
<1>1. Inv => OnePayoutPerEarning
  <2> SUFFICES ASSUME Inv, NEW v \in Workers, NEW w \in Workers, v # w
               PROVE  (queue[v] \cup (IF pc[v] \in {"idle", "reserve", "next"}
                                      THEN {} ELSE {job[v]}))
                      \cap (queue[w] \cup (IF pc[w] \in {"idle", "reserve", "next"}
                                           THEN {} ELSE {job[w]})) = {}
    BY DEF OnePayoutPerEarning
  <2>1. \A u \in Workers : pc[u] \notin {"idle", "reserve", "next"} => pc[u] \in Busy
    BY DEF Inv, TypeOK, Steps, Busy, Unsigned, Signed
  <2> QED
    BY <2>1 DEF Inv, Exclusive
<1> QED
  BY <1>1, Invariance, PTL

(* CONFIRMED means paid, and a released payout is never sent. *)
THEOREM StatusIsTruthfulHolds == Spec => []StatusIsTruthful
<1>1. Inv => StatusIsTruthful
  <2> SUFFICES ASSUME Inv, NEW e \in Earnings
               PROVE  /\ payout[e].status = "CONFIRMED" => payout[e].hash \in succeeded
                      /\ payout[e].status = "FAILED" /\ payout[e].hash = NoTx =>
                           \A w \in Workers : job[w] = e => pc[w] \in {"release", "reserve"}
    BY DEF StatusIsTruthful
  <2>1. payout[e].status = "CONFIRMED" => payout[e].hash \in succeeded
    BY DEF Inv, Recorded
  <2>2. ASSUME payout[e].status = "FAILED", payout[e].hash = NoTx,
               NEW w \in Workers, job[w] = e
        PROVE  pc[w] \in {"release", "reserve"}
    <3>1. pc[w] \notin {"idle", "next"}
      BY <2>2, PayoutConstants DEF Inv, Positions
    <3>2. pc[w] \notin Unsigned
      BY <2>2 DEF Inv, Positions
    <3>3. pc[w] \notin Signed
      BY <2>2, TxIsNot DEF Inv, Positions
    <3> QED
      BY <3>1, <3>2, <3>3 DEF Inv, TypeOK, Steps, Unsigned, Signed
  <2> QED
    BY <2>1, <2>2
<1> QED
  BY <1>1, Invariance, PTL

-----------------------------------------------------------------------------
(* What a step does to the table and to the mined transfers. *)

Reserves(E) ==
  /\ E \subseteq Earnings
  /\ \A e \in E : payout[e].status = "NONE" /\ payout'[e].status = "PENDING"
  /\ \A e \in Earnings : payout'[e].hash = payout[e].hash
  /\ \A e \in Earnings \ E : payout'[e] = payout[e]
  /\ UNCHANGED succeeded

Closes(e, s) ==
  /\ StatusWritten(e, s)
  /\ payout[e].status # "NONE"
  /\ payout[e].hash = NoTx => s = "FAILED" /\ payout[e].status = "PENDING"
  /\ UNCHANGED succeeded

LEMMA WorkOnTable ==
  ASSUME Inv, NEW w \in Workers, Work(w)
  PROVE  \/ UNCHANGED <<payout, succeeded>>
         \/ \E E \in SUBSET Earnings : Reserves(E)
         \/ MarkSubmitted(w)
         \/ \E e \in Earnings, s \in {"CONFIRMED", "FAILED"} : Closes(e, s)
<1>1. CASE QuietWork(w)
  BY <1>1 DEF QuietWork, Handoff, AcquireWalletLock, Preflight, SignTransfer,
              AwaitReceipt, ReleaseWalletLock, Throw, Crash, Forget
<1>2. CASE ReserveEarning(w)
  <2>1. CASE payout[job[w]].status # "NONE"
    BY <1>2, <2>1 DEF ReserveEarning
  <2>2. CASE payout[job[w]].status = "NONE"
    <3>1. job[w] \in Earnings
      BY <1>2 DEF Inv, Positions, ReserveEarning
    <3>2. StatusWritten(job[w], "PENDING")
      BY <1>2, <2>2, <3>1, WriteStatus DEF ReserveEarning, Inv
    <3>3. UNCHANGED succeeded
      BY <1>2 DEF ReserveEarning
    <3>4. Reserves({job[w]})
      BY <2>2, <3>1, <3>2, <3>3 DEF Reserves, StatusWritten
    <3> QED
      BY <3>1, <3>4
  <2> QED
    BY <2>1, <2>2
<1>3. CASE ReserveOutstanding(w)
  <2>0. ledger \subseteq Earnings
    BY DEF Inv, TypeOK
  <2>1. PICK E \in SUBSET Earnings :
          /\ \A e \in E : payout[e].status = "NONE"
          /\ payout' = [e \in Earnings |->
               IF e \in E THEN [payout[e] EXCEPT !.status = "PENDING"] ELSE payout[e]]
    BY <1>3, <2>0 DEF ReserveOutstanding
  <2>2. \A e \in Earnings :
          /\ [payout[e] EXCEPT !.status = "PENDING"].status = "PENDING"
          /\ [payout[e] EXCEPT !.status = "PENDING"].hash = payout[e].hash
    BY RowsTyped DEF Inv, TypeOK
  <2>3. Reserves(E)
    BY <1>3, <2>1, <2>2 DEF Reserves, ReserveOutstanding
  <2> QED
    BY <2>3
<1>4. CASE Broadcast(w)
  BY <1>4 DEF Broadcast
<1>5. CASE Finalize(w)
  <2>1. /\ job[w] \in Earnings /\ payout[job[w]].hash # NoTx
        /\ payout[job[w]].status # "NONE"
    BY <1>5, TxIsNot DEF Finalize, Inv, Positions, Signed, Busy
  <2>2. StatusWritten(job[w], "CONFIRMED")
    BY <1>5, <2>1, WriteStatus DEF Finalize, FinalizeConfirmed, Inv
  <2>3. Closes(job[w], "CONFIRMED")
    BY <1>5, <2>1, <2>2 DEF Finalize, Closes
  <2> QED
    BY <2>1, <2>3
<1>6. CASE MarkFailed(w)
  <2>1. /\ job[w] \in Earnings /\ payout[job[w]].status # "NONE"
        /\ payout[job[w]].hash = NoTx => payout[job[w]].status = "PENDING"
    BY <1>6, TxIsNot DEF MarkFailed, Inv, Positions, Unsigned, Signed, Busy
  <2>2. StatusWritten(job[w], "FAILED")
    BY <1>6, <2>1, WriteStatus DEF MarkFailed, MarkPayoutFailed, Inv
  <2>3. Closes(job[w], "FAILED")
    BY <1>6, <2>1, <2>2 DEF MarkFailed, Closes
  <2> QED
    BY <2>1, <2>3
<1> QED
  BY <1>1, <1>2, <1>3, <1>4, <1>5, <1>6 DEF Work, Proceed, QuietWork

LEMMA RecoveryOnTable ==
  ASSUME Inv, NEW p \in Recoverers, Recovery(p)
  PROVE  \/ UNCHANGED <<payout, succeeded>>
         \/ \E e \in Earnings, s \in {"CONFIRMED", "FAILED"} : Closes(e, s)
<1>1. CASE RecoverConfirmed(p) \/ RecoverFailed(p)
  <2>1. cur[p] \in Earnings /\ payout[cur[p]].hash # NoTx
    BY <1>1 DEF Inv, Learnt, RecoverConfirmed, RecoverFailed
  <2>2. payout[cur[p]].status # "NONE"
    BY <2>1, WithHash
  <2>3. PICK s \in {"CONFIRMED", "FAILED"} :
          payout' = [payout EXCEPT ![cur[p]].status = s]
    BY <1>1 DEF RecoverConfirmed, RecoverFailed, FinalizeConfirmed, MarkPayoutFailed
  <2>4. StatusWritten(cur[p], s)
    BY <2>1, <2>3, WriteStatus DEF Inv
  <2>5. Closes(cur[p], s)
    BY <1>1, <2>1, <2>2, <2>4 DEF Closes, RecoverConfirmed, RecoverFailed
  <2> QED
    BY <2>1, <2>5
<1>2. CASE ~(RecoverConfirmed(p) \/ RecoverFailed(p))
  BY <1>2 DEF Recovery, ListNonFinal, FinishRecovery, AbortRecovery, EndRecovery,
              Examine, KeepReserved
<1> QED
  BY <1>1, <1>2

(* Once a hash is recorded for an earning it is its only one, whatever     *)
(* crashes, is misread or is retried (README.md:428).                      *)
THEOREM HashIsFinalHolds == Spec => HashIsFinal
<1> DEFINE Kept == \A e \in Earnings :
                     payout[e].hash # NoTx => payout'[e].hash = payout[e].hash
<1>1. ASSUME Inv, [Next]_vars PROVE [Kept]_vars
  <2>1. ASSUME NEW w \in Workers, MarkSubmitted(w) PROVE Kept
    BY <1>1, <2>1 DEF MarkSubmitted, Inv, TypeOK, Positions, Recorded, Unsigned
  <2>2. ASSUME NEW w \in Workers, Work(w) PROVE Kept
    BY <1>1, <2>1, <2>2, WorkOnTable DEF Reserves, Closes, StatusWritten
  <2>3. ASSUME NEW p \in Recoverers, Recovery(p) PROVE Kept
    BY <1>1, <2>3, RecoveryOnTable DEF Closes, StatusWritten
  <2>4. CASE LockLapses \/ (\E t \in sent : Include(t)) \/ (\E e \in Earnings : Earn(e))
    BY <2>4 DEF LockLapses, Include, Earn
  <2> QED
    BY <1>1, <2>2, <2>3, <2>4 DEF Next
<1> QED
  BY <1>1, Invariance, PTL DEF Spec, HashIsFinal

-----------------------------------------------------------------------------
(* The ledger: rows are never removed, and only what is in it is paid.     *)

Booked ==
  /\ \A e \in Earnings : payout[e].status # "NONE" => e \in ledger
  /\ \A w \in Workers : pc[w] = "reserve" => job[w] \in ledger

LEMMA LedgerGrows == [Next]_vars => ledger \subseteq ledger'
  BY DEF Next, vars, Earn, Work, Proceed, Handoff, ReserveEarning, ReserveOutstanding,
         AcquireWalletLock, Preflight, SignTransfer, MarkSubmitted, Broadcast,
         AwaitReceipt, Finalize, MarkFailed, ReleaseWalletLock, Throw, Crash, Forget,
         LockLapses, Include, Recovery, ListNonFinal, Examine, KeepReserved,
         RecoverConfirmed, RecoverFailed, FinishRecovery, AbortRecovery, EndRecovery

LEMMA BookedWork ==
  ASSUME Inv, Booked, NEW w \in Workers, Work(w)
  PROVE  Booked'
<1>1. ledger' = ledger
  BY DEF Work, Proceed, Handoff, ReserveEarning, ReserveOutstanding,
         AcquireWalletLock, Preflight, SignTransfer, MarkSubmitted, Broadcast,
         AwaitReceipt, Finalize, MarkFailed, ReleaseWalletLock, Throw, Crash, Forget
<1>2. \A v \in Workers : pc'[v] = "reserve" => job'[v] \in ledger
  <2>1. CASE QuietWork(w)
    BY <2>1 DEF Inv, TypeOK, Booked, QuietWork, Handoff, AcquireWalletLock, Preflight,
                SignTransfer, AwaitReceipt, ReleaseWalletLock, Throw, Crash, Forget
  <2>2. CASE ReserveEarning(w) \/ ReserveOutstanding(w) \/ MarkSubmitted(w)
    BY <2>2 DEF Inv, TypeOK, Booked, ReserveEarning, ReserveOutstanding, MarkSubmitted
  <2>3. CASE Broadcast(w) \/ Finalize(w) \/ MarkFailed(w)
    BY <2>3 DEF Inv, TypeOK, Booked, Broadcast, Finalize, MarkFailed
  <2> QED
    BY <2>1, <2>2, <2>3 DEF Work, Proceed, QuietWork
<1>3. ASSUME NEW e \in Earnings, payout'[e].status # "NONE"
      PROVE  payout[e].status # "NONE" \/ e \in ledger
  <2>1. CASE ReserveEarning(w)
    BY <1>3, <2>1 DEF Booked, Inv, TypeOK, ReserveEarning
  <2>2. CASE ReserveOutstanding(w)
    BY <1>3, <2>2 DEF ReserveOutstanding
  <2>3. CASE MarkSubmitted(w)
    BY <1>3, <2>3 DEF Inv, TypeOK, Positions, Unsigned, MarkSubmitted
  <2>4. CASE QuietWork(w) \/ Broadcast(w)
    BY <1>3, <2>4 DEF QuietWork, Handoff, AcquireWalletLock, Preflight, SignTransfer,
                      AwaitReceipt, ReleaseWalletLock, Throw, Crash, Forget, Broadcast
  <2>5. CASE Finalize(w) \/ MarkFailed(w)
    BY <1>3, <2>5 DEF Inv, TypeOK, Positions, Unsigned, Signed, Busy, Finalize,
                      MarkFailed, FinalizeConfirmed, MarkPayoutFailed
  <2> QED
    BY <2>1, <2>2, <2>3, <2>4, <2>5 DEF Work, Proceed, QuietWork
<1> QED
  BY <1>1, <1>2, <1>3 DEF Booked

LEMMA BookedNext ==
  ASSUME Inv, Booked, [Next]_vars
  PROVE  Booked'
<1>1. ASSUME NEW w \in Workers, Work(w) PROVE Booked'
  BY <1>1, BookedWork
<1>2. ASSUME NEW p \in Recoverers, Recovery(p) PROVE Booked'
  <2>1. UNCHANGED <<ledger, pc, job>>
    BY <1>2 DEF workers, Recovery, ListNonFinal, Examine, KeepReserved,
                RecoverConfirmed, RecoverFailed, FinishRecovery, AbortRecovery, EndRecovery
  <2>2. \A e \in Earnings : payout'[e].status # "NONE" => payout[e].status # "NONE"
    BY <1>2, RecoveryOnTable DEF Closes, StatusWritten
  <2> QED
    BY <2>1, <2>2 DEF Booked
<1>3. CASE LockLapses \/ (\E t \in sent : Include(t)) \/ (\E e \in Earnings : Earn(e))
           \/ UNCHANGED vars
  BY <1>3 DEF LockLapses, Include, Earn, workers, vars, Booked
<1> QED
  BY <1>1, <1>2, <1>3 DEF Next

LEMMA BookedAlways == Spec => []Booked
<1>1. Init => Booked
  BY DEF Init, NoPayout, Booked
<1> QED
  BY <1>1, BookedNext, Invariance, PTL DEF Spec

(* Whatever reached the network is the recorded transfer of exactly one    *)
(* payout, of an earning in the ledger, to its payee (broadcast.ts:12).    *)
THEOREM TransferIsOnRecordHolds == Spec => []TransferIsOnRecord
<1>1. Inv /\ Booked => TransferIsOnRecord
  <2> SUFFICES ASSUME Inv, Booked, NEW t \in sent
               PROVE  \E e \in ledger :
                        /\ payout[e].hash = t
                        /\ t.pays = PayeeOf[e]
                        /\ \A f \in Earnings : payout[f].hash = t => f = e
    BY DEF TransferIsOnRecord
  <2>1. t # NoTx
    BY TxIsNot DEF Inv, TypeOK
  <2>2. PICK e \in Earnings : payout[e].hash = t
    BY DEF Inv, Recorded
  <2>3. e \in ledger
    BY <2>1, <2>2 DEF Inv, Recorded, Booked
  <2> QED
    BY <2>1, <2>2, <2>3 DEF Inv, Recorded
<1> QED
  BY <1>1, Invariance, BookedAlways, PTL

-----------------------------------------------------------------------------
(* Payouts implements PayoutPromise. *)

LEMMA PromiseStart == Init => Promise!PayoutInit
<1> SUFFICES ASSUME Init PROVE Promise!PayoutInit
  OBVIOUS
<1>1. \A e \in Earnings :
        payout[e].status = "NONE" /\ payout[e].hash \notin succeeded
  BY DEF Init, NoPayout
<1> QED
  BY <1>1 DEF AccountOf, TransfersOf, Promise!PayoutInit

LEMMA ReservesKeepsPromise ==
  ASSUME Inv, NEW E \in SUBSET Earnings, Reserves(E)
  PROVE  Promise!Reserve(E)
<1>1. \A e \in E : AccountOf[e] = "open"
  BY DEF AccountOf, Reserves
<1>2. \A e \in Earnings :
        AccountOf'[e] = IF e \in E THEN "reserved" ELSE AccountOf[e]
  BY DEF AccountOf, Reserves
<1>3. AccountOf' = [e \in Earnings |-> IF e \in E THEN "reserved" ELSE AccountOf[e]]
  BY <1>2 DEF AccountOf
<1>4. UNCHANGED TransfersOf
  BY DEF TransfersOf, Reserves
<1> QED
  BY <1>1, <1>3, <1>4 DEF Promise!Reserve

LEMMA ClosesKeepsPromise ==
  ASSUME Inv, NEW e \in Earnings, NEW s \in {"CONFIRMED", "FAILED"}, Closes(e, s)
  PROVE  Promise!Release(e) \/ UNCHANGED Promise!payoutVars
<1>1. UNCHANGED TransfersOf
  BY DEF TransfersOf, Closes, StatusWritten
<1>2. \A f \in Earnings \ {e} : AccountOf'[f] = AccountOf[f]
  BY DEF AccountOf, Closes, StatusWritten
<1>3. CASE payout[e].hash = NoTx
  <2>1. AccountOf[e] = "reserved" /\ AccountOf'[e] = "released"
    BY <1>3 DEF AccountOf, Closes, StatusWritten
  <2>2. AccountOf' = [AccountOf EXCEPT ![e] = "released"]
    BY <1>2, <2>1 DEF AccountOf
  <2>3. TransfersOf[e] = 0
    BY <1>3, TxIsNot DEF TransfersOf, Inv, TypeOK
  <2> QED
    BY <1>1, <2>1, <2>2, <2>3 DEF Promise!Release
<1>4. CASE payout[e].hash # NoTx
  <2>1. AccountOf'[e] = AccountOf[e]
    BY <1>4 DEF AccountOf, Closes, StatusWritten
  <2>2. UNCHANGED AccountOf
    BY <1>2, <2>1 DEF AccountOf
  <2> QED
    BY <1>1, <2>2 DEF Promise!payoutVars
<1> QED
  BY <1>3, <1>4

LEMMA MarkSubmittedKeepsPromise ==
  ASSUME Inv, NEW w \in Workers, MarkSubmitted(w)
  PROVE  UNCHANGED Promise!payoutVars
<1> DEFINE e == job[w]
<1>1. /\ e \in Earnings /\ payout \in [Earnings -> Payout]
      /\ payout[e].status = "PENDING" /\ payout[e].hash = NoTx
      /\ tx[w] # NoTx /\ tx[w] \notin succeeded /\ NoTx \notin succeeded
  BY TxIsNot, UnsignedNotSent
  DEF Inv, TypeOK, Positions, Recorded, Unsigned, MarkSubmitted
<1>2. /\ payout'[e].status = "SUBMITTED" /\ payout'[e].hash = tx[w]
      /\ \A f \in Earnings : f # e => payout'[f] = payout[f]
      /\ UNCHANGED succeeded
  BY <1>1 DEF MarkSubmitted
<1> HIDE DEF e
<1>3. UNCHANGED AccountOf
  BY <1>1, <1>2 DEF AccountOf
<1>4. UNCHANGED TransfersOf
  BY <1>1, <1>2 DEF TransfersOf
<1> QED
  BY <1>3, <1>4 DEF Promise!payoutVars

LEMMA IncludeKeepsPromise ==
  ASSUME Inv, NEW t \in sent, Include(t)
  PROVE  [Promise!PayoutNext]_Promise!payoutVars
<1>1. UNCHANGED AccountOf
  BY DEF Include, AccountOf
<1>2. PICK e \in Earnings : payout[e].hash = t
  BY DEF Inv, Recorded
<1>3. /\ t # NoTx
      /\ \A f \in Earnings \ {e} : payout[f].hash # t
      /\ payout[e].status # "NONE"
  BY <1>2, TxIsNot DEF Inv, TypeOK, Recorded
<1>4. t \notin succeeded
  BY DEF Inv, TypeOK, Recorded, Include, Tx
<1>5. CASE succeeded' = succeeded \cup {t}
  <2>1. AccountOf[e] = "reserved" /\ TransfersOf[e] = 0
    BY <1>2, <1>3, <1>4 DEF AccountOf, TransfersOf
  <2>2. \A f \in Earnings :
          payout'[f].hash \in succeeded' <=> f = e \/ payout[f].hash \in succeeded
    BY <1>2, <1>3, <1>5 DEF Include
  <2>3. TransfersOf' = [TransfersOf EXCEPT ![e] = 1]
    BY <2>2 DEF TransfersOf
  <2>4. Promise!Transfer(e)
    BY <1>1, <2>1, <2>3 DEF Promise!Transfer
  <2> QED
    BY <2>4 DEF Promise!PayoutNext
<1>6. CASE UNCHANGED succeeded
  BY <1>1, <1>6 DEF Include, TransfersOf, Promise!payoutVars
<1> QED
  BY <1>5, <1>6 DEF Include

LEMMA StepKeepsPromise ==
  ASSUME Inv, [Next]_vars
  PROVE  [Promise!PayoutNext]_Promise!payoutVars
<1>1. ASSUME UNCHANGED <<payout, succeeded>>
      PROVE  UNCHANGED Promise!payoutVars
  BY <1>1 DEF AccountOf, TransfersOf, Promise!payoutVars
<1>2. ASSUME NEW e \in Earnings, NEW s \in {"CONFIRMED", "FAILED"}, Closes(e, s)
      PROVE  [Promise!PayoutNext]_Promise!payoutVars
  BY <1>2, ClosesKeepsPromise DEF Promise!PayoutNext
<1>3. ASSUME NEW E \in SUBSET Earnings, Reserves(E)
      PROVE  Promise!PayoutNext
  BY <1>3, ReservesKeepsPromise DEF Promise!PayoutNext
<1>4. ASSUME NEW w \in Workers, Work(w)
      PROVE  [Promise!PayoutNext]_Promise!payoutVars
  BY <1>1, <1>2, <1>3, <1>4, WorkOnTable, MarkSubmittedKeepsPromise
<1>5. ASSUME NEW p \in Recoverers, Recovery(p)
      PROVE  [Promise!PayoutNext]_Promise!payoutVars
  BY <1>1, <1>2, <1>5, RecoveryOnTable
<1>6. ASSUME NEW t \in sent, Include(t)
      PROVE  [Promise!PayoutNext]_Promise!payoutVars
  BY <1>6, IncludeKeepsPromise
<1>7. CASE LockLapses \/ (\E e \in Earnings : Earn(e)) \/ UNCHANGED vars
  BY <1>1, <1>7 DEF LockLapses, Earn, vars
<1> QED
  BY <1>4, <1>5, <1>6, <1>7 DEF Next

(* Payouts keeps the promise of PayoutPromise.tla: an earning is reserved  *)
(* once, at most one transfer pays it, and it is released only if none did *)
(* and none will.                                                          *)
THEOREM KeepsPromise == Spec => ImplementsPromise
  BY StepKeepsPromise, PromiseStart, Invariance, PTL
  DEF Spec, ImplementsPromise, Promise!PayoutSpec
=============================================================================
