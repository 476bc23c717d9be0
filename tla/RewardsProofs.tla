--------------------------- MODULE RewardsProofs ----------------------------
(***************************************************************************)
(* Proofs about Rewards, for every set of contributions, wallets, rates and*)
(* concurrent payout requests and every number of failures.                *)
(***************************************************************************)
EXTENDS Rewards, FiniteSetTheorems, TLAPS

Paying == {"prepare", "submit", "record"}

\* The row r is the one its id has now, or one that a later delivery replaced.
Known(r) == rows[r.id] # NoRow /\ r.born <= rows[r.id].born

\* The table: a row stands under its own id, and none is younger than the counter.
Table ==
    \A id \in Ids : /\ status[id] # "none" <=> rows[id] # NoRow
                    /\ rows[id] # NoRow => rows[id].id = id /\ rows[id].born <= queued

\* What handlers hold and what was sent came from the table; a handler that pays holds
\* a reward and a wallet, and success is backed by a transfer.
Held ==
    /\ \A h \in Handlers : \A r \in list[h] : Known(r)
    /\ \A h \in Handlers : pc[h] \in Paying =>
            cur[h] # NoRow /\ Known(cur[h]) /\ dest[h] # NoAddr
    /\ \A h \in Handlers : pc[h] = "record" /\ ok[h] => \E t \in ledger : t.row = cur[h]
    /\ \A t \in ledger : Known(t.row)

\* Only a failure, a signal included, ends or closes the service.
Shaken == phase # "up" => faults > 0

IndInv == TypeOK /\ Table /\ Held /\ Shaken /\ NeverSilentlyPaid /\ SentIsSettled

-----------------------------------------------------------------------------
(* Rows.                                                                   *)

\* The fields of a row.
LEMMA RowFields ==
    ASSUME NEW r \in Rows
    PROVE  /\ r.id \in Ids /\ r.user \in Users /\ r.amount \in Amounts
           /\ r.born \in 1..MaxQueued
BY DEF Rows

\* Amounts are natural numbers, so that -1 is none of them.
LEMMA AmountsNat == Amounts \subseteq Nat
BY RewardsAssumption DEF Amounts

\* The row QueueReward writes.
LEMMA NewRow ==
    ASSUME TypeOK, NEW c \in Contribs, hook[c] # -1, queued < MaxQueued
    PROVE  [id |-> RewardId(c), user |-> c.user, amount |-> hook[c], born |-> queued + 1]
             \in Rows
<1>1. RewardId(c) \in Ids /\ c.user \in Users
  BY DEF Ids, Users
<1>2. hook[c] \in Amounts
  BY DEF TypeOK
<1>3. queued + 1 \in 1..MaxQueued
  BY RewardsAssumption DEF TypeOK
<1> QED BY <1>1, <1>2, <1>3 DEF Rows

-----------------------------------------------------------------------------
(* The inductive invariant.                                                *)

\* Steps that leave the tables, the payout requests and the ledger alone.
LEMMA QuietInd ==
    ASSUME IndInv, TypeOK',
           UNCHANGED <<rows, status, queued, locals, ledger>>,
           faults' >= faults, phase' # phase => faults' > 0
    PROVE  IndInv'
<1>1. faults \in Nat /\ faults' \in Nat
  BY RewardsAssumption DEF IndInv, TypeOK
<1>2. Table'
  BY DEF IndInv, Table
<1>3. Held'
  BY DEF IndInv, Held, Known, locals
<1>4. Shaken'
  BY <1>1 DEF IndInv, Shaken
<1>5. NeverSilentlyPaid'
  BY DEF IndInv, NeverSilentlyPaid
<1>6. SentIsSettled'
  BY <1>1 DEF IndInv, SentIsSettled, locals
<1> QED BY <1>2, <1>3, <1>4, <1>5, <1>6 DEF IndInv

\* The webhook reads a rate.
LEMMA RateInd ==
    ASSUME IndInv, NEW c \in Contribs, rateFor(c)
    PROVE  IndInv'
<1>1. rates[c.type] \in Amounts
  BY DEF IndInv, TypeOK, Amounts, Types
<1>2. TypeOK'
  BY <1>1 DEF IndInv, TypeOK, rateFor, table, locals, money
<1> QED BY <1>2, QuietInd, RewardsAssumption DEF rateFor, table, money, IndInv, TypeOK

\* The statement that would insert the row fails.
LEMMA QueueFailInd ==
    ASSUME IndInv, NEW c \in Contribs, QueueRewardFails(c)
    PROVE  IndInv'
<1>1. faults' \in 0..MaxFaults /\ faults' >= faults
  BY RewardsAssumption DEF IndInv, TypeOK, QueueRewardFails, Fault
<1>2. TypeOK'
  BY <1>1 DEF IndInv, TypeOK, QueueRewardFails, table, locals, money
<1> QED BY <1>1, <1>2, QuietInd DEF QueueRewardFails, table, money

\* Wallets and rates.
LEMMA SettingsInd ==
    ASSUME IndInv,
           \/ \E u \in Users, a \in Addrs : handleWalletRegister(u, a)
           \/ \E r \in RateTables : handleRates(r)
    PROVE  IndInv'
<1>1. faults' \in 0..MaxFaults /\ faults' >= faults
  BY RewardsAssumption DEF IndInv, TypeOK, handleWalletRegister, handleRates, Fault
<1>2. /\ wallets' \in [Users -> Addrs \cup {NoAddr}]
      /\ rates' \in RateTables \cup {DefaultRates}
      /\ saved' \in RateTables \cup {NoRates}
  BY DEF IndInv, TypeOK, handleWalletRegister, handleRates, table
<1>3. UNCHANGED <<phase, method, rows, status, queued, hook, locals, ledger, chain>>
  BY DEF handleWalletRegister, handleRates, table, money
<1>4. TypeOK'
  BY <1>1, <1>2, <1>3 DEF IndInv, TypeOK, locals
<1> QED BY <1>1, <1>3, <1>4, QuietInd

\* Shutdown and restart, which touch no table.
LEMMA PhaseInd ==
    ASSUME IndInv, Stop \/ CloseDb \/ Restart
    PROVE  IndInv'
<1>1. faults' \in 0..MaxFaults /\ faults' >= faults
  BY RewardsAssumption DEF IndInv, TypeOK, Stop, CloseDb, Restart, Fault
<1>2. phase' # phase => faults' > 0
  BY RewardsAssumption DEF IndInv, TypeOK, Shaken, Stop, CloseDb, Restart, Fault
<1>3. rates' \in RateTables \cup {DefaultRates}
  BY DEF IndInv, TypeOK, Stop, CloseDb, Restart, loadRates
<1>4. /\ UNCHANGED <<method, saved, wallets, rows, status, queued, hook, locals, ledger, chain>>
      /\ phase' \in {"up", "closing", "closed", "down"}
  BY DEF Stop, CloseDb, Restart, table, money
<1>5. TypeOK'
  BY <1>1, <1>3, <1>4 DEF IndInv, TypeOK, locals
<1> QED BY <1>1, <1>2, <1>4, <1>5, QuietInd

\* The end of the process: no handler is left, and something had gone wrong.
LEMMA HaltInd ==
    ASSUME IndInv, Exit \/ Crash
    PROVE  IndInv'
<1>1. faults' \in 0..MaxFaults /\ faults' > 0
  BY RewardsAssumption DEF IndInv, TypeOK, Shaken, Exit, Crash, Fault
<1>2. Halt
  BY DEF Exit, Crash
<1>3. TypeOK'
  BY <1>1, <1>2 DEF IndInv, TypeOK, Halt, table, money
<1>4. Table'
  BY <1>2 DEF IndInv, Table, Halt, table
<1>5. Held'
  BY <1>2 DEF IndInv, Held, Known, Paying, Halt, table, money
<1>6. Shaken' /\ SentIsSettled'
  BY <1>1 DEF Shaken, SentIsSettled
<1>7. NeverSilentlyPaid'
  BY <1>2 DEF IndInv, NeverSilentlyPaid, Halt, table, money
<1> QED BY <1>3, <1>4, <1>5, <1>6, <1>7 DEF IndInv

\* A new row is younger than everything handlers hold and everything that was sent,
\* so that no old transfer counts as its own.
LEMMA QueueInd ==
    ASSUME IndInv, NEW c \in Contribs, QueueReward(c)
    PROVE  IndInv'
<1> DEFINE new == [id |-> RewardId(c), user |-> c.user, amount |-> hook[c], born |-> queued + 1]
<1>1. /\ new \in Rows /\ new.id = RewardId(c) /\ new.born = queued + 1
      /\ RewardId(c) \in Ids /\ queued \in Nat /\ new # NoRow
  BY NewRow, RewardsAssumption DEF IndInv, TypeOK, QueueReward, Ids
<1>2. /\ rows' = [rows EXCEPT ![RewardId(c)] = new]
      /\ status' = [status EXCEPT ![RewardId(c)] = "pending"]
      /\ queued' = queued + 1 /\ queued < MaxQueued
      /\ hook' = [hook EXCEPT ![c] = -1]
      /\ UNCHANGED <<phase, method, rates, saved, wallets, locals, ledger, chain, faults>>
  BY DEF QueueReward, money
<1> HIDE DEF new
<1>3. TypeOK'
  <2>1. rows' \in [Ids -> Rows \cup {NoRow}]
    BY <1>1, <1>2 DEF IndInv, TypeOK
  <2>2. status' \in [Ids -> {"none", "pending", "paid", "failed"}]
    BY <1>1, <1>2 DEF IndInv, TypeOK
  <2>3. queued' \in 0..MaxQueued
    BY <1>1, <1>2, RewardsAssumption
  <2>4. hook' \in [Contribs -> Amounts \cup {-1}]
    BY <1>2 DEF IndInv, TypeOK
  <2> QED BY <1>2, <2>1, <2>2, <2>3, <2>4 DEF IndInv, TypeOK, locals
<1>4. \A id \in Ids : rows[id] # NoRow => rows[id] \in Rows /\ rows[id].born \in Nat /\ rows[id].born <= queued
  BY RowFields DEF IndInv, TypeOK, Table
<1>5. Table'
  BY <1>1, <1>2, <1>4 DEF IndInv, TypeOK, Table
<1>6. ASSUME NEW r \in Rows, Known(r)
      PROVE  Known(r)' /\ r # new
  <2>1. r.id \in Ids /\ r.born \in Nat
    BY RowFields
  <2>2. r.born <= queued
    BY <2>1, <1>1, <1>4, <1>6 DEF Known
  <2> QED BY <1>1, <1>2, <1>6, <2>1, <2>2 DEF Known, IndInv, TypeOK
<1>7. Held'
  <2>1. \A h \in Handlers : \A r \in list'[h] : Known(r)'
    BY <1>2, <1>6 DEF IndInv, TypeOK, Held, locals
  <2>2. \A h \in Handlers : pc'[h] \in Paying => cur'[h] # NoRow /\ Known(cur[h])' /\ dest'[h] # NoAddr
    BY <1>2, <1>6 DEF IndInv, TypeOK, Held, locals
  <2>3. \A t \in ledger' : Known(t.row)'
    BY <1>2, <1>6 DEF IndInv, TypeOK, Held, Transfers
  <2> QED BY <1>2, <2>1, <2>2, <2>3 DEF IndInv, Held, Known, locals
<1>8. Shaken'
  BY <1>2 DEF IndInv, Shaken
<1>9. NeverSilentlyPaid'
  BY <1>1, <1>2, <1>4 DEF IndInv, TypeOK, NeverSilentlyPaid
<1>10. SentIsSettled'
  <2> SUFFICES ASSUME NEW t \in ledger', rows'[t.row.id] = t.row, status'[t.row.id] = "pending",
                      ~(faults' > 0)
               PROVE  \E h \in Handlers : pc'[h] = "record" /\ cur'[h] = t.row
    BY DEF SentIsSettled
  <2>1. t \in ledger /\ t.row \in Rows /\ Known(t.row) /\ t.row.id \in Ids
    BY <1>2, RowFields DEF IndInv, TypeOK, Held, Transfers
  <2>2. t.row.id # RewardId(c)
    BY <1>1, <1>2, <1>6, <2>1 DEF IndInv, TypeOK
  <2> QED BY <1>2, <2>1, <2>2 DEF IndInv, TypeOK, SentIsSettled, locals
<1> QED BY <1>3, <1>5, <1>7, <1>8, <1>9, <1>10 DEF IndInv

\* The parts of the invariant a step keeps when it leaves the tables, the ledger and
\* the clock of failures alone: the rest is about the requests.
LEMMA RequestInd ==
    ASSUME IndInv, TypeOK', Held',
           UNCHANGED <<phase, rows, status, queued, ledger>>, faults' >= faults,
           \A h \in Handlers : pc[h] = "record" => pc'[h] = "record" /\ cur'[h] = cur[h]
    PROVE  IndInv'
<1>1. faults \in Nat /\ faults' \in Nat
  BY RewardsAssumption DEF IndInv, TypeOK
<1>2. Table' /\ NeverSilentlyPaid'
  BY DEF IndInv, Table, NeverSilentlyPaid
<1>3. Shaken'
  BY <1>1 DEF IndInv, Shaken
<1>4. SentIsSettled'
  BY <1>1 DEF IndInv, SentIsSettled
<1> QED BY <1>2, <1>3, <1>4 DEF IndInv

\* A request takes its snapshot.
LEMMA LoadInd ==
    ASSUME IndInv, NEW h \in Handlers, loadPendingRewards(h)
    PROVE  IndInv'
<1> DEFINE snap == {rows[id] : id \in {i \in Ids : status[i] = "pending"}}
<1>1. /\ list' = [list EXCEPT ![h] = snap] /\ total' = [total EXCEPT ![h] = 0]
      /\ pc[h] = "idle" /\ pc' = [pc EXCEPT ![h] = "loop"]
      /\ UNCHANGED <<phase, method, rates, saved, wallets, rows, status, queued, hook, cur,
                     dest, nonce, ok, ledger, chain, faults>>
  BY DEF loadPendingRewards, table, money
<1>2. \A r \in snap : r \in Rows /\ Known(r)
  <2> SUFFICES ASSUME NEW id \in Ids, status[id] = "pending"
               PROVE  rows[id] \in Rows /\ Known(rows[id])
    OBVIOUS
  <2>1. rows[id] \in Rows /\ rows[id] # NoRow /\ rows[id].id = id
    BY DEF IndInv, TypeOK, Table
  <2> QED BY <2>1, RowFields DEF Known
<1> HIDE DEF snap
<1>3. TypeOK'
  <2>1. list' \in [Handlers -> SUBSET Rows]
    BY <1>1, <1>2 DEF IndInv, TypeOK
  <2>2. total' \in [Handlers -> Nat]
    BY <1>1 DEF IndInv, TypeOK
  <2>3. pc' \in [Handlers -> {"idle", "loop", "prepare", "submit", "record"}]
    BY <1>1 DEF IndInv, TypeOK
  <2> QED BY <1>1, <2>1, <2>2, <2>3 DEF IndInv, TypeOK
<1>4. Held'
  BY <1>1, <1>2 DEF IndInv, TypeOK, Held, Known, Paying
<1> QED BY <1>1, <1>3, <1>4, RequestInd, RewardsAssumption DEF IndInv, TypeOK

\* A request comes to the next reward, and skips it or starts to pay it.
LEMMA VisitInd ==
    ASSUME IndInv, NEW h \in Handlers, NEW r \in list[h], Skip(h, r) \/ loadWallet(h, r)
    PROVE  IndInv'
<1>1. /\ list' = [list EXCEPT ![h] = @ \ {r}]
      /\ total' = [total EXCEPT ![h] = @ + r.amount]
      /\ pc[h] = "loop"
      /\ UNCHANGED <<phase, method, rates, saved, wallets, rows, status, queued, hook,
                     nonce, ok, ledger, chain, faults>>
  BY DEF Skip, loadWallet, Visit, table, money
<1>2. r \in Rows /\ Known(r) /\ r.amount \in Nat /\ r # NoRow /\ r.user \in Users
  BY RowFields, AmountsNat, RewardsAssumption DEF IndInv, TypeOK, Held
<1>3. \/ UNCHANGED <<pc, cur, dest>>
      \/ /\ pc' = [pc EXCEPT ![h] = "prepare"]
         /\ cur' = [cur EXCEPT ![h] = r]
         /\ \E a \in Addrs : dest' = [dest EXCEPT ![h] = a]
  <2>1. CASE Skip(h, r)
    BY <2>1 DEF Skip
  <2>2. CASE loadWallet(h, r)
    BY <2>2, <1>2 DEF loadWallet, HasWallet, IndInv, TypeOK
  <2> QED BY <2>1, <2>2
<1>4. TypeOK'
  <2>1. list' \in [Handlers -> SUBSET Rows]
    BY <1>1 DEF IndInv, TypeOK
  <2>2. total' \in [Handlers -> Nat]
    BY <1>1, <1>2 DEF IndInv, TypeOK
  <2>3. /\ pc' \in [Handlers -> {"idle", "loop", "prepare", "submit", "record"}]
        /\ cur' \in [Handlers -> Rows \cup {NoRow}]
        /\ dest' \in [Handlers -> Addrs \cup {NoAddr}]
    BY <1>2, <1>3 DEF IndInv, TypeOK
  <2> QED BY <1>1, <2>1, <2>2, <2>3 DEF IndInv, TypeOK
<1>5. Held'
  <2>1. \A g \in Handlers : \A s \in list'[g] : Known(s)'
    BY <1>1 DEF IndInv, TypeOK, Held, Known
  <2>2. \A g \in Handlers : pc'[g] \in Paying =>
            cur'[g] # NoRow /\ Known(cur[g])' /\ dest'[g] # NoAddr
    BY <1>1, <1>2, <1>3, RewardsAssumption DEF IndInv, TypeOK, Held, Known, Paying
  <2>3. \A g \in Handlers : pc'[g] = "record" /\ ok'[g] => \E t \in ledger' : t.row = cur'[g]
    BY <1>1, <1>3 DEF IndInv, TypeOK, Held
  <2> QED BY <1>1, <2>1, <2>2, <2>3 DEF IndInv, Held, Known
<1>6. \A g \in Handlers : pc[g] = "record" => pc'[g] = "record" /\ cur'[g] = cur[g]
  BY <1>1, <1>3 DEF IndInv, TypeOK
<1> QED BY <1>1, <1>4, <1>5, <1>6, RequestInd, RewardsAssumption DEF IndInv, TypeOK

\* Credentials, the token or the nonce.
LEMMA PrepareInd ==
    ASSUME IndInv, NEW h \in Handlers, Prepare(h)
    PROVE  IndInv'
<1>1. /\ pc[h] = "prepare"
      /\ UNCHANGED <<phase, method, rates, saved, wallets, rows, status, queued, hook,
                     list, total, cur, dest, ledger, chain>>
      /\ \/ pc' = [pc EXCEPT ![h] = "submit"] /\ ok' = ok
         \/ pc' = [pc EXCEPT ![h] = "record"] /\ ok' = [ok EXCEPT ![h] = FALSE]
  BY DEF Prepare, table, money
<1>2. faults' \in 0..MaxFaults /\ faults' >= faults
  BY RewardsAssumption DEF IndInv, TypeOK, Prepare, Fault
<1>3. nonce' \in [Handlers -> Nat]
  BY DEF IndInv, TypeOK, Prepare
<1>4. TypeOK'
  BY <1>1, <1>2, <1>3 DEF IndInv, TypeOK
<1>5. Held'
  <2>1. \A g \in Handlers : pc'[g] \in Paying => pc[g] \in Paying
    BY <1>1 DEF IndInv, TypeOK, Paying
  <2>2. \A g \in Handlers : pc'[g] = "record" /\ ok'[g] => pc[g] = "record" /\ ok[g]
    BY <1>1 DEF IndInv, TypeOK
  <2> QED BY <1>1, <2>1, <2>2 DEF IndInv, Held, Known
<1>6. \A g \in Handlers : pc[g] = "record" => pc'[g] = "record" /\ cur'[g] = cur[g]
  BY <1>1 DEF IndInv, TypeOK
<1> QED BY <1>1, <1>2, <1>4, <1>5, <1>6, RequestInd

\* The answer to the client.
LEMMA RespondInd ==
    ASSUME IndInv, NEW h \in Handlers, Respond(h)
    PROVE  IndInv'
<1>1. /\ pc[h] = "loop" /\ pc' = [pc EXCEPT ![h] = "idle"]
      /\ total' = [total EXCEPT ![h] = 0]
      /\ UNCHANGED <<phase, method, rates, saved, wallets, rows, status, queued, hook,
                     list, cur, dest, nonce, ok, ledger, chain, faults>>
  BY DEF Respond, table, money
<1>2. TypeOK'
  BY <1>1 DEF IndInv, TypeOK
<1>3. Held'
  BY <1>1 DEF IndInv, TypeOK, Held, Known, Paying
<1> QED BY <1>1, <1>2, <1>3, RequestInd, RewardsAssumption DEF IndInv, TypeOK

\* Money is sent or not: what was sent is the reward in hand, and its request is
\* about to record it.
LEMMA SubmitInd ==
    ASSUME IndInv, NEW h \in Handlers, Submit(h)
    PROVE  IndInv'
<1>1. /\ pc[h] = "submit" /\ pc' = [pc EXCEPT ![h] = "record"]
      /\ UNCHANGED <<phase, method, rates, saved, wallets, rows, status, queued, hook,
                     list, total, cur, dest, nonce>>
  BY DEF Submit, Submitted, table
<1>2. faults' \in 0..MaxFaults /\ faults' >= faults
  <2>1. faults' = faults \/ Fault("lost") \/ Fault("refused")
    BY Zenon DEF Submit
  <2> QED BY <2>1, RewardsAssumption DEF IndInv, TypeOK, Fault
<1>3. \/ ledger' = ledger /\ chain' = chain /\ ok' = [ok EXCEPT ![h] = FALSE]
      \/ /\ ledger' = ledger \cup {[row |-> cur[h], to |-> dest[h], n |-> chain]}
         /\ chain' = chain + 1
         /\ \E res \in BOOLEAN : ok' = [ok EXCEPT ![h] = res]
  BY DEF Submit, Submitted, Transfer, money
<1>4. /\ cur[h] \in Rows /\ Known(cur[h]) /\ dest[h] \in Addrs
      /\ [row |-> cur[h], to |-> dest[h], n |-> chain] \in Transfers
  BY <1>1 DEF IndInv, TypeOK, Held, Paying, Transfers
<1>5. ledger' \in SUBSET Transfers /\ chain' \in Nat /\ ok' \in [Handlers -> BOOLEAN]
  <2>1. ledger' \in SUBSET Transfers /\ chain' \in Nat
    BY <1>3, <1>4 DEF IndInv, TypeOK
  <2>2. ok' \in [Handlers -> BOOLEAN]
    BY <1>3, Zenon DEF IndInv, TypeOK
  <2> QED BY <2>1, <2>2
<1>6. pc' \in [Handlers -> {"idle", "loop", "prepare", "submit", "record"}]
  BY <1>1 DEF IndInv, TypeOK
<1>7. TypeOK'
  BY <1>1, <1>2, <1>5, <1>6 DEF IndInv, TypeOK
<1>8. ledger \subseteq ledger' /\ \A t \in ledger' : t \in ledger \/ t.row = cur[h]
  BY <1>3
<1>9. ok'[h] => \E t \in ledger' : t.row = cur[h]
  <2>1. CASE ledger' = ledger /\ ok' = [ok EXCEPT ![h] = FALSE]
    <3>1. ok'[h] = FALSE
      BY <2>1, Zenon DEF IndInv, TypeOK
    <3> QED BY <3>1
  <2>2. CASE ledger' = ledger \cup {[row |-> cur[h], to |-> dest[h], n |-> chain]}
    <3> DEFINE t == [row |-> cur[h], to |-> dest[h], n |-> chain]
    <3>1. t \in ledger' /\ t.row = cur[h]
      BY <2>2
    <3> QED BY <3>1
  <2> QED BY <1>3, <2>1, <2>2
<1>10. Held'
  <2>1. \A g \in Handlers : pc'[g] \in Paying => pc[g] \in Paying
    BY <1>1 DEF IndInv, TypeOK, Paying
  <2>2. \A t \in ledger' : Known(t.row)
    BY <1>4, <1>8 DEF IndInv, Held
  <2>3. \A g \in Handlers : g # h => pc'[g] = pc[g] /\ ok'[g] = ok[g]
    BY <1>1, <1>3 DEF IndInv, TypeOK
  <2>4. \A g \in Handlers : pc'[g] = "record" /\ ok'[g] => \E t \in ledger' : t.row = cur[g]
    BY <1>8, <1>9, <2>3 DEF IndInv, Held
  <2> QED BY <1>1, <2>1, <2>2, <2>4 DEF IndInv, Held, Known
<1>11. Table' /\ Shaken'
  BY <1>1, <1>2, RewardsAssumption DEF IndInv, TypeOK, Table, Shaken
<1>12. NeverSilentlyPaid'
  BY <1>1, <1>8 DEF IndInv, NeverSilentlyPaid
<1>13. SentIsSettled'
  <2> SUFFICES ASSUME NEW t \in ledger', rows[t.row.id] = t.row, status[t.row.id] = "pending",
                      ~(faults' > 0)
               PROVE  \E g \in Handlers : pc'[g] = "record" /\ cur[g] = t.row
    BY <1>1 DEF SentIsSettled
  <2>1. CASE t.row = cur[h]
    BY <1>1, <2>1 DEF IndInv, TypeOK
  <2>2. CASE t \in ledger
    <3>1. PICK g \in Handlers : pc[g] = "record" /\ cur[g] = t.row
      BY <1>2, <2>2, RewardsAssumption DEF IndInv, TypeOK, SentIsSettled
    <3> QED BY <1>1, <3>1 DEF IndInv, TypeOK
  <2> QED BY <1>8, <2>1, <2>2
<1> QED BY <1>7, <1>10, <1>11, <1>12, <1>13 DEF IndInv

\* The UPDATE settles whatever row has the id; when it does not happen, something
\* had gone wrong.
LEMMA RecordInd ==
    ASSUME IndInv, NEW h \in Handlers, Record(h)
    PROVE  IndInv'
<1>1. /\ pc[h] = "record" /\ pc' = [pc EXCEPT ![h] = "loop"]
      /\ cur' = [cur EXCEPT ![h] = NoRow] /\ dest' = [dest EXCEPT ![h] = NoAddr]
      /\ nonce' = [nonce EXCEPT ![h] = 0] /\ ok' = [ok EXCEPT ![h] = FALSE]
      /\ UNCHANGED <<phase, method, rates, saved, wallets, rows, queued, hook, list,
                     total, ledger, chain>>
  BY DEF Record, money
<1>2. faults' \in 0..MaxFaults /\ faults' >= faults /\ faults \in Nat /\ faults' \in Nat
  BY RewardsAssumption DEF IndInv, TypeOK, Record, Fault
<1>3. \/ status' = [status EXCEPT ![cur[h].id] = Outcome(h)]
      \/ status' = status /\ faults' > 0
  BY <1>2 DEF IndInv, Shaken, Record, Fault
<1>4. cur[h] \in Rows /\ Known(cur[h]) /\ cur[h].id \in Ids
  BY <1>1, RowFields DEF IndInv, TypeOK, Held, Paying
<1>5. TypeOK'
  <2>1. status' \in [Ids -> {"none", "pending", "paid", "failed"}]
    BY <1>3, <1>4 DEF IndInv, TypeOK, Outcome
  <2>2. ok' \in [Handlers -> BOOLEAN]
    BY <1>1, Zenon DEF IndInv, TypeOK
  <2>3. /\ pc' \in [Handlers -> {"idle", "loop", "prepare", "submit", "record"}]
        /\ cur' \in [Handlers -> Rows \cup {NoRow}]
        /\ dest' \in [Handlers -> Addrs \cup {NoAddr}]
        /\ nonce' \in [Handlers -> Nat]
    BY <1>1 DEF IndInv, TypeOK
  <2> QED BY <1>1, <1>2, <2>1, <2>2, <2>3 DEF IndInv, TypeOK
<1>6. Table'
  BY <1>1, <1>3, <1>4 DEF IndInv, TypeOK, Table, Known, Outcome
<1>7. \A g \in Handlers : g # h => pc'[g] = pc[g] /\ cur'[g] = cur[g] /\ dest'[g] = dest[g]
                                      /\ ok'[g] = ok[g]
  BY <1>1 DEF IndInv, TypeOK
<1>8. pc'[h] = "loop"
  BY <1>1 DEF IndInv, TypeOK
<1>9. Held'
  BY <1>1, <1>7, <1>8 DEF IndInv, Held, Known, Paying
<1>10. Shaken'
  BY <1>1, <1>2 DEF IndInv, Shaken
<1>11. NeverSilentlyPaid'
  <2> SUFFICES ASSUME NEW id \in Ids, status'[id] = "paid"
               PROVE  \E t \in ledger : t.row.id = id /\ t.row.born <= rows[id].born
    BY <1>1 DEF NeverSilentlyPaid
  <2>1. CASE status[id] = "paid"
    BY <2>1 DEF IndInv, NeverSilentlyPaid
  <2>2. CASE status[id] # "paid"
    <3>1. id = cur[h].id /\ ok[h]
      BY <1>3, <1>4, <2>2 DEF IndInv, TypeOK, Outcome
    <3>2. PICK t \in ledger : t.row = cur[h]
      BY <1>1, <3>1 DEF IndInv, Held
    <3> QED BY <1>4, <3>1, <3>2 DEF Known
  <2> QED BY <2>1, <2>2
<1>12. SentIsSettled'
  <2> SUFFICES ASSUME NEW t \in ledger, rows[t.row.id] = t.row, status'[t.row.id] = "pending",
                      ~(faults' > 0)
               PROVE  \E g \in Handlers : pc'[g] = "record" /\ cur'[g] = t.row
    BY <1>1 DEF SentIsSettled
  <2>1. t.row.id \in Ids
    BY RowFields DEF IndInv, TypeOK, Transfers
  <2>2. status[t.row.id] = "pending" /\ t.row.id # cur[h].id
    BY <1>3, <1>4, <2>1 DEF IndInv, TypeOK, Outcome
  <2>3. PICK g \in Handlers : pc[g] = "record" /\ cur[g] = t.row
    BY <1>2, <2>2 DEF IndInv, SentIsSettled
  <2> QED BY <1>7, <2>2, <2>3
<1> QED BY <1>5, <1>6, <1>9, <1>10, <1>11, <1>12 DEF IndInv

-----------------------------------------------------------------------------
(* The theorems.                                                           *)

\* The invariant holds when the service first starts.
LEMMA IndInit == Init => IndInv
<1> SUFFICES ASSUME Init PROVE IndInv
  OBVIOUS
<1>1. TypeOK
  BY RewardsAssumption DEF Init, TypeOK
<1>2. Table /\ Held /\ Shaken /\ NeverSilentlyPaid /\ SentIsSettled
  BY DEF Init, Table, Held, Paying, Shaken, NeverSilentlyPaid, SentIsSettled
<1> QED BY <1>1, <1>2 DEF IndInv

\* Every step keeps the invariant.
LEMMA IndNext == IndInv /\ [Next]_vars => IndInv'
<1> SUFFICES ASSUME IndInv, [Next]_vars PROVE IndInv'
  OBVIOUS
<1>1. CASE UNCHANGED vars
  <2>1. TypeOK'
    BY <1>1 DEF IndInv, TypeOK, vars, table, locals, money
  <2> QED BY <1>1, <2>1, QuietInd, RewardsAssumption DEF vars, table, money, IndInv, TypeOK
<1>2. ASSUME NEW h \in Handlers, PayoutStep(h)
      PROVE  IndInv'
  BY <1>2, LoadInd, VisitInd, PrepareInd, SubmitInd, RecordInd, RespondInd DEF PayoutStep
<1>3. ASSUME NEW c \in Contribs, rateFor(c) \/ QueueReward(c) \/ QueueRewardFails(c)
      PROVE  IndInv'
  BY <1>3, RateInd, QueueInd, QueueFailInd
<1> QED BY <1>1, <1>2, <1>3, SettingsInd, PhaseInd, HaltInd DEF Next

\* So it holds for ever.
LEMMA Inductive == Spec => []IndInv
BY IndInit, IndNext, PTL DEF Spec

\* Every table, counter and request keeps its type, whatever fails.
THEOREM RewardsTypeCorrect == Spec => []TypeOK
<1>1. IndInv => TypeOK
  BY DEF IndInv
<1> QED BY <1>1, Inductive, PTL

\* No reward is ever marked paid without a transfer for its id, under any overlap of
\* requests, redelivered hooks, failures and restarts: success is backed by the ledger
\* when it is recorded (Held), and rows only get younger (Known).
THEOREM PaidIsBacked == Spec => []NeverSilentlyPaid
<1>1. IndInv => NeverSilentlyPaid
  BY DEF IndInv
<1> QED BY <1>1, Inductive, PTL

\* A reward that was sent looks pending only between submitPayout and its UPDATE,
\* unless something failed, for any number of requests: a redelivered hook gives a row
\* that no transfer is of (QueueInd), and nothing else makes a row pending.
THEOREM SentIsRecorded == Spec => []SentIsSettled
<1>1. IndInv => SentIsSettled
  BY DEF IndInv
<1> QED BY <1>1, Inductive, PTL

-----------------------------------------------------------------------------
(* How often a reward can be sent: a budget.                               *)

\* The reward that a request started now would pay.
Live(r) == phase = "up" /\ rows[r.id] = r /\ status[r.id] = "pending"

\* The request h is about to settle r; or it has r before it or in hand, unsent.
Settling(h, r) == pc[h] = "record" /\ cur[h] = r
Holding(h, r) == r \in list[h] \/ (pc[h] \in {"prepare", "submit"} /\ cur[h] = r)

\* The requests that may send r once more before anything else goes wrong: those that
\* hold it and, while it is live, all but those about to settle it.
Senders(r) == {h \in Handlers : IF Live(r) THEN ~Settling(h, r) ELSE Holding(h, r)}

SentOf(r) == {u \in ledger : u.row = r}

Limit == Cardinality(Handlers)

\* While the service is not up, what the requests after a restart may send is set aside.
Prepaid == IF phase = "up" THEN 0 ELSE Limit

Owing(r) == Cardinality(SentOf(r)) + Cardinality(Senders(r)) + Prepaid

\* A request holds a reward once, and none when it is over.
Tidy ==
    /\ \A h \in Handlers : pc[h] \in Paying => cur[h] \notin list[h]
    /\ \A h \in Handlers : pc[h] = "idle" => list[h] = {}
    /\ phase = "down" => \A h \in Handlers : pc[h] = "idle"

Budget == IsFiniteSet(ledger) /\ Tidy /\ \A r \in Rows : Owing(r) <= Limit * (1 + faults)

\* A fault buys one more transfer for each request.
LEMMA Fits ==
    ASSUME NEW a \in Nat, NEW b \in Nat, NEW f \in Nat, NEW g \in Nat, NEW m \in Nat,
           a <= m * (1 + f), (g = f /\ b <= a) \/ (g = f + 1 /\ b <= a + m)
    PROVE  b <= m * (1 + g)
<1>1. m * (1 + (f + 1)) = m * (1 + f) + m
  OBVIOUS
<1>2. m * (1 + f) \in Nat
  OBVIOUS
<1>3. CASE g = f /\ b <= a
  BY <1>2, <1>3
<1>4. CASE g = f + 1 /\ b <= a + m
  <2>1. b <= m * (1 + f) + m
    BY <1>2, <1>4
  <2> QED BY <1>1, <1>4, <2>1
<1> QED BY <1>3, <1>4

\* The sizes the budget speaks of are numbers.
LEMMA Sizes ==
    ASSUME IsFiniteSet(ledger), NEW r \in Rows
    PROVE  /\ Limit \in Nat /\ Prepaid \in Nat
           /\ IsFiniteSet(Senders(r)) /\ Cardinality(Senders(r)) \in 0..Limit
           /\ IsFiniteSet(SentOf(r)) /\ Cardinality(SentOf(r)) \in Nat
           /\ Owing(r) \in Nat
<1>1. IsFiniteSet(Handlers)
  BY RewardsAssumption
<1>2. Limit \in Nat
  BY <1>1, FS_CardinalityType DEF Limit
<1>3. Senders(r) \subseteq Handlers
  BY DEF Senders
<1>4. IsFiniteSet(Senders(r)) /\ Cardinality(Senders(r)) <= Limit
  BY <1>1, <1>3, FS_Subset DEF Limit
<1>5. Cardinality(Senders(r)) \in Nat
  BY <1>4, FS_CardinalityType
<1>6. SentOf(r) \subseteq ledger
  BY DEF SentOf
<1>7. IsFiniteSet(SentOf(r))
  BY <1>6, FS_Subset
<1>8. Cardinality(SentOf(r)) \in Nat
  BY <1>7, FS_CardinalityType
<1>9. Prepaid \in Nat
  BY <1>2 DEF Prepaid
<1> QED BY <1>2, <1>4, <1>5, <1>7, <1>8, <1>9 DEF Owing

\* What a step changes of the budget when it sends nothing.
LEMMA Kept ==
    ASSUME Budget, NEW r \in Rows, ledger' = ledger, faults \in Nat,
           \/ faults' = faults /\ Senders(r)' \subseteq Senders(r) /\ Prepaid' = Prepaid
           \/ faults' = faults /\ Senders(r)' = {} /\ Prepaid' <= Prepaid
           \/ faults' = faults /\ Prepaid = Limit /\ Prepaid' = 0
           \/ faults' = faults + 1 /\ Senders(r)' \subseteq Senders(r)
           \/ faults' = faults + 1 /\ Prepaid' = Prepaid
    PROVE  Owing(r)' <= Limit * (1 + faults')
<1>1. /\ Limit \in Nat /\ Prepaid \in Nat
      /\ IsFiniteSet(Senders(r)) /\ Cardinality(Senders(r)) \in 0..Limit
      /\ Cardinality(SentOf(r)) \in Nat /\ Owing(r) \in Nat
  BY Sizes DEF Budget
<1>2. /\ Limit' = Limit /\ SentOf(r)' = SentOf(r)
      /\ Prepaid' \in 0..Limit
  BY <1>1 DEF Limit, SentOf, Prepaid
<1>3. Senders(r)' \subseteq Handlers /\ IsFiniteSet(Handlers)
  BY RewardsAssumption DEF Senders
<1>4. IsFiniteSet(Senders(r)') /\ Cardinality(Senders(r)') <= Limit
  BY <1>3, FS_Subset DEF Limit
<1>5. Cardinality(Senders(r)') \in Nat
  BY <1>4, FS_CardinalityType
<1>6. Senders(r)' \subseteq Senders(r) => Cardinality(Senders(r)') <= Cardinality(Senders(r))
  BY <1>1, FS_Subset
<1>7. Senders(r)' = {} => Cardinality(Senders(r)') = 0
  BY FS_EmptySet
<1> DEFINE s == Cardinality(SentOf(r))
           c == Cardinality(Senders(r))
           d == Cardinality(Senders(r)')
           b == s + d + Prepaid'
<1>8. Owing(r)' = b /\ Owing(r) = s + c + Prepaid
  BY <1>2 DEF Owing
<1> HIDE DEF s, c, d
<1>9. s \in Nat /\ c \in 0..Limit /\ d \in 0..Limit
  BY <1>1, <1>4, <1>5 DEF s, c, d
<1>10. /\ Senders(r)' \subseteq Senders(r) => d <= c
       /\ Senders(r)' = {} => d = 0
  BY <1>6, <1>7 DEF c, d
<1>11. \/ faults' = faults /\ b <= Owing(r)
       \/ faults' = faults + 1 /\ b <= Owing(r) + Limit
  BY <1>1, <1>2, <1>8, <1>9, <1>10 DEF Prepaid
<1>12. b \in Nat /\ faults' \in Nat
  <2>1. Prepaid' \in Nat
    BY <1>1, <1>2
  <2>2. faults' \in Nat
    BY <1>11
  <2>3. s \in Nat /\ d \in Nat
    BY <1>1, <1>9
  <2>4. s + d \in Nat
    BY <2>3
  <2>5. (s + d) + Prepaid' \in Nat
    BY <2>1, <2>4
  <2> QED BY <2>2, <2>5
<1>13. Owing(r) <= Limit * (1 + faults)
  BY DEF Budget
<1>14. b <= Limit * (1 + faults')
  BY <1>1, <1>11, <1>12, <1>13, Fits
<1> QED BY <1>8, <1>14

-----------------------------------------------------------------------------
(* Every step keeps the budget.                                            *)

\* A request holds what it may still send, and is not settling it.
LEMMA HoldersUnsettled ==
    ASSUME Tidy, NEW h \in Handlers, NEW r, Holding(h, r)
    PROVE  ~Settling(h, r)
BY DEF Tidy, Holding, Settling, Paying

\* A step that sends nothing and settles nothing: the requests that hold more than
\* before took it from the live rows.
LEMMA Patient ==
    ASSUME Budget, NEW r \in Rows, faults \in Nat,
           UNCHANGED <<ledger, rows, status>>, phase' = "up" <=> phase = "up",
           \/ faults' = faults
           \/ faults' = faults + 1,
           \A h \in Handlers : Settling(h, r) => Settling(h, r)',
           \A h \in Handlers : Holding(h, r)' => Holding(h, r) \/ Live(r)
    PROVE  Owing(r)' <= Limit * (1 + faults')
<1>1. Live(r)' = Live(r) /\ Prepaid' = Prepaid
  BY DEF Live, Prepaid, Limit
<1>2. Senders(r)' \subseteq Senders(r)
  BY <1>1 DEF Senders
<1> QED BY <1>1, <1>2, Kept

\* A step of one request that sends nothing, settles nothing and takes no snapshot.
LEMMA Waiting ==
    ASSUME IndInv, Budget, NEW h \in Handlers, NEW r \in Rows,
           UNCHANGED <<ledger, rows, status, phase>>,
           \/ faults' = faults
           \/ faults' = faults + 1,
           \A g \in Handlers \ {h} : UNCHANGED <<pc[g], list[g], cur[g]>>,
           pc[h] # "record", Holding(h, r)' => Holding(h, r)
    PROVE  Owing(r)' <= Limit * (1 + faults')
<1>1. faults \in Nat
  BY RewardsAssumption DEF IndInv, TypeOK
<1>2. \A g \in Handlers : Settling(g, r) => Settling(g, r)'
  BY DEF Settling
<1>3. \A g \in Handlers : Holding(g, r)' => Holding(g, r) \/ Live(r)
  BY DEF Holding
<1> QED BY <1>1, <1>2, <1>3, Patient

\* The parts of the budget that no reward has to do with, for a step of one request.
LEMMA TidyStep ==
    ASSUME Budget, NEW h \in Handlers,
           UNCHANGED phase, phase # "down",
           \A g \in Handlers \ {h} : UNCHANGED <<pc[g], list[g], cur[g]>>,
           pc'[h] \in Paying => cur'[h] \notin list'[h],
           pc'[h] = "idle" => list'[h] = {}
    PROVE  Tidy'
BY DEF Budget, Tidy

\* Steps outside the payout requests that leave the rewards table alone.
LEMMA QuietBudget ==
    ASSUME IndInv, Budget, UNCHANGED <<rows, status, locals, ledger>>,
           phase' = "up" <=> phase = "up", phase' = "down" => phase = "down",
           \/ faults' = faults
           \/ faults' = faults + 1
    PROVE  Budget'
<1>1. faults \in Nat
  BY RewardsAssumption DEF IndInv, TypeOK
<1>2. IsFiniteSet(ledger')
  BY DEF Budget
<1>3. Tidy'
  BY DEF Budget, Tidy, locals
<1>4. ASSUME NEW r \in Rows
      PROVE  Owing(r)' <= Limit * (1 + faults')
  <2>1. \A h \in Handlers : Settling(h, r)' = Settling(h, r) /\ Holding(h, r)' = Holding(h, r)
    BY DEF Settling, Holding, locals
  <2> QED BY <1>1, <2>1, Patient
<1>5. Limit' = Limit
  BY DEF Limit
<1> QED BY <1>2, <1>3, <1>4, <1>5 DEF Budget

\* Webhooks that read a rate or fail, wallets, rates, and the closing of the database.
LEMMA OtherBudget ==
    ASSUME IndInv, Budget,
           \/ \E c \in Contribs : rateFor(c) \/ QueueRewardFails(c)
           \/ \E u \in Users, a \in Addrs : handleWalletRegister(u, a)
           \/ \E r \in RateTables : handleRates(r)
           \/ CloseDb
    PROVE  Budget'
<1>1. UNCHANGED <<rows, status, locals, ledger>>
  BY DEF rateFor, QueueRewardFails, handleWalletRegister, handleRates, CloseDb, table, money
<1>2. (phase' = "up" <=> phase = "up") /\ (phase' = "down" => phase = "down")
  BY DEF rateFor, QueueRewardFails, handleWalletRegister, handleRates, CloseDb
<1>3. faults' = faults \/ faults' = faults + 1
  BY DEF rateFor, QueueRewardFails, handleWalletRegister, handleRates, CloseDb, Fault
<1> QED BY <1>1, <1>2, <1>3, QuietBudget

\* The signal: what the requests after a restart may send is paid for.
LEMMA StopBudget ==
    ASSUME IndInv, Budget, Stop
    PROVE  Budget'
<1>1. /\ phase = "up" /\ phase' = "closing" /\ faults' = faults + 1 /\ faults \in Nat
      /\ UNCHANGED <<rows, status, locals, ledger>>
  BY RewardsAssumption DEF Stop, Fault, IndInv, TypeOK, table, money
<1>2. IsFiniteSet(ledger') /\ Tidy' /\ Limit' = Limit
  BY <1>1 DEF Budget, Tidy, locals, Limit
<1>3. ASSUME NEW r \in Rows
      PROVE  Owing(r)' <= Limit * (1 + faults')
  <2>1. ~Live(r)' /\ \A h \in Handlers : Holding(h, r)' = Holding(h, r)
    BY <1>1 DEF Live, Holding, locals
  <2>2. \A h \in Handlers : Holding(h, r) => ~Settling(h, r)
    BY HoldersUnsettled DEF Budget
  <2>3. Senders(r)' \subseteq Senders(r)
    BY <2>1, <2>2 DEF Senders
  <2> QED BY <1>1, <2>3, Kept
<1> QED BY <1>2, <1>3 DEF Budget

\* The end of the process: no request is left.
LEMMA HaltBudget ==
    ASSUME IndInv, Budget, Exit \/ Crash
    PROVE  Budget'
<1>1. /\ phase' = "down" /\ ledger' = ledger /\ faults \in Nat
      /\ pc' = [h \in Handlers |-> "idle"] /\ list' = [h \in Handlers |-> {}]
  BY RewardsAssumption DEF Exit, Crash, Halt, IndInv, TypeOK, money
<1>2. IsFiniteSet(ledger') /\ Tidy' /\ Limit' = Limit
  BY <1>1 DEF Budget, Tidy, Paying, Limit
<1>3. ASSUME NEW r \in Rows
      PROVE  Owing(r)' <= Limit * (1 + faults')
  <2>1. Senders(r)' = {}
    BY <1>1 DEF Senders, Live, Holding
  <2>2. CASE Exit
    <3>1. faults' = faults /\ Prepaid = Limit /\ Prepaid' = Limit
      BY <1>1, <1>2, <2>2 DEF Exit, Prepaid
    <3>2. Limit \in Nat
      BY Sizes DEF Budget
    <3> QED BY <1>1, <2>1, <3>1, <3>2, Kept
  <2>3. CASE Crash
    <3>1. faults' = faults + 1
      BY <2>3 DEF Crash, Fault
    <3> QED BY <1>1, <2>1, <3>1, Kept
  <2> QED BY <2>2, <2>3
<1> QED BY <1>2, <1>3 DEF Budget

\* The restart: what was set aside is what the new requests may send.
LEMMA RestartBudget ==
    ASSUME IndInv, Budget, Restart
    PROVE  Budget'
<1>1. /\ phase = "down" /\ phase' = "up" /\ faults' = faults /\ faults \in Nat
      /\ UNCHANGED <<locals, ledger>>
  BY RewardsAssumption DEF Restart, IndInv, TypeOK, money
<1>2. IsFiniteSet(ledger') /\ Tidy' /\ Limit' = Limit
  BY <1>1 DEF Budget, Tidy, locals, Limit
<1>3. ASSUME NEW r \in Rows
      PROVE  Owing(r)' <= Limit * (1 + faults')
  <2>1. Prepaid = Limit /\ Prepaid' = 0
    BY <1>1 DEF Prepaid
  <2> QED BY <1>1, <2>1, Kept
<1> QED BY <1>2, <1>3 DEF Budget

\* A row that was never in the table was never sent, and no request holds it.
LEMMA NewRowBudget ==
    ASSUME IndInv, Budget, NEW k \in Rows, ~Known(k), phase \in {"up", "closing"},
           UNCHANGED <<phase, locals, ledger, faults>>
    PROVE  Owing(k)' <= Limit * (1 + faults')
<1>A. faults \in Nat
  BY RewardsAssumption DEF IndInv, TypeOK
<1>0. Prepaid' = Prepaid
  BY DEF Prepaid, Limit
<1>1. SentOf(k)' = {}
  BY DEF SentOf, IndInv, Held
<1>2. Cardinality(SentOf(k)') = 0
  BY <1>1, FS_EmptySet
<1>3. \A h \in Handlers : ~Holding(h, k)'
  BY DEF Holding, IndInv, Held, Paying, locals
<1>4. Limit \in Nat /\ Cardinality(Senders(k)') \in 0..Limit
  <2>1. Senders(k)' \subseteq Handlers /\ IsFiniteSet(Handlers)
    BY RewardsAssumption DEF Senders
  <2>2. IsFiniteSet(Senders(k)') /\ Cardinality(Senders(k)') <= Limit
    BY <2>1, FS_Subset DEF Limit
  <2>3. Cardinality(Senders(k)') \in Nat /\ Limit \in Nat
    BY <2>1, <2>2, FS_CardinalityType DEF Limit
  <2> QED BY <2>2, <2>3
<1>5. Cardinality(Senders(k)') + Prepaid' <= Limit
  <2>1. CASE phase = "up"
    BY <1>4, <2>1 DEF Prepaid
  <2>2. CASE phase # "up"
    <3>1. Senders(k)' = {}
      BY <1>3, <2>2 DEF Senders, Live
    <3>2. Cardinality(Senders(k)') = 0
      BY <3>1, FS_EmptySet
    <3> QED BY <1>0, <1>4, <2>2, <3>2 DEF Prepaid
  <2> QED BY <2>1, <2>2
<1>6. Prepaid' \in Nat
  BY <1>0, <1>4 DEF Prepaid
<1>7. Owing(k)' <= Limit
  BY <1>2, <1>4, <1>5, <1>6 DEF Owing
<1>8. Owing(k)' \in Nat
  BY <1>2, <1>4, <1>6 DEF Owing
<1>9. Limit <= Limit * (1 + faults)
  <2>1. Limit * (1 + faults) = Limit + Limit * faults /\ Limit * faults \in Nat
    BY <1>A, <1>4
  <2> QED BY <1>4, <2>1
<1>10. Limit * (1 + faults) \in Nat
  BY <1>A, <1>4
<1> QED BY <1>4, <1>7, <1>8, <1>9, <1>10

\* A new row was never sent, and no request holds it; the row it replaces is not live
\* any more.
LEMMA QueueBudget ==
    ASSUME IndInv, Budget, NEW c \in Contribs, QueueReward(c)
    PROVE  Budget'
<1> DEFINE new == [id |-> RewardId(c), user |-> c.user, amount |-> hook[c], born |-> queued + 1]
<1>1. /\ new \in Rows /\ new.id = RewardId(c) /\ new.born = queued + 1
      /\ RewardId(c) \in Ids /\ queued \in Nat /\ faults \in Nat
  BY NewRow, RewardsAssumption DEF IndInv, TypeOK, QueueReward, Ids
<1>2. /\ rows' = [rows EXCEPT ![RewardId(c)] = new]
      /\ status' = [status EXCEPT ![RewardId(c)] = "pending"]
      /\ phase \in {"up", "closing"} /\ UNCHANGED <<phase, locals, ledger, faults>>
  BY DEF QueueReward, DbOpen, money
<1> HIDE DEF new
<1>0. PICK k \in Rows : k = new
  BY <1>1
<1>3. IsFiniteSet(ledger') /\ Tidy' /\ Limit' = Limit /\ Prepaid' = Prepaid
  BY <1>2 DEF Budget, Tidy, locals, Limit, Prepaid
<1>4. ~Known(k)
  <2>1. rows[RewardId(c)] # NoRow => rows[RewardId(c)].born \in Nat /\ rows[RewardId(c)].born <= queued
    BY <1>1, RowFields DEF IndInv, TypeOK, Table
  <2> QED BY <1>0, <1>1, <2>1 DEF Known
<1>5. ASSUME NEW r \in Rows, r # k
      PROVE  Owing(r)' <= Limit * (1 + faults')
  <2>1. \A h \in Handlers : Holding(h, r)' = Holding(h, r) /\ Settling(h, r)' = Settling(h, r)
    BY <1>2 DEF Holding, Settling, locals
  <2>2. Live(r)' => Live(r)
    <3>1. r.id \in Ids
      BY RowFields
    <3> QED BY <1>0, <1>1, <1>2, <1>5, <3>1 DEF Live, IndInv, TypeOK
  <2>3. \A h \in Handlers : Holding(h, r) => ~Settling(h, r)
    BY HoldersUnsettled DEF Budget
  <2>4. Senders(r)' \subseteq Senders(r)
    BY <2>1, <2>2, <2>3 DEF Senders
  <2> QED BY <1>1, <1>2, <1>3, <2>4, Kept
<1>6. Owing(k)' <= Limit * (1 + faults')
  BY <1>2, <1>4, NewRowBudget
<1>7. \A r \in Rows : Owing(r)' <= Limit * (1 + faults')
  BY <1>5, <1>6
<1> QED BY <1>3, <1>7 DEF Budget

\* The snapshot holds live rows only, and what is live every request may send already.
LEMMA LoadBudget ==
    ASSUME IndInv, Budget, NEW h \in Handlers, loadPendingRewards(h)
    PROVE  Budget'
<1> DEFINE snap == {rows[id] : id \in {i \in Ids : status[i] = "pending"}}
<1>1. /\ list' = [list EXCEPT ![h] = snap] /\ pc[h] = "idle" /\ pc' = [pc EXCEPT ![h] = "loop"]
      /\ phase = "up" /\ faults \in Nat
      /\ UNCHANGED <<phase, rows, status, cur, ledger, faults>>
  BY RewardsAssumption DEF loadPendingRewards, table, money, IndInv, TypeOK
<1>2. \A r \in snap : Live(r)
  BY <1>1 DEF Live, IndInv, TypeOK, Table
<1> HIDE DEF snap
<1>3. /\ \A g \in Handlers \ {h} : UNCHANGED <<pc[g], list[g], cur[g]>>
      /\ pc'[h] = "loop" /\ list'[h] = snap
  BY <1>1 DEF IndInv, TypeOK
<1>4. Tidy'
  BY <1>1, <1>3, TidyStep DEF Paying
<1>5. ASSUME NEW r \in Rows
      PROVE  Owing(r)' <= Limit * (1 + faults')
  <2>1. \A g \in Handlers : Settling(g, r) => Settling(g, r)'
    BY <1>1, <1>3 DEF Settling
  <2>2. \A g \in Handlers : Holding(g, r)' => Holding(g, r) \/ Live(r)
    BY <1>2, <1>3 DEF Holding
  <2> QED BY <1>1, <2>1, <2>2, Patient
<1>6. IsFiniteSet(ledger') /\ Limit' = Limit
  BY <1>1 DEF Budget, Limit
<1> QED BY <1>4, <1>5, <1>6 DEF Budget

\* Between the snapshot and the transfer a request takes nothing on: the reward it
\* comes to leaves its list.
LEMMA WaitBudget ==
    ASSUME IndInv, Budget, NEW h \in Handlers,
           \/ \E r \in list[h] : Skip(h, r) \/ loadWallet(h, r)
           \/ Prepare(h) \/ Respond(h)
    PROVE  Budget'
<1>1. /\ UNCHANGED <<phase, rows, status, ledger>> /\ phase # "down" /\ pc[h] # "record"
      /\ \/ faults' = faults
         \/ faults' = faults + 1
  BY DEF Skip, loadWallet, Visit, Prepare, Respond, Serving, Fault, table, money
<1>2. \A g \in Handlers \ {h} : UNCHANGED <<pc[g], list[g], cur[g]>>
  BY DEF Skip, loadWallet, Visit, Prepare, Respond, IndInv, TypeOK
<1>3. /\ pc'[h] \in Paying => cur'[h] \notin list'[h]
      /\ pc'[h] = "idle" => list'[h] = {}
      /\ \A r \in Rows : Holding(h, r)' => Holding(h, r)
  <2>1. CASE \E r \in list[h] : Skip(h, r)
    BY <2>1 DEF Skip, Visit, Holding, Paying, IndInv, TypeOK
  <2>2. CASE \E r \in list[h] : loadWallet(h, r)
    BY <2>2 DEF loadWallet, Visit, Holding, Paying, IndInv, TypeOK
  <2>3. CASE Prepare(h)
    BY <2>3 DEF Prepare, Holding, Paying, Budget, Tidy, IndInv, TypeOK
  <2>4. CASE Respond(h)
    BY <2>4 DEF Respond, Holding, Paying, IndInv, TypeOK
  <2> QED BY <2>1, <2>2, <2>3, <2>4
<1>4. Tidy'
  BY <1>1, <1>2, <1>3, TidyStep
<1>5. \A r \in Rows : Owing(r)' <= Limit * (1 + faults')
  BY <1>1, <1>2, <1>3, Waiting
<1>6. IsFiniteSet(ledger') /\ Limit' = Limit
  BY <1>1 DEF Budget, Limit
<1> QED BY <1>4, <1>5, <1>6 DEF Budget

\* The transfer: the request that makes it was one of those that may, and is not any
\* more.
LEMMA SubmitBudget ==
    ASSUME IndInv, Budget, NEW h \in Handlers, Submit(h)
    PROVE  Budget'
<1>1. /\ pc[h] = "submit" /\ pc' = [pc EXCEPT ![h] = "record"] /\ phase # "down"
      /\ UNCHANGED <<phase, rows, status, list, cur>>
  BY DEF Submit, Submitted, Serving, table
<1>2. /\ pc'[h] = "record" /\ \A g \in Handlers \ {h} : pc'[g] = pc[g]
      /\ faults \in Nat /\ cur[h] \in Rows
  BY <1>1, RewardsAssumption DEF IndInv, TypeOK, Held, Paying
<1>3. Tidy'
  BY <1>1, <1>2, TidyStep DEF Budget, Tidy, Paying
<1>4. faults' = faults \/ faults' = faults + 1
  BY Zenon DEF Submit, Fault
<1>5. Limit' = Limit
  BY DEF Limit
<1>6. \A r \in Rows : Holding(h, r)' => Holding(h, r)
  BY <1>1, <1>2 DEF Holding
<1>7. CASE ledger' = ledger
  <2>1. \A r \in Rows : Owing(r)' <= Limit * (1 + faults')
    BY <1>1, <1>2, <1>4, <1>6, <1>7, Waiting
  <2> QED BY <1>3, <1>5, <1>7, <2>1 DEF Budget
<1>8. CASE \E t : ledger' = ledger \cup {t} /\ t.row = cur[h]
  <2>1. PICK t : ledger' = ledger \cup {t} /\ t.row = cur[h]
    BY <1>8
  <2>2. IsFiniteSet(ledger')
    BY <2>1, FS_AddElement DEF Budget
  <2>3. ASSUME NEW r \in Rows
        PROVE  Owing(r)' <= Limit * (1 + faults')
    <3>1. Live(r)' = Live(r) /\ Prepaid' = Prepaid
      BY <1>1 DEF Live, Prepaid, Limit
    <3>2. /\ \A g \in Handlers \ {h} : Settling(g, r)' = Settling(g, r) /\ Holding(g, r)' = Holding(g, r)
          /\ ~Settling(h, r)
      BY <1>1, <1>2 DEF Settling, Holding
    <3>3. Senders(r)' \subseteq Senders(r)
      BY <1>6, <3>1, <3>2 DEF Senders
    <3>4. /\ Limit \in Nat /\ Prepaid \in Nat
          /\ IsFiniteSet(Senders(r)) /\ Cardinality(Senders(r)) \in Nat
          /\ IsFiniteSet(SentOf(r)) /\ Cardinality(SentOf(r)) \in Nat
          /\ Owing(r) \in Nat
      BY Sizes DEF Budget
    <3>5. /\ IsFiniteSet(Senders(r)') /\ Cardinality(Senders(r)') \in Nat
          /\ Cardinality(Senders(r)') <= Cardinality(Senders(r))
      <4>1. IsFiniteSet(Senders(r)') /\ Cardinality(Senders(r)') <= Cardinality(Senders(r))
        BY <3>3, <3>4, FS_Subset
      <4> QED BY <4>1, FS_CardinalityType
    <3>6. /\ Cardinality(SentOf(r)') \in Nat
          /\ Cardinality(SentOf(r)') + Cardinality(Senders(r)')
                <= Cardinality(SentOf(r)) + Cardinality(Senders(r))
      <4>1. CASE r # cur[h]
        <5>1. SentOf(r)' = SentOf(r)
          BY <2>1, <4>1 DEF SentOf
        <5> QED BY <3>4, <3>5, <5>1
      <4>2. CASE r = cur[h]
        <5>1. SentOf(r)' \subseteq SentOf(r) \cup {t}
          BY <2>1 DEF SentOf
        <5>2. /\ IsFiniteSet(SentOf(r) \cup {t})
              /\ Cardinality(SentOf(r) \cup {t}) = Cardinality(SentOf(r))
                  \/ Cardinality(SentOf(r) \cup {t}) = Cardinality(SentOf(r)) + 1
          BY <3>4, FS_AddElement
        <5>3. IsFiniteSet(SentOf(r)') /\ Cardinality(SentOf(r)') <= Cardinality(SentOf(r) \cup {t})
          BY <5>1, <5>2, FS_Subset
        <5>4. Cardinality(SentOf(r)') \in Nat
          BY <5>3, FS_CardinalityType
        <5>5. h \in Senders(r) /\ h \notin Senders(r)'
          <6>1. Holding(h, r) /\ Settling(h, r)'
            BY <1>1, <1>2, <4>2 DEF Holding, Settling
          <6>2. ~Holding(h, r)'
            BY <1>1, <1>2, <4>2 DEF Holding, Budget, Tidy, Paying
          <6> QED BY <3>2, <6>1, <6>2 DEF Senders
        <5>6. Cardinality(Senders(r)') # Cardinality(Senders(r))
          BY <3>3, <3>4, <5>5, FS_Subset
        <5> QED BY <3>4, <3>5, <5>2, <5>3, <5>4, <5>6
      <4> QED BY <4>1, <4>2
    <3>7. Owing(r)' \in Nat /\ Owing(r)' <= Owing(r)
      BY <3>1, <3>4, <3>5, <3>6 DEF Owing
    <3>8. Owing(r) <= Limit * (1 + faults) /\ faults' \in Nat
      BY <1>2, <1>4 DEF Budget
    <3>9. Owing(r)' <= Owing(r) + Limit
      BY <3>4, <3>7
    <3> QED BY <1>2, <1>4, <3>4, <3>7, <3>8, <3>9, Fits
  <2> QED BY <1>3, <1>5, <2>2, <2>3 DEF Budget
<1>9. \/ ledger' = ledger
      \/ \E t : ledger' = ledger \cup {t} /\ t.row = cur[h]
  <2>1. ledger' = ledger \/ Transfer(h)
    BY DEF Submit, money
  <2>2. ASSUME Transfer(h)
        PROVE  \E t : ledger' = ledger \cup {t} /\ t.row = cur[h]
    <3> DEFINE t == [row |-> cur[h], to |-> dest[h], n |-> chain]
    <3>1. ledger' = ledger \cup {t} /\ t.row = cur[h]
      BY <2>2 DEF Transfer
    <3> QED BY <3>1
  <2> QED BY <2>1, <2>2
<1> QED BY <1>7, <1>8, <1>9

\* The UPDATE: the row is settled and nothing but the snapshots taken before sends it
\* again; or the failure pays for what the request may send once more.
LEMMA RecordBudget ==
    ASSUME IndInv, Budget, NEW h \in Handlers, Record(h)
    PROVE  Budget'
<1>1. /\ pc[h] = "record" /\ pc' = [pc EXCEPT ![h] = "loop"] /\ cur' = [cur EXCEPT ![h] = NoRow]
      /\ phase # "down" /\ UNCHANGED <<phase, rows, list, ledger>>
  BY DEF Record, Serving, money
<1>2. /\ pc'[h] = "loop" /\ \A g \in Handlers \ {h} : UNCHANGED <<pc[g], list[g], cur[g]>>
      /\ faults \in Nat /\ cur[h] \in Rows /\ cur[h].id \in Ids
  BY <1>1, RowFields, RewardsAssumption DEF IndInv, TypeOK, Held, Paying
<1>3. Tidy'
  BY <1>1, <1>2, TidyStep DEF Paying
<1>4. /\ \/ status' = [status EXCEPT ![cur[h].id] = Outcome(h)] /\ faults' = faults
         \/ status' = status /\ faults' = faults + 1
         \/ status' = status /\ faults' = faults /\ phase = "closed"
  BY DEF Record, Fault
<1>5. ASSUME NEW r \in Rows
      PROVE  Owing(r)' <= Limit * (1 + faults')
  <2>1. Prepaid' = Prepaid
    BY <1>1 DEF Prepaid, Limit
  <2>2. \A g \in Handlers : Holding(g, r)' => Holding(g, r) /\ ~Settling(g, r)
    <3>1. \A g \in Handlers : Holding(g, r)' => Holding(g, r)
      BY <1>1, <1>2 DEF Holding
    <3> QED BY <3>1, HoldersUnsettled DEF Budget
  <2>3. CASE status' = status /\ faults' = faults + 1
    BY <1>1, <1>2, <2>1, <2>3, Kept
  <2>4. CASE status' = [status EXCEPT ![cur[h].id] = Outcome(h)] /\ faults' = faults
    <3>1. r.id \in Ids
      BY RowFields
    <3>2. Live(r)' => Live(r) /\ r.id # cur[h].id
      BY <1>1, <1>2, <2>4, <3>1 DEF Live, Outcome, IndInv, TypeOK
    <3>3. \A g \in Handlers : Live(r)' /\ Settling(g, r) => Settling(g, r)'
      BY <1>2, <3>2 DEF Settling
    <3>4. Senders(r)' \subseteq Senders(r)
      BY <2>2, <3>2, <3>3 DEF Senders
    <3> QED BY <1>1, <1>2, <2>1, <2>4, <3>4, Kept
  <2>5. CASE status' = status /\ faults' = faults /\ phase = "closed"
    <3>1. ~Live(r) /\ ~Live(r)'
      BY <1>1, <2>5 DEF Live
    <3>2. Senders(r)' \subseteq Senders(r)
      BY <2>2, <3>1 DEF Senders
    <3> QED BY <1>1, <1>2, <2>1, <2>5, <3>2, Kept
  <2> QED BY <1>4, <2>3, <2>4, <2>5
<1>6. IsFiniteSet(ledger') /\ Limit' = Limit
  BY <1>1 DEF Budget, Limit
<1> QED BY <1>3, <1>5, <1>6 DEF Budget

\* At the start nothing was sent, and each request may send a reward once.
LEMMA BudgetInit == Init => Budget
<1> SUFFICES ASSUME Init PROVE Budget
  OBVIOUS
<1>1. IsFiniteSet(ledger) /\ Tidy
  BY FS_EmptySet DEF Init, Tidy, Paying
<1>2. ASSUME NEW r \in Rows
      PROVE  Owing(r) <= Limit * (1 + faults)
  <2>1. SentOf(r) = {}
    BY DEF Init, SentOf
  <2>2. Cardinality(SentOf(r)) = 0
    BY <2>1, FS_EmptySet
  <2>3. Prepaid = 0 /\ faults = 0
    BY DEF Init, Prepaid
  <2>4. Limit \in Nat /\ Cardinality(Senders(r)) \in 0..Limit
    BY <1>1, Sizes
  <2> QED BY <2>2, <2>3, <2>4 DEF Owing
<1> QED BY <1>1, <1>2 DEF Budget

\* Every step keeps the budget.
LEMMA BudgetNext == IndInv /\ Budget /\ [Next]_vars => Budget'
<1> SUFFICES ASSUME IndInv, Budget, [Next]_vars PROVE Budget'
  OBVIOUS
<1>1. CASE UNCHANGED vars
  BY <1>1, QuietBudget DEF vars, table, money
<1>2. ASSUME NEW h \in Handlers, PayoutStep(h)
      PROVE  Budget'
  BY <1>2, LoadBudget, WaitBudget, SubmitBudget, RecordBudget DEF PayoutStep
<1>3. ASSUME NEW c \in Contribs, rateFor(c) \/ QueueReward(c) \/ QueueRewardFails(c)
      PROVE  Budget'
  BY <1>3, OtherBudget, QueueBudget
<1> QED BY <1>1, <1>2, <1>3, OtherBudget, StopBudget, HaltBudget, RestartBudget DEF Next

\* One row is sent at most once per request that can run at the same time, and as often
\* again per failure: a budget that every transfer spends from and every failure fills.
\* The requests that may still send a row are counted with the transfers made; while the
\* service is down, those of the next start are.
THEOREM RepayIsBounded == Spec => []BoundedRepay
<1>1. IndInv /\ Budget => BoundedRepay
  <2> SUFFICES ASSUME IndInv, Budget, NEW t \in ledger
               PROVE  Cardinality(SentOf(t.row)) <= Limit * (1 + faults)
    BY DEF BoundedRepay, SentOf, Limit
  <2>1. t.row \in Rows
    BY DEF IndInv, TypeOK, Transfers
  <2>2. Owing(t.row) <= Limit * (1 + faults)
    BY <2>1 DEF Budget
  <2>3. /\ Limit \in Nat /\ Prepaid \in Nat /\ Cardinality(Senders(t.row)) \in 0..Limit
        /\ Cardinality(SentOf(t.row)) \in Nat
    BY <2>1, Sizes DEF Budget
  <2>4. Cardinality(SentOf(t.row)) <= Owing(t.row)
    BY <2>3 DEF Owing
  <2>5. Limit * (1 + faults) \in Nat /\ Owing(t.row) \in Nat
    BY <2>3, RewardsAssumption DEF Owing, IndInv, TypeOK
  <2> QED BY <2>2, <2>3, <2>4, <2>5
<1> QED BY <1>1, BudgetInit, BudgetNext, Inductive, PTL DEF Spec
=============================================================================
