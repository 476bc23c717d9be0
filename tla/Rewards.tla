------------------------------ MODULE Rewards -------------------------------
(***************************************************************************)
(* The BAT rewards service, rewards/: GitLab webhooks queue a reward per   *)
(* contribution in SQLite, contributors register wallets, an operator      *)
(* triggers payouts, and each payout request walks a snapshot of the table *)
(* and sends money through Uphold or straight to an Ethereum node.         *)
(*                                                                         *)
(* Every handler runs in its own goroutine.  A step is one statement on the*)
(* database (there is a single connection, so statements are atomic), one  *)
(* read or write of s.rates, or one call of the payment provider.          *)
(*                                                                         *)
(* Amounts are natural numbers of an arbitrary unit.  A row's queued_at is *)
(* its number in the order of insertion: rows come back oldest first.      *)
(***************************************************************************)
EXTENDS Integers, FiniteSets

CONSTANTS
    Contribs,       \* contributions: [type, project, object, user] records
    Addrs,          \* wallet addresses
    NoAddr,         \* "no wallet registered"
    RateTables,     \* what PUT /rewards/rates may set: amounts by type
    DefaultRates,   \* DefaultRewardRates()
    NoRates,        \* "no rates saved"
    MinPayout,      \* Config.MinPayoutBAT
    Methods,        \* the payout methods a deployment may have configured
    Handlers,       \* bound: payout requests served at the same time
    NoRow,          \* "no row"
    MaxQueued,      \* bound: rows ever inserted
    FaultKinds,     \* what may go wrong
    MaxFaults       \* bound: how often something goes wrong

Types == {c.type : c \in Contribs}
Users == {c.user : c \in Contribs}

\* The webhook handler never fills in ProjectID, so it is 0 in every id.
RewardId(c) == <<c.type, 0, c.object>>

Ids == {RewardId(c) : c \in Contribs}
Amounts == UNION {{r[t] : t \in Types} : r \in RateTables \cup {DefaultRates}}
Rows == [id : Ids, user : Users, amount : Amounts, born : 1..MaxQueued]
Transfers == [row : Rows, to : Addrs, n : Nat]

AllMethods == {"uphold", "erc20", "none"}
AllFaults == {"insert", "update", "rates", "token", "refused", "lost", "stop", "crash"}

ASSUME RewardsAssumption ==
    /\ IsFiniteSet(Contribs) /\ IsFiniteSet(Handlers)
    /\ RateTables \cup {DefaultRates} \subseteq [Types -> Nat]
    /\ NoAddr \notin Addrs /\ NoRates \notin RateTables /\ NoRow \notin Rows
    /\ MinPayout \in Nat /\ MaxQueued \in Nat /\ MaxFaults \in Nat
    /\ Methods \subseteq AllMethods /\ FaultKinds \subseteq AllFaults

VARIABLES
    phase,      \* "up", "closing" (server.Shutdown), "closed" (db.Close done), "down"
    method,     \* which credentials are configured; never changes
    rates,      \* Service.rates
    saved,      \* the row reward_rates of the settings table
    wallets,    \* the wallets table
    rows,       \* the rewards table, by id, without the status
    status,     \* the status column
    queued,     \* how many rows were ever inserted
    hook,       \* webhook handlers between rateFor and the INSERT: the amount read
    pc,         \* where each payout handler is
    list,       \* its snapshot of pending rewards not handled yet
    total,      \* its totalBAT
    cur,        \* the reward it is paying
    dest,       \* the wallet it read for it
    nonce,      \* the nonce it was given
    ok,         \* whether submitPayout returned without error
    ledger,     \* external: the transfers that took effect
    chain,      \* external: how many there were, the account's next nonce
    faults      \* how often something went wrong

table == <<wallets, rows, status, queued>>
locals == <<pc, list, total, cur, dest, nonce, ok>>
money == <<ledger, chain>>
vars == <<phase, method, rates, saved, table, hook, locals, money, faults>>

TypeOK ==
    /\ phase \in {"up", "closing", "closed", "down"}
    /\ method \in Methods
    /\ rates \in RateTables \cup {DefaultRates}
    /\ saved \in RateTables \cup {NoRates}
    /\ wallets \in [Users -> Addrs \cup {NoAddr}]
    /\ rows \in [Ids -> Rows \cup {NoRow}]
    /\ status \in [Ids -> {"none", "pending", "paid", "failed"}]
    /\ queued \in 0..MaxQueued
    /\ hook \in [Contribs -> Amounts \cup {-1}]
    /\ pc \in [Handlers -> {"idle", "loop", "prepare", "submit", "record"}]
    /\ list \in [Handlers -> SUBSET Rows]
    /\ total \in [Handlers -> Nat]
    /\ cur \in [Handlers -> Rows \cup {NoRow}]
    /\ dest \in [Handlers -> Addrs \cup {NoAddr}]
    /\ nonce \in [Handlers -> Nat]
    /\ ok \in [Handlers -> BOOLEAN]
    /\ ledger \in SUBSET Transfers
    /\ chain \in Nat
    /\ faults \in 0..MaxFaults

Serving == phase \in {"up", "closing", "closed"}
DbOpen == phase \in {"up", "closing"}

Fault(kind) ==
    /\ kind \in FaultKinds
    /\ faults < MaxFaults
    /\ faults' = faults + 1

-----------------------------------------------------------------------------
(* Webhooks, wallets and rates.                                            *)

\* rateFor, called before QueueReward takes the lock.  GitLab posts the same hook
\* again when it got no answer, and for every later update of a merged request.
rateFor(c) ==
    /\ phase = "up" /\ hook[c] = -1 /\ queued < MaxQueued
    /\ hook' = [hook EXCEPT ![c] = rates[c.type]]
    /\ UNCHANGED <<phase, method, rates, saved, table, locals, money, faults>>

\* INSERT OR REPLACE: whatever row had this id is gone, the new one is pending.
QueueReward(c) ==
    /\ DbOpen /\ hook[c] # -1 /\ queued < MaxQueued
    /\ rows' = [rows EXCEPT ![RewardId(c)] =
                  [id |-> RewardId(c), user |-> c.user, amount |-> hook[c], born |-> queued + 1]]
    /\ status' = [status EXCEPT ![RewardId(c)] = "pending"]
    /\ queued' = queued + 1
    /\ hook' = [hook EXCEPT ![c] = -1]
    /\ UNCHANGED <<phase, method, rates, saved, wallets, locals, money, faults>>

\* The statement fails: GitLab is told with a 500.
QueueRewardFails(c) ==
    /\ Serving /\ hook[c] # -1
    /\ \/ Fault("insert")
       \/ phase = "closed" /\ UNCHANGED faults
    /\ hook' = [hook EXCEPT ![c] = -1]
    /\ UNCHANGED <<phase, method, rates, saved, table, locals, money>>

handleWalletRegister(u, a) ==
    /\ phase = "up" /\ wallets[u] # a
    /\ wallets' = [wallets EXCEPT ![u] = a]
    /\ UNCHANGED <<phase, method, rates, saved, rows, status, queued, hook, locals, money, faults>>

\* A PUT sets the rates in memory whether or not they could be saved.
handleRates(r) ==
    /\ phase = "up" /\ rates # r
    /\ rates' = r
    /\ \/ saved' = r /\ UNCHANGED faults
       \/ Fault("rates") /\ UNCHANGED saved
    /\ UNCHANGED <<phase, method, table, hook, locals, money>>

-----------------------------------------------------------------------------
(* Payout requests.                                                        *)

\* Mutant of loadPendingRewards: the handler does not look at the status.
loadAllRewards(h) ==
    /\ phase = "up" /\ pc[h] = "idle"
    /\ list' = [list EXCEPT ![h] = {rows[id] : id \in {i \in Ids : status[i] # "none"}}]
    /\ total' = [total EXCEPT ![h] = 0]
    /\ pc' = [pc EXCEPT ![h] = "loop"]
    /\ UNCHANGED <<phase, method, rates, saved, table, hook, cur, dest, nonce, ok, money, faults>>

\* loadPendingRewards reads the whole table; what is not pending is skipped.
loadPendingRewards(h) ==
    /\ phase = "up" /\ pc[h] = "idle"
    /\ list' = [list EXCEPT ![h] = {rows[id] : id \in {i \in Ids : status[i] = "pending"}}]
    /\ total' = [total EXCEPT ![h] = 0]
    /\ pc' = [pc EXCEPT ![h] = "loop"]
    /\ UNCHANGED <<phase, method, rates, saved, table, hook, cur, dest, nonce, ok, money, faults>>

\* The running total decides, of this reward and all older ones of the snapshot.
Reached(t) == t >= MinPayout

\* The lookup fails on a closed database; either way the reward is skipped.
HasWallet(u) == DbOpen /\ wallets[u] # NoAddr

\* The loop comes to the oldest reward left and adds it to the total.
Visit(h, r) ==
    /\ Serving /\ pc[h] = "loop"
    /\ r \in list[h] /\ \A s \in list[h] : r.born <= s.born
    /\ list' = [list EXCEPT ![h] = @ \ {r}]
    /\ total' = [total EXCEPT ![h] = @ + r.amount]

Skip(h, r) ==
    /\ Visit(h, r)
    /\ ~(Reached(total'[h]) /\ HasWallet(r.user))
    /\ UNCHANGED <<phase, method, rates, saved, table, hook, pc, cur, dest, nonce, ok, money, faults>>

loadWallet(h, r) ==
    /\ Visit(h, r)
    /\ Reached(total'[h]) /\ HasWallet(r.user)
    /\ cur' = [cur EXCEPT ![h] = r]
    /\ dest' = [dest EXCEPT ![h] = wallets[r.user]]
    /\ pc' = [pc EXCEPT ![h] = "prepare"]
    /\ UNCHANGED <<phase, method, rates, saved, table, hook, nonce, ok, money, faults>>

\* submitPayout up to the transfer: no method at all is an error; Uphold wants a
\* token; the Ethereum path reads the account's pending nonce.
Prepare(h) ==
    /\ Serving /\ pc[h] = "prepare"
    /\ \/ /\ method # "none"
          /\ pc' = [pc EXCEPT ![h] = "submit"]
          /\ nonce' = [nonce EXCEPT ![h] = IF method = "erc20" THEN chain ELSE 0]
          /\ UNCHANGED <<ok, faults>>
       \/ /\ IF method = "none" THEN UNCHANGED faults ELSE Fault("token")
          /\ pc' = [pc EXCEPT ![h] = "record"]
          /\ ok' = [ok EXCEPT ![h] = FALSE]
          /\ UNCHANGED nonce
    /\ UNCHANGED <<phase, method, rates, saved, table, hook, list, total, cur, dest, money>>

\* External: the node takes one transaction per nonce.
Accepts(h) == method = "erc20" => nonce[h] = chain

Transfer(h) ==
    /\ ledger' = ledger \cup {[row |-> cur[h], to |-> dest[h], n |-> chain]}
    /\ chain' = chain + 1

\* Mutant of Submitted: the reward is taken for paid without being recorded.
SubmittedOnly(h, res) ==
    /\ pc' = [pc EXCEPT ![h] = IF res THEN "loop" ELSE "record"]
    /\ ok' = [ok EXCEPT ![h] = res]

Submitted(h, res) ==
    /\ pc' = [pc EXCEPT ![h] = "record"]
    /\ ok' = [ok EXCEPT ![h] = res]

\* The transfer is done and reported; done and the reply lost; or not done.
Submit(h) ==
    /\ Serving /\ pc[h] = "submit"
    /\ \/ Accepts(h) /\ Transfer(h) /\ Submitted(h, TRUE) /\ UNCHANGED faults
       \/ Accepts(h) /\ Transfer(h) /\ Submitted(h, FALSE) /\ Fault("lost")
       \/ Accepts(h) /\ UNCHANGED money /\ Submitted(h, FALSE) /\ Fault("refused")
       \/ ~Accepts(h) /\ UNCHANGED <<money, faults>> /\ Submitted(h, FALSE)
    /\ UNCHANGED <<phase, method, rates, saved, table, hook, list, total, cur, dest, nonce>>

\* Mutant of Outcome: the error of submitPayout is not looked at.
OutcomePaid(h) == "paid"

Outcome(h) == IF ok[h] THEN "paid" ELSE "failed"

\* UPDATE ... WHERE id: it hits the row that has the id now.  Its error is ignored,
\* a closed database included.
Record(h) ==
    /\ Serving /\ pc[h] = "record"
    /\ \/ DbOpen /\ status' = [status EXCEPT ![cur[h].id] = Outcome(h)] /\ UNCHANGED faults
       \/ Fault("update") /\ UNCHANGED status
       \/ phase = "closed" /\ UNCHANGED <<status, faults>>
    /\ pc' = [pc EXCEPT ![h] = "loop"]
    /\ cur' = [cur EXCEPT ![h] = NoRow]
    /\ dest' = [dest EXCEPT ![h] = NoAddr]
    /\ nonce' = [nonce EXCEPT ![h] = 0]
    /\ ok' = [ok EXCEPT ![h] = FALSE]
    /\ UNCHANGED <<phase, method, rates, saved, wallets, rows, queued, hook, list, total, money>>

Respond(h) ==
    /\ Serving /\ pc[h] = "loop" /\ list[h] = {}
    /\ pc' = [pc EXCEPT ![h] = "idle"]
    /\ total' = [total EXCEPT ![h] = 0]
    /\ UNCHANGED <<phase, method, rates, saved, table, hook, list, cur, dest, nonce, ok, money, faults>>

-----------------------------------------------------------------------------
(* Shutdown, crash and restart.                                            *)

\* ctx is cancelled: server.Shutdown lets no new request in.
Stop ==
    /\ phase = "up" /\ Fault("stop")
    /\ phase' = "closing"
    /\ UNCHANGED <<method, rates, saved, table, hook, locals, money>>

\* Shutdown returns when all is idle or after 5 s; the database is closed either way.
CloseDb ==
    /\ phase = "closing"
    /\ phase' = "closed"
    /\ UNCHANGED <<method, rates, saved, table, hook, locals, money, faults>>

\* The process ends and its memory with it.
Halt ==
    /\ phase' = "down"
    /\ rates' = DefaultRates
    /\ hook' = [c \in Contribs |-> -1]
    /\ pc' = [h \in Handlers |-> "idle"]
    /\ list' = [h \in Handlers |-> {}]
    /\ total' = [h \in Handlers |-> 0]
    /\ cur' = [h \in Handlers |-> NoRow]
    /\ dest' = [h \in Handlers |-> NoAddr]
    /\ nonce' = [h \in Handlers |-> 0]
    /\ ok' = [h \in Handlers |-> FALSE]
    /\ UNCHANGED <<method, saved, table, money>>

Exit == phase = "closed" /\ Halt /\ UNCHANGED faults

Crash == Serving /\ Fault("crash") /\ Halt

\* Mutant of loadRates: no fallback to the defaults.
loadRatesRaw == saved

loadRates == IF saved = NoRates THEN DefaultRates ELSE saved

\* New: the tables are as they were, the rates are read back.
Restart ==
    /\ phase = "down"
    /\ phase' = "up"
    /\ rates' = loadRates
    /\ UNCHANGED <<method, saved, table, hook, locals, money, faults>>

-----------------------------------------------------------------------------
Init ==
    /\ phase = "up"
    /\ method \in Methods
    /\ rates = DefaultRates
    /\ saved = NoRates
    /\ wallets = [u \in Users |-> NoAddr]
    /\ rows = [id \in Ids |-> NoRow]
    /\ status = [id \in Ids |-> "none"]
    /\ queued = 0
    /\ hook = [c \in Contribs |-> -1]
    /\ pc = [h \in Handlers |-> "idle"]
    /\ list = [h \in Handlers |-> {}]
    /\ total = [h \in Handlers |-> 0]
    /\ cur = [h \in Handlers |-> NoRow]
    /\ dest = [h \in Handlers |-> NoAddr]
    /\ nonce = [h \in Handlers |-> 0]
    /\ ok = [h \in Handlers |-> FALSE]
    /\ ledger = {}
    /\ chain = 0
    /\ faults = 0

PayoutStep(h) ==
    \/ loadPendingRewards(h)
    \/ \E r \in list[h] : Skip(h, r) \/ loadWallet(h, r)
    \/ Prepare(h) \/ Submit(h) \/ Record(h) \/ Respond(h)

Next ==
    \/ \E c \in Contribs : rateFor(c) \/ QueueReward(c) \/ QueueRewardFails(c)
    \/ \E u \in Users, a \in Addrs : handleWalletRegister(u, a)
    \/ \E r \in RateTables : handleRates(r)
    \/ \E h \in Handlers : PayoutStep(h)
    \/ Stop \/ CloseDb \/ Exit \/ Crash \/ Restart

Spec == Init /\ [][Next]_vars

-----------------------------------------------------------------------------
(* Properties.                                                             *)

\* handlePayout never marks a reward as paid without sending money: a paid row has
\* a transfer for its id, of this row or of the one it replaced ("rather than
\* silently marking rewards as paid").
NeverSilentlyPaid ==
    \A id \in Ids : status[id] = "paid" =>
        \E t \in ledger : t.row.id = id /\ t.row.born <= rows[id].born

\* The window in which a reward that was sent still looks pending, so that the next
\* request sends it again, lasts from submitPayout to the UPDATE that follows it and
\* no longer, unless something fails.
SentIsSettled ==
    \A t \in ledger : rows[t.row.id] = t.row /\ status[t.row.id] = "pending" =>
        faults > 0 \/ \E h \in Handlers : pc[h] = "record" /\ cur[h] = t.row

\* What is lost to overlapping requests and failures is bounded: one row is sent at
\* most once per request that can run at the same time, and as often again for each
\* failure (the end of the process costs every request its UPDATE).
BoundedRepay ==
    \A t \in ledger :
        Cardinality({u \in ledger : u.row = t.row}) <= Cardinality(Handlers) * (1 + faults)

\* "All rewards should be persisted": a contribution whose hook was answered has a
\* reward for its contributor from then on.
AllPersisted ==
    [][\A c \in Contribs : status[RewardId(c)] # "none"
         => rows'[RewardId(c)].user = rows[RewardId(c)].user]_vars

=============================================================================
