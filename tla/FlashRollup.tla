---------------------------- MODULE FlashRollup ----------------------------
(***************************************************************************)
(* The contract and an honest sequencer together: the bridge of module     *)
(* FlashBridge, where the batches committed are those of a sequencer that  *)
(* runs FlashState (sequencer/src/core/sequencer.ts) and credits deposits  *)
(* it has verified in the contract (sequencer/src/settlement/engine.ts).   *)
(* What the contract cannot check, that the published trees and the vault  *)
(* belong together, is stated here.                                        *)
(*                                                                         *)
(* Abstractions: the log, its persistence and crashes are in Sequencer,    *)
(* how a sealed batch gets to the contract is in SettlementEngine; here a  *)
(* sealed batch is committed some time later, in order, once.              *)
(***************************************************************************)
EXTENDS FlashBridge, FiniteSetsExt

CONSTANTS
    L2Request,   \* what users ask of L2: type, from, to, token, amount
    MaxNonce     \* bound: transactions signed by an account

ASSUME RollupInputs ==
    /\ L2Request \subseteq [type : {"transfer", "withdraw"}, from : Address, to : Address,
                            token : Token, amount : Nat]
    /\ MaxNonce \in Nat

VARIABLES
    l2,       \* the sequencer's state
    out,      \* withdrawals executed since the last sealed batch
    sealed,   \* batches sealed and not committed yet
    halted,   \* the engine stopped because of insolvency; not persisted
    revived   \* history: a batch was committed that takes back an emergency exit

l2Vars == <<l2, out, sealed, halted, revived>>
allVars == <<vars, l2Vars>>

L2 == INSTANCE FlashState WITH Account <- Address

-----------------------------------------------------------------------------
InitRollup ==
    /\ Init
    /\ l2 = L2!EmptyState
    /\ out = <<>>
    /\ sealed = <<>>
    /\ halted = FALSE
    /\ revived = FALSE

\* verifyDeposit(): the contract has the deposit the event announces.
Verified(index) == index \in DOMAIN deposits

\* scanDeposits(): the next deposit is verified and credited.
CreditDeposit ==
    /\ ~halted
    /\ Verified(l2.nextDepositIndex)
    /\ LET d == deposits[l2.nextDepositIndex] IN
       l2' = L2!Apply(l2, [type |-> "deposit", depositIndex |-> l2.nextDepositIndex,
                           to |-> d.l2Recipient, token |-> d.token, amount |-> d.amount])
    /\ UNCHANGED <<vars, out, sealed, halted, revived>>

\* submit(tx) of a signed transfer or withdraw with the account's next nonce.
Execute(request) ==
    LET nonce == L2!Get(l2, request.from, request.token).nonce
        tx == [type |-> request.type, from |-> request.from, to |-> request.to,
               token |-> request.token, amount |-> request.amount,
               nonce |-> nonce, signed |-> TRUE]
    IN  /\ nonce < MaxNonce
        /\ L2!Valid(l2, Token, tx)
        /\ l2' = L2!Apply(l2, tx)
        /\ out' = IF tx.type = "withdraw" THEN Append(out, L2!WithdrawalOf(tx)) ELSE out
        /\ UNCHANGED <<vars, sealed, halted, revived>>

\* Mutant: a batch continues the contract's last batch, not the last sealed.
LastCommitted == [root |-> PrevState.stateRoot, cursor |-> PrevState.depositCursor]

\* What the next sealed batch continues.
LastSealed ==
    IF sealed # <<>>
    THEN [root |-> sealed[Len(sealed)].newRoot, cursor |-> sealed[Len(sealed)].cursor]
    ELSE [root |-> PrevState.stateRoot, cursor |-> PrevState.depositCursor]

\* Mutant: the last deposit credited is not covered by the cursor.
CursorBehind == l2.nextDepositIndex - 1

DepositCursor == l2.nextDepositIndex

\* sealBatch() of everything pending: every transaction moves a nonce or the
\* deposit index.
SealBatch ==
    /\ ~halted
    /\ Len(batches) + Len(sealed) < MaxBatches
    /\ L2!Root(l2) # LastSealed.root \/ l2.nextDepositIndex # LastSealed.cursor
    /\ sealed' = Append(sealed,
          [prevRoot |-> LastSealed.root,
           newRoot |-> L2!Root(l2),
           withdrawalsRoot |-> L2!WithdrawalsTree(Len(batches) + Len(sealed) + 1, out),
           cursor |-> DepositCursor])
    /\ out' = <<>>
    /\ UNCHANGED <<vars, l2, halted, revived>>

Escaped(batch) == {e \in escaped : e[1] = batch}

\* Deposits given back although the new batch credits them.
ReclaimedBelow(cursor) ==
    {p \in DOMAIN payouts : p.kind = "reclaim" /\ p.index < cursor}

\* The engine commits the oldest sealed batch.
CommitSealed ==
    /\ ~halted
    /\ sealed # <<>>
    /\ LET batch == sealed[1] IN
       /\ CommitBatch(sequencer, Len(batches) + 1, batch.prevRoot, batch.newRoot,
                      batch.withdrawalsRoot, 1, batch.cursor)
       /\ revived' = (revived \/ Escaped(Len(batches)) # {} \/ ReclaimedBelow(batch.cursor) # {})
    /\ sealed' = Tail(sealed)
    /\ UNCHANGED <<l2, out, halted>>

\* getVaultBalance(): the token's balance(bridge), from an endpoint that is up
\* to date.
VaultBalance(token) == vault[token]

\* Mutant: the order of the subtraction is wrong.
Overfunded == {token \in Token : L2!Issued(l2, token) > 0 /\ VaultBalance(token) > L2!Issued(l2, token)}

Breaches == {token \in Token : L2!Issued(l2, token) > 0 /\ L2!Issued(l2, token) > VaultBalance(token)}

\* checkSolvency(): nothing is credited, sealed or published any more ...
CheckSolvency ==
    /\ ~halted
    /\ Breaches # {}
    /\ halted' = TRUE
    /\ UNCHANGED <<vars, l2, out, sealed, revived>>

\* ... until the process is started again, which knows nothing of it.
Restart ==
    /\ halted' = FALSE
    /\ UNCHANGED <<vars, l2, out, sealed, revived>>

\* A user, or the operator, claims a withdrawal of a published tree.
ClaimWithdrawal ==
    \E b \in DOMAIN batches : \E w \in DOMAIN batches[b].withdrawalsRoot.leaves :
        LET leaf == batches[b].withdrawalsRoot.leaves[w] IN
        Withdraw(b, w, leaf.recipient, leaf.token, leaf.amount)

EscapeSome ==
    /\ batches # <<>>
    /\ \E leaf \in LastBatch.stateRoot :
          Escape(leaf.account, leaf.token, leaf.balance, leaf.nonce)

BridgeStep ==
    \/ CloseLedger
    \/ SomeDeposit
    \/ ClaimWithdrawal
    \/ EscapeSome
    \/ SomeReclaim
    \/ SomeAdminCall

NextRollup ==
    \/ CreditDeposit
    \/ \E request \in L2Request : Execute(request)
    \/ SealBatch
    \/ CommitSealed
    \/ CheckSolvency
    \/ Restart
    \/ BridgeStep /\ UNCHANGED l2Vars

SpecRollup == InitRollup /\ [][NextRollup]_allVars

-----------------------------------------------------------------------------
\* Type invariant of the sequencer's side: no L2 balance is negative, and the
\* sealed batches continue the contract's chain.
RollupTypeOK ==
    /\ l2.nextDepositIndex \in 0..depositCount
    /\ DOMAIN l2.accounts \subseteq Address \X Token
    /\ l2.accounts \in [DOMAIN l2.accounts -> L2!AccountState]
    /\ out \in Seq(Withdrawal)
    /\ \A k \in DOMAIN sealed :
          /\ sealed[k].prevRoot = IF k = 1 THEN PrevState.stateRoot ELSE sealed[k - 1].newRoot
          /\ sealed[k].cursor <= l2.nextDepositIndex
    /\ {halted, revived} \subseteq BOOLEAN

AmountOf(leaves, token) ==
    MapThenSumSet(LAMBDA w : leaves[w].amount, {w \in DOMAIN leaves : leaves[w].token = token})

\* Balances of the last batch that have not escaped.
Escapable(token) ==
    IF batches = <<>> THEN 0
    ELSE MapThenSumSet(LAMBDA leaf : leaf.balance,
            {leaf \in LastBatch.stateRoot :
                leaf.token = token /\ <<Len(batches), leaf.account, token>> \notin escaped})

\* Withdrawals of committed batches nobody has claimed yet.
Claimable(token) ==
    MapThenSumSet(LAMBDA bw : batches[bw[1]].withdrawalsRoot.leaves[bw[2]].amount,
        UNION {{<<b, w>> : w \in {w \in DOMAIN batches[b].withdrawalsRoot.leaves :
                    /\ batches[b].withdrawalsRoot.leaves[w].token = token
                    /\ <<b, w>> \notin claimed}} : b \in DOMAIN batches})

\* Deposits made that the last batch does not credit and nobody took back.
Reclaimable(token) ==
    MapThenSumSet(LAMBDA i : deposits[i].amount,
        {i \in DOMAIN deposits : i >= PrevState.depositCursor /\ deposits[i].token = token})

\* Every unit in the vault belongs to exactly one exit: a balance of the last
\* batch, an unclaimed withdrawal, or a deposit not credited yet.  Nobody's
\* exit can be short of funds, nothing is locked in for good, and this through
\* any number of emergency exits, as long as no batch comes after them.
VaultCoversExits ==
    ~revived => \A token \in Token :
        vault[token] = Escapable(token) + Claimable(token) + Reclaimable(token)

\* With an honest sequencer the vault never runs short of an open exit: whoever
\* else claims, escapes or reclaims first, and whatever the admin does, an
\* emergency exit that is open closes only by being used or by a new batch
\* (lib.rs:546, 574: the transfers that would trap), until a batch takes back an
\* exit.
ExitsStayOpen ==
    [][~revived' =>
         /\ batches # <<>> => \A leaf \in LastBatch.stateRoot :
                                CanEscape(leaf) => EscapeStays(leaf)
         /\ \A index \in DOMAIN deposits : CanReclaim(index) => ReclaimStays(index)
      ]_allVars

\* FXLM issued on L2 is always backed by the vault (state.ts:194-197).
Solvent == \A token \in Token : L2!Issued(l2, token) <= vault[token]

\* It is, together with everything on its way out, until an emergency exit is
\* used: checkSolvency raises no false alarm (engine.ts:191-192: "Que falte es
\* siempre un problema"), as long as it is answered with the vault of now.
SolventUntilExit ==
    (\A p \in DOMAIN payouts : p.kind = "withdraw") =>
        /\ ~halted
        /\ \A token \in Token :
            L2!Issued(l2, token) + AmountOf(out, token) + Claimable(token)
              + MapThenSumSet(LAMBDA k : AmountOf(sealed[k].withdrawalsRoot.leaves, token),
                              DOMAIN sealed)
            <= vault[token]
=============================================================================
