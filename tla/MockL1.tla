------------------------------- MODULE MockL1 -------------------------------
(***************************************************************************)
(* MockL1Client of settlement/l1.ts, the double of Stellar and the bridge  *)
(* that the tests and the local demo run the sequencer against, told of    *)
(* every call the contract of FlashRollup executes.  A test that passes    *)
(* with it says something about the contract as far as the two agree.      *)
(*                                                                         *)
(* Abstractions: as in FlashBridge; its simulated clock and the hashes it  *)
(* makes up are left out; `recorded` is `deposits`, which differ only      *)
(* where a test invents an event.                                          *)
(***************************************************************************)
EXTENDS FlashRollup

VARIABLE mock   \* [batches, deposits, claimedKeys, claimed]

mockVars == <<allVars, mock>>

\* new MockL1Client
MockInit ==
    /\ InitRollup
    /\ mock = [batches |-> <<>>, deposits |-> <<>>, claimedKeys |-> {},
               claimed |-> [t \in Token |-> 0]]

\* deposit, and relayDeposit, which calls it: the amount is not looked at.
AfterDeposit(info) == [mock EXCEPT !.deposits = Append(@, info)]

\* commitBatch that is accepted.
AfterCommit(batch) == [mock EXCEPT !.batches = Append(@, batch)]

\* claimWithdrawal: each key once; neither proof nor finality is looked at.
ClaimTaken(b, w) == <<b, w>> \in mock.claimedKeys

AfterClaim(b, w, token, amount) ==
    [mock EXCEPT !.claimedKeys = @ \cup {<<b, w>>}, !.claimed[token] = @ + amount]

-----------------------------------------------------------------------------
(* commitBatch *)

\* mode, the fee bid (a high one is at least 25_000), and, in mode slow,
\* whether this is an odd attempt.
Conditions ==
    {[mode |-> "healthy", highFee |-> FALSE, odd |-> FALSE],
     [mode |-> "down",    highFee |-> TRUE,  odd |-> FALSE],
     [mode |-> "slow",    highFee |-> FALSE, odd |-> TRUE],
     [mode |-> "slow",    highFee |-> FALSE, odd |-> FALSE],
     [mode |-> "degraded", highFee |-> FALSE, odd |-> FALSE],
     [mode |-> "degraded", highFee |-> TRUE,  odd |-> FALSE]}

MockPrev ==
    IF mock.batches = <<>> THEN [newRoot |-> ZeroRoot, cursor |-> 0]
    ELSE mock.batches[Len(mock.batches)]

\* Mutant: the cursor of the batch before is not looked at.
CursorInDeposits(cursor) == cursor <= Len(mock.deposits)

CursorInRange(cursor) == cursor >= MockPrev.cursor /\ cursor <= Len(mock.deposits)

CommitAnswer(conditions, batch) ==
    CASE conditions.mode = "down" -> "NETWORK"
      [] conditions.mode = "slow" /\ conditions.odd -> "TRY_AGAIN_LATER"
      [] conditions.mode = "degraded" /\ ~conditions.highFee -> "TIMEOUT"
      [] OTHER ->
            CASE batch.index # Len(mock.batches) + 1 -> "InvalidBatchIndex"
              [] batch.index = Len(mock.batches) + 1 /\ batch.prevRoot # MockPrev.newRoot -> "StateRootMismatch"
              [] OTHER ->
                    CASE batch.txCount = 0 -> "EmptyBatch"
                      [] batch.txCount # 0 /\ ~CursorInRange(batch.cursor) -> "InvalidDepositCursor"
                      [] OTHER -> "committed"

-----------------------------------------------------------------------------
(* Reads *)

\* getBridgeState
MockBridgeState ==
    [batchCount |-> Len(mock.batches), depositCount |-> Len(mock.deposits),
     stateRoot |-> MockPrev.newRoot]

\* getDeposit
MockGetDeposit(index) == mock.deposits[index + 1]

\* getVaultBalance
MockVaultBalance(token) ==
    MapThenSumSet(LAMBDA i : mock.deposits[i].amount,
                  {i \in DOMAIN mock.deposits : mock.deposits[i].token = token})
      - mock.claimed[token]

-----------------------------------------------------------------------------
\* The contract paid this withdrawal.
AfterPaid(bw) ==
    LET leaf == batches[bw[1]].withdrawalsRoot.leaves[bw[2]]
    IN  AfterClaim(bw[1], bw[2], leaf.token, leaf.amount)

\* The mock is called as the contract is.
MockFollows ==
    mock' = CASE depositCount' > depositCount -> AfterDeposit(deposits'[depositCount])
              [] Len(batches') > Len(batches) -> AfterCommit(sealed[1])
              [] claimed' # claimed -> AfterPaid(CHOOSE bw \in claimed' \ claimed : TRUE)
              [] OTHER -> mock

SpecMock == MockInit /\ [][NextRollup /\ MockFollows]_mockVars

\* Calls of commitBatch that continue the chain, or miss it by a little.
Calls == [index : {Len(batches), Len(batches) + 1}, prevRoot : {PrevState.stateRoot, L2!Root(l2)},
          txCount : {0, 1}, cursor : 0..(depositCount + 1)]

\* The mock takes a batch exactly when the contract does (l1.ts:233: "Reproduce
\* las validaciones del contrato"), whatever is wrong with L1 it takes none the
\* contract refuses, it refuses no claim the contract pays, and it answers what
\* the contract answers; only pause and the emergency exits it does not know.
MockReproducesContract ==
    /\ MockBridgeState = [batchCount |-> Len(batches), depositCount |-> depositCount,
                          stateRoot |-> PrevState.stateRoot]
    /\ ~paused =>
          \A call \in Calls, conditions \in Conditions :
             LET accepted == MayCommit(sequencer, call.index, call.prevRoot, call.txCount, call.cursor)
             IN  /\ CommitAnswer(conditions, call) = "committed" => accepted
                 /\ accepted /\ conditions.mode = "healthy" => CommitAnswer(conditions, call) = "committed"
    /\ \A b \in DOMAIN batches : \A w \in DOMAIN batches[b].withdrawalsRoot.leaves :
          <<b, w>> \notin claimed => ~ClaimTaken(b, w)
    /\ (\A p \in DOMAIN payouts : p.kind = "withdraw") =>
          /\ \A token \in Token : MockVaultBalance(token) = vault[token]
          /\ \A index \in DOMAIN deposits : MockGetDeposit(index) = deposits[index]
=============================================================================
